-------------------------- MODULE MacFilterProofs ---------------------------
(***************************************************************************)
(* Proofs about MacFilter, for any set of addresses and any history of     *)
(* calls and reboots.  For one run of mac_filter.sh at a time, SerialInv   *)
(* says for every command of the script what the file, the chain and the   *)
(* hooks are just before it.  For overlapping runs, CoverInv says which    *)
(* run will render a listed address that has no rule.                      *)
(***************************************************************************)
EXTENDS MacFilter, WellFoundedInduction, TLAPS

USE MacFilterAssumption

\* Before the first call the file, the chain and the hooks are empty.
LEMMA InitOK == Init => SerialInv
<1> SUFFICES ASSUME Init PROVE SerialInv
  OBVIOUS
<1> USE DEF Init
<1>1. TypeOK
  BY DEF TypeOK, EmptyConf, BootTable, EmptyTable, NoMacs, Confs, Labels, Builtins, Chains, Rules
<1>2. OneRun /\ \A p \in Procs : StepOK(p) /\ HookingOK(p)
  BY DEF OneRun, StepOK, HookingOK
<1>3. HooksOK
  BY DEF HooksOK, BootTable, EmptyTable, Chains, Builtins
<1>4. CHAIN \notin table.known
  BY DEF BootTable, EmptyTable, CHAIN, Builtins
<1> QED BY <1>1, <1>2, <1>3, <1>4 DEF SerialInv

\* A reboot takes the chain and every run with it; the file keeps its lines.
LEMMA RebootOK == SerialInv /\ Reboot => SerialInv'
<1> SUFFICES ASSUME SerialInv, Reboot PROVE SerialInv'
  OBVIOUS
<1> USE DEF Reboot
<1>1. TypeOK'
  BY DEF SerialInv, TypeOK, EmptyConf, BootTable, EmptyTable, NoMacs, Confs, Labels, Builtins, Chains, Rules
<1>2. OneRun' /\ \A p \in Procs : StepOK(p)' /\ HookingOK(p)'
  BY DEF OneRun, StepOK, HookingOK
<1>3. HooksOK'
  BY DEF HooksOK, BootTable, EmptyTable, Chains, Builtins
<1>4. (CHAIN \notin table.known)'
  BY DEF BootTable, EmptyTable, CHAIN, Builtins
<1> QED BY <1>1, <1>2, <1>3, <1>4 DEF SerialInv

\* With one run at a time, every process but the one that moves is idle.
LEMMA OthersIdle ==
  ASSUME SerialInv, NEW p \in Procs, pc[p] # "idle"
  PROVE  \A q \in Procs : q # p => pc[q] = "idle"
BY DEF SerialInv, OneRun

\* A call starts one run and changes neither file nor table.
LEMMA CallOK ==
  ASSUME SerialInv, Serialised, NEW p \in Procs, NEW r \in Requests, Call(p, r)
  PROVE  SerialInv'
<1> USE DEF Call, Goto, files
<1>0. \A q \in Procs : pc[q] = "idle"
  OBVIOUS
<1>1. TypeOK'
  BY DEF SerialInv, TypeOK, Labels
<1>2. OneRun'
  BY <1>0 DEF OneRun, SerialInv, TypeOK
<1>3. \A q \in Procs : StepOK(q)' 
  BY <1>0 DEF StepOK, SerialInv, TypeOK, Requests
<1>4. \A q \in Procs : HookingOK(q)' 
  BY <1>0 DEF HookingOK, SerialInv, TypeOK
<1>5. HooksOK'
  BY <1>0 DEF HooksOK, HooksAlike, StatusSettled, SerialInv, TypeOK
<1>6. (CHAIN \in table.known /\ (\A q \in Procs : Settled(q)) => Rendered(chain))'
  BY <1>0 DEF SerialInv, TypeOK, Settled, Rendered, chain
<1> QED BY <1>1, <1>2, <1>3, <1>4, <1>5, <1>6 DEF SerialInv

\* What "sed -i" and "echo >>" leave of the file.
LEMMA WithoutLinesFacts ==
  ASSUME NEW c \in Confs, NEW r \in Requests
  PROVE  /\ WithoutLines(c, r) \in Confs
         /\ r.op # "mode" => WithoutLines(c, r).mode = c.mode
         /\ r.op # "status" => WithoutLines(c, r).status = c.status
         /\ r.op = "status" => WithoutLines(c, r).status = <<>>
         /\ r.op \in {"mode", "status"} => WithoutLines(c, r).macs = c.macs
<1>1. CASE r.op = "mode"
  BY <1>1 DEF WithoutLines, Confs, Requests
<1>2. CASE r.op = "status"
  BY <1>2 DEF WithoutLines, Confs, Requests
<1>3. CASE r.op \in {"add", "delete"}
  BY <1>3 DEF WithoutLines, Confs, Requests
<1> QED BY <1>1, <1>2, <1>3 DEF Requests

\* "echo >>" adds one line of the request and no other.
LEMMA WithLineFacts ==
  ASSUME NEW c \in Confs, NEW r \in Requests
  PROVE  /\ WithLine(c, r) \in Confs
         /\ r.op # "mode" => WithLine(c, r).mode = c.mode
         /\ r.op # "status" => WithLine(c, r).status = c.status
         /\ r.op = "status" /\ c.status = <<>> => WithLine(c, r).status = <<r.arg>>
         /\ r.op \in {"mode", "status"} => WithLine(c, r).macs = c.macs
<1>1. CASE r.op = "mode"
  BY <1>1 DEF WithLine, Confs, Requests
<1>2. CASE r.op = "status"
  <2>1. r.arg \in Statuses /\ c.status \in Seq(Statuses)
    BY <1>2 DEF Confs, Requests
  <2>2. Append(c.status, r.arg) \in Seq(Statuses)
    BY <2>1
  <2>3. c.status = <<>> => Append(c.status, r.arg) = <<r.arg>>
    BY <2>1
  <2> QED BY <1>2, <2>1, <2>2, <2>3 DEF WithLine, Confs
<1>3. CASE r.op \in {"add", "delete"}
  BY <1>3 DEF WithLine, Confs, Requests
<1> QED BY <1>1, <1>2, <1>3 DEF Requests

\* What the iptables commands of the script leave of a well-formed table.
TableType == [known : SUBSET Chains, rules : [Chains -> Seq(Rules)]]

\* iptables -A MAC_FILTER puts a rule of a known chain last.
LEMMA AppendRuleFacts ==
  ASSUME NEW t \in TableType, CHAIN \in t.known, NEW r \in Rules, r.target \in Verdicts
  PROVE  LET u == AppendRule(t, CHAIN, r)
         IN  /\ u \in TableType
             /\ u.known = t.known
             /\ u.rules[CHAIN] = Append(t.rules[CHAIN], r)
             /\ \A b \in Builtins : u.rules[b] = t.rules[b]
<1>1. Append(t.rules[CHAIN], r) \in Seq(Rules)
  BY DEF TableType, Chains
<1>2. AppendRule(t, CHAIN, r) = [t EXCEPT !.rules[CHAIN] = Append(t.rules[CHAIN], r)]
  BY DEF AppendRule, TargetExists
<1>3. CHAIN \in Chains /\ Builtins \subseteq Chains /\ CHAIN \notin Builtins
  BY DEF Chains, Builtins, CHAIN
<1> QED BY <1>1, <1>2, <1>3 DEF TableType

\* iptables -D MAC_FILTER 1 takes the first rule, if there is one.
LEMMA DeleteFirstFacts ==
  ASSUME NEW t \in TableType, CHAIN \in t.known
  PROVE  LET u == DeleteLine(t, CHAIN, 1)
         IN  /\ u \in TableType
             /\ u.known = t.known
             /\ ~HasLine(t, CHAIN, 1) => u = t /\ t.rules[CHAIN] = <<>>
             /\ \A b \in Builtins : u.rules[b] = t.rules[b]
<1> DEFINE s == t.rules[CHAIN]
<1>1. s \in Seq(Rules) /\ Len(s) \in Nat
  BY DEF TableType, Chains
<1>2. CASE HasLine(t, CHAIN, 1)
  <2>1. RemoveAt(s, 1) \in Seq(Rules)
    BY <1>1, <1>2 DEF RemoveAt, HasLine
  <2> QED BY <1>2, <2>1 DEF DeleteLine, TableType, Chains, Builtins, CHAIN
<1>3. CASE ~HasLine(t, CHAIN, 1)
  BY <1>1, <1>3 DEF HasLine, DeleteLine
<1> QED BY <1>2, <1>3

\* iptables -I of the jump succeeds exactly when the chain exists.
LEMMA InsertJumpFacts ==
  ASSUME NEW t \in TableType, NEW b \in Builtins, Builtins \subseteq t.known
  PROVE  LET u == InsertRule(t, b, Jump)
         IN  /\ u \in TableType
             /\ u.known = t.known
             /\ CHAIN \in t.known => u.rules[b] = <<Jump>> \o t.rules[b]
             /\ CHAIN \notin t.known => u = t
             /\ \A c \in Chains : c # b => u.rules[c] = t.rules[c]
<1>1. Jump \in Rules /\ Jump.target = CHAIN /\ CHAIN \notin Verdicts \cup PassThrough
  BY DEF Jump, Rule, Rules, CHAIN, Verdicts, PassThrough
<1>2. <<Jump>> \o t.rules[b] \in Seq(Rules)
  BY <1>1 DEF TableType, Chains
<1> QED BY <1>1, <1>2 DEF InsertRule, TargetExists, TableType, Chains

\* iptables -D of the jump empties a built-in chain that holds only the jump.
LEMMA DeleteJumpFacts ==
  ASSUME NEW t \in TableType, NEW b \in Builtins, Builtins \subseteq t.known,
         t.rules[b] \in {<<>>, <<Jump>>}, t.rules[b] # <<>> => CHAIN \in t.known
  PROVE  LET u == DeleteRule(t, b, Jump)
         IN  /\ u \in TableType
             /\ u.known = t.known
             /\ u.rules[b] = <<>>
             /\ \A c \in Chains : c # b => u.rules[c] = t.rules[c]
<1>1. CASE t.rules[b] = <<>>
  BY <1>1 DEF DeleteRule, HasRule
<1>2. CASE t.rules[b] = <<Jump>>
  <2>1. HasRule(t, b, Jump)
    BY <1>2 DEF HasRule, TargetExists, Jump, Rule
  <2>2. FirstEqual(t.rules[b], Jump) = 1
    BY <1>2 DEF FirstEqual
  <2>3. RemoveAt(<<Jump>>, 1) = <<>>
    BY DEF RemoveAt
  <2>4. DeleteRule(t, b, Jump) = [t EXCEPT !.rules[b] = <<>>]
    BY <1>2, <2>1, <2>2, <2>3 DEF DeleteRule, DeleteLine, HasLine, HasRule
  <2>5. b \in Chains /\ <<>> \in Seq(Rules)
    BY DEF Chains
  <2> QED BY <2>4, <2>5 DEF TableType
<1> QED BY <1>1, <1>2

\* Exit and NextBuiltin keep the shell variables well typed.
LEMMA ExitType ==
  ASSUME TypeOK, NEW p \in Procs, Exit(p)
  PROVE  /\ pc' \in [Procs -> Labels] /\ req' \in [Procs -> Requests \cup {NoRequest}]
         /\ mode' \in [Procs -> Seq(Modes)] /\ at' \in [Procs -> Builtins]
<1>1. "idle" \in Labels /\ <<>> \in Seq(Modes) /\ "INPUT" \in Builtins
  BY DEF Labels, Builtins
<1> QED BY <1>1 DEF TypeOK, Exit

\* Looking for the address ends the run or sends it on; nothing is changed.
LEMMA GrepOK ==
  ASSUME SerialInv, NEW p \in Procs, Grep(p)
  PROVE  SerialInv'
<1> USE DEF Grep, Goto, Exit, files
<1>0. /\ pc[p] # "idle" /\ req[p] \in Requests /\ conf \in Confs
      /\ \A q \in Procs : q # p => pc[q] = "idle"
  BY OthersIdle DEF SerialInv, StepOK, TypeOK
<1>1. TypeOK'
  <2>1. CASE conf.macs[req[p].arg] > 0 <=> req[p].op = "delete"
    BY <1>0, <2>1 DEF SerialInv, TypeOK, Labels
  <2>2. CASE ~(conf.macs[req[p].arg] > 0 <=> req[p].op = "delete")
    BY <1>0, <2>2, ExitType DEF SerialInv, TypeOK
  <2> QED BY <2>1, <2>2
<1>2. OneRun'
  BY <1>0 DEF OneRun, SerialInv, TypeOK
<1>3. \A q \in Procs : StepOK(q)'
  BY <1>0, <1>1 DEF StepOK, SerialInv, TypeOK, Requests
<1>4. \A q \in Procs : HookingOK(q)'
  BY <1>0 DEF HookingOK, StepOK, SerialInv, TypeOK
<1>5. HooksOK'
  BY <1>0 DEF HooksOK, HooksAlike, StatusSettled, StepOK, SerialInv, TypeOK
<1>6. (CHAIN \in table.known /\ (\A q \in Procs : Settled(q)) => Rendered(chain))'
  BY <1>0 DEF SerialInv, TypeOK, StepOK, Settled, Rendered, chain
<1> QED BY <1>1, <1>2, <1>3, <1>4, <1>5, <1>6 DEF SerialInv

\* The first half of "sed -i" only reads the file.
LEMMA SedReadOK ==
  ASSUME SerialInv, NEW p \in Procs, SedRead(p)
  PROVE  SerialInv'
<1> USE DEF SedRead, Goto, Exit, files
<1>0. /\ pc[p] # "idle" /\ req[p] \in Requests /\ conf \in Confs
      /\ \A q \in Procs : q # p => pc[q] = "idle"
  BY OthersIdle DEF SerialInv, StepOK, TypeOK
<1>1. TypeOK'
  BY <1>0, WithoutLinesFacts DEF SerialInv, StepOK, TypeOK, Labels, Builtins
<1>2. OneRun'
  BY <1>0 DEF OneRun, SerialInv, TypeOK
<1>3. \A q \in Procs : StepOK(q)'
  BY <1>0, <1>1, WithoutLinesFacts DEF StepOK, SerialInv, TypeOK, Requests
<1>4. \A q \in Procs : HookingOK(q)'
  BY <1>0 DEF HookingOK, StepOK, SerialInv, TypeOK
<1>5. HooksOK'
  BY <1>0, WithoutLinesFacts DEF HooksOK, HooksAlike, StatusSettled, StepOK, SerialInv, TypeOK
<1>6. (CHAIN \in table.known /\ (\A q \in Procs : Settled(q)) => Rendered(chain))'
  BY <1>0, WithoutLinesFacts DEF SerialInv, TypeOK, StepOK, Settled, Rendered, chain
<1> QED BY <1>1, <1>2, <1>3, <1>4, <1>5, <1>6 DEF SerialInv

\* The second half installs the edited copy: with one run it is still current.
LEMMA SedMoveOK ==
  ASSUME SerialInv, NEW p \in Procs, SedMove(p)
  PROVE  SerialInv'
<1> USE DEF SedMove, Goto, Exit, files
<1>0. /\ pc[p] # "idle" /\ req[p] \in Requests /\ conf \in Confs
      /\ \A q \in Procs : q # p => pc[q] = "idle"
  BY OthersIdle DEF SerialInv, StepOK, TypeOK
<1>1. TypeOK'
  BY <1>0, WithoutLinesFacts DEF SerialInv, StepOK, TypeOK, Labels, Builtins, Confs, EmptyConf, NoMacs
<1>2. OneRun'
  BY <1>0 DEF OneRun, SerialInv, TypeOK
<1>3. \A q \in Procs : StepOK(q)'
  BY <1>0, <1>1, WithoutLinesFacts DEF StepOK, SerialInv, TypeOK, Requests
<1>4. \A q \in Procs : HookingOK(q)'
  BY <1>0 DEF HookingOK, StepOK, SerialInv, TypeOK
<1>5. HooksOK'
  BY <1>0, WithoutLinesFacts DEF HooksOK, HooksAlike, StatusSettled, StepOK, SerialInv, TypeOK
<1>6. (CHAIN \in table.known /\ (\A q \in Procs : Settled(q)) => Rendered(chain))'
  <2>1. CASE req[p].op = "status"
    <3>1. conf'.mode = conf.mode /\ conf'.macs = conf.macs /\ table' = table
      BY <1>0, <2>1, WithoutLinesFacts DEF SerialInv, StepOK
    <3>2. \A q \in Procs : Settled(q)
      BY <1>0 DEF Settled
    <3> QED BY <3>1, <3>2 DEF SerialInv, Rendered, chain
  <2>2. CASE req[p].op # "status"
    <3>1. ~Settled(p)'
      BY <1>0, <2>2 DEF Settled, SerialInv, StepOK, TypeOK, Requests
    <3> QED BY <3>1
  <2> QED BY <2>1, <2>2
<1> QED BY <1>1, <1>2, <1>3, <1>4, <1>5, <1>6 DEF SerialInv

\* The new line is written and the run goes on to apply or to hook.
LEMMA AppendLineOK ==
  ASSUME SerialInv, NEW p \in Procs, AppendLine(p)
  PROVE  SerialInv'
<1> USE DEF AppendLine, Goto, Exit, files
<1>0. /\ pc[p] # "idle" /\ req[p] \in Requests /\ conf \in Confs
      /\ \A q \in Procs : q # p => pc[q] = "idle"
  BY OthersIdle DEF SerialInv, StepOK, TypeOK
<1>1. TypeOK'
  BY <1>0, WithLineFacts DEF SerialInv, StepOK, TypeOK, Labels, Builtins
<1>2. OneRun'
  BY <1>0 DEF OneRun, SerialInv, TypeOK
<1>3. \A q \in Procs : StepOK(q)'
  BY <1>0, <1>1, WithLineFacts DEF StepOK, SerialInv, TypeOK, Requests
<1>4. \A q \in Procs : HookingOK(q)'
  BY <1>0 DEF HookingOK, StepOK, SerialInv, TypeOK
<1>5. HooksOK'
  BY <1>0, WithLineFacts DEF HooksOK, HooksAlike, StatusSettled, StepOK, SerialInv, TypeOK, Requests
<1>6. (CHAIN \in table.known /\ (\A q \in Procs : Settled(q)) => Rendered(chain))'
  <2>1. CASE req[p].op = "status"
    <3>1. conf'.mode = conf.mode /\ conf'.macs = conf.macs /\ table' = table
      BY <1>0, <2>1, WithLineFacts
    <3>2. \A q \in Procs : Settled(q)
      BY <1>0, <2>1 DEF Settled
    <3> QED BY <3>1, <3>2 DEF SerialInv, Rendered, chain
  <2>2. CASE req[p].op # "status"
    <3>1. ~Settled(p)'
      BY <1>0, <2>2 DEF Settled, SerialInv, TypeOK
    <3> QED BY <3>1
  <2> QED BY <2>1, <2>2
<1> QED BY <1>1, <1>2, <1>3, <1>4, <1>5, <1>6 DEF SerialInv

\* apply_rules reads the mode the file has.
LEMMA GetModeOK ==
  ASSUME SerialInv, NEW p \in Procs, GetMode(p)
  PROVE  SerialInv'
<1> USE DEF GetMode, Goto, Exit, files
<1>0. /\ pc[p] # "idle" /\ req[p] \in Requests /\ conf \in Confs
      /\ \A q \in Procs : q # p => pc[q] = "idle"
  BY OthersIdle DEF SerialInv, StepOK, TypeOK
<1>1. TypeOK'
  BY <1>0 DEF SerialInv, StepOK, TypeOK, Labels, Builtins, Confs
<1>2. OneRun'
  BY <1>0 DEF OneRun, SerialInv, TypeOK
<1>3. \A q \in Procs : StepOK(q)'
  BY <1>0, <1>1 DEF StepOK, SerialInv, TypeOK, Requests
<1>4. \A q \in Procs : HookingOK(q)'
  BY <1>0 DEF HookingOK, StepOK, SerialInv, TypeOK
<1>5. HooksOK'
  BY <1>0 DEF HooksOK, HooksAlike, StatusSettled, StepOK, SerialInv, TypeOK
<1>6. (CHAIN \in table.known /\ (\A q \in Procs : Settled(q)) => Rendered(chain))'
  BY <1>0 DEF SerialInv, TypeOK, StepOK, Settled, Rendered, chain
<1> QED BY <1>1, <1>2, <1>3, <1>4, <1>5, <1>6 DEF SerialInv

\* Asking for the chain changes nothing.
LEMMA ListChainOK ==
  ASSUME SerialInv, NEW p \in Procs, ListChain(p)
  PROVE  SerialInv'
<1> USE DEF ListChain, Goto, Exit, files
<1>0. /\ pc[p] # "idle" /\ req[p] \in Requests /\ conf \in Confs
      /\ \A q \in Procs : q # p => pc[q] = "idle"
  BY OthersIdle DEF SerialInv, StepOK, TypeOK
<1>1. TypeOK'
  BY <1>0 DEF SerialInv, StepOK, TypeOK, Labels, Builtins
<1>2. OneRun'
  BY <1>0 DEF OneRun, SerialInv, TypeOK
<1>3. \A q \in Procs : StepOK(q)'
  BY <1>0, <1>1 DEF StepOK, SerialInv, TypeOK, Requests
<1>4. \A q \in Procs : HookingOK(q)'
  BY <1>0 DEF HookingOK, StepOK, SerialInv, TypeOK
<1>5. HooksOK'
  BY <1>0 DEF HooksOK, HooksAlike, StatusSettled, StepOK, SerialInv, TypeOK
<1>6. (CHAIN \in table.known /\ (\A q \in Procs : Settled(q)) => Rendered(chain))'
  BY <1>0 DEF SerialInv, TypeOK, StepOK, Settled, Rendered, chain
<1> QED BY <1>1, <1>2, <1>3, <1>4, <1>5, <1>6 DEF SerialInv

\* A new chain is empty.
LEMMA InitChainOK ==
  ASSUME SerialInv, NEW p \in Procs, InitChain(p)
  PROVE  SerialInv'
<1> USE DEF InitChain, Goto, Exit, files, NewChain
<1>0. /\ pc[p] # "idle" /\ req[p] \in Requests /\ conf \in Confs
      /\ \A q \in Procs : q # p => pc[q] = "idle"
  BY OthersIdle DEF SerialInv, StepOK, TypeOK
<1>1. TypeOK'
  BY <1>0 DEF SerialInv, StepOK, TypeOK, Labels, Builtins, Chains
<1>2. OneRun'
  BY <1>0 DEF OneRun, SerialInv, TypeOK
<1>3. \A q \in Procs : StepOK(q)'
  BY <1>0, <1>1 DEF StepOK, SerialInv, TypeOK, Requests
<1>4. \A q \in Procs : HookingOK(q)'
  BY <1>0 DEF HookingOK, StepOK, SerialInv, TypeOK
<1>5. HooksOK'
  BY <1>0 DEF HooksOK, HooksAlike, StatusSettled, StepOK, SerialInv, TypeOK
<1>6. (CHAIN \in table.known /\ (\A q \in Procs : Settled(q)) => Rendered(chain))'
  BY <1>0 DEF SerialInv, TypeOK, StepOK, Settled, Rendered, chain
<1> QED BY <1>1, <1>2, <1>3, <1>4, <1>5, <1>6 DEF SerialInv

\* flush_chain deletes rules until none is left.
LEMMA FlushOK ==
  ASSUME SerialInv, NEW p \in Procs, Flush(p)
  PROVE  SerialInv'
<1> USE DEF Flush, Goto, files
<1>0. /\ pc[p] # "idle" /\ req[p] \in Requests /\ conf \in Confs
      /\ table \in TableType /\ CHAIN \in Chains /\ Builtins \subseteq Chains
      /\ CHAIN \notin Builtins /\ Builtins \subseteq table.known
      /\ CHAIN \in table.known
      /\ \A q \in Procs : q # p => pc[q] = "idle"
  BY OthersIdle DEF SerialInv, StepOK, TypeOK, TableType, Chains, Builtins, CHAIN
<1>a. /\ table' \in TableType /\ table'.known = table.known
      /\ pc'[p] = "readMacs" => table'.rules[CHAIN] = <<>>
      /\ table'.rules["INPUT"] = table.rules["INPUT"]
      /\ table'.rules["FORWARD"] = table.rules["FORWARD"]
  <2>1. /\ table' \in TableType /\ table'.known = table.known
        /\ ~HasLine(table, CHAIN, 1) => table'.rules[CHAIN] = <<>>
        /\ \A b \in Builtins : table'.rules[b] = table.rules[b]
    <3> HIDE DEF Flush, Goto
    <3>1. table' = DeleteLine(table, CHAIN, 1)
      BY DEF Flush
    <3> QED BY <1>0, <3>1, DeleteFirstFacts
  <2>2. pc'[p] = "readMacs" => ~HasLine(table, CHAIN, 1)
    BY DEF SerialInv, TypeOK
  <2> QED BY <2>1, <2>2 DEF Builtins
<1>b. pc'[p] \in {"flush", "readMacs"} /\ pc' = [pc EXCEPT ![p] = pc'[p]]
  BY DEF SerialInv, TypeOK
<1>1. TypeOK'
  BY <1>a, <1>b DEF SerialInv, TypeOK, TableType, Labels
<1>2. OneRun'
  BY <1>0 DEF OneRun, SerialInv, TypeOK
<1>3. \A q \in Procs : StepOK(q)'
  BY <1>0, <1>a, <1>b DEF StepOK, SerialInv, TypeOK, chain
<1>4. \A q \in Procs : HookingOK(q)'
  BY <1>0, <1>a, <1>b DEF HookingOK, SerialInv, TypeOK
<1>5. HooksOK'
  BY <1>0, <1>a, <1>b DEF HooksOK, HooksAlike, StatusSettled, Builtins, SerialInv, TypeOK
<1>6. (CHAIN \in table.known /\ (\A q \in Procs : Settled(q)) => Rendered(chain))'
  BY <1>b DEF Settled
<1> QED BY <1>1, <1>2, <1>3, <1>4, <1>5, <1>6 DEF SerialInv

\* get_maclist starts the loop with the lines of the file and an empty chain.
LEMMA ReadMacsOK ==
  ASSUME SerialInv, NEW p \in Procs, ReadMacs(p)
  PROVE  SerialInv'
<1> USE DEF ReadMacs, Goto, files
<1>0. /\ pc[p] # "idle" /\ req[p] \in Requests /\ conf \in Confs
      /\ table \in TableType /\ CHAIN \in Chains /\ Builtins \subseteq Chains
      /\ CHAIN \notin Builtins /\ Builtins \subseteq table.known
      /\ \A q \in Procs : q # p => pc[q] = "idle"
  BY OthersIdle DEF SerialInv, StepOK, TypeOK, TableType, Chains, Builtins, CHAIN
<1>1. TypeOK'
  BY <1>0 DEF SerialInv, TypeOK, Labels, Confs
<1>2. OneRun'
  BY <1>0 DEF OneRun, SerialInv, TypeOK
<1>a. PartlyRendered(<<>>, conf.macs)
  BY DEF PartlyRendered
<1>b. pc'[p] = "rules" /\ todo'[p] = conf.macs /\ chain = <<>>
  BY DEF SerialInv, TypeOK, StepOK
<1>c. PartlyRendered(chain, todo[p])'
  BY <1>a, <1>b DEF PartlyRendered, chain
<1>3. \A q \in Procs : StepOK(q)'
  BY <1>0, <1>c DEF StepOK, SerialInv, TypeOK
<1>4. \A q \in Procs : HookingOK(q)'
  BY <1>0 DEF HookingOK, SerialInv, TypeOK
<1>5. HooksOK'
  BY <1>0 DEF HooksOK, HooksAlike, StatusSettled, SerialInv, TypeOK
<1>6. (CHAIN \in table.known /\ (\A q \in Procs : Settled(q)) => Rendered(chain))'
  BY <1>b DEF Settled
<1> QED BY <1>1, <1>2, <1>3, <1>4, <1>5, <1>6 DEF SerialInv

\* A built-in chain is empty or holds the jump, which needs the chain.
LEMMA HookFacts ==
  ASSUME SerialInv, NEW b \in Builtins
  PROVE  /\ table.rules[b] \in {<<>>, <<Jump>>}
         /\ table.rules[b] # <<>> => CHAIN \in table.known
BY DEF SerialInv, HooksOK

\* enable_chain inserts the jump where it was missing.
LEMMA InsertJumpOK ==
  ASSUME SerialInv, NEW p \in Procs, InsertJump(p)
  PROVE  SerialInv'
<1>0. /\ pc[p] # "idle" /\ req[p] \in Requests /\ conf \in Confs
      /\ table \in TableType /\ CHAIN \in Chains /\ Builtins \subseteq Chains
      /\ CHAIN \notin Builtins /\ Builtins \subseteq table.known
      /\ at[p] \in Builtins
      /\ \A q \in Procs : q # p => pc[q] = "idle"
  BY OthersIdle DEF InsertJump, SerialInv, StepOK, TypeOK, TableType, Chains, Builtins, CHAIN
<1>a. /\ table' \in TableType /\ table'.known = table.known
      /\ table'.rules[at[p]] = IF CHAIN \in table.known THEN <<Jump>> ELSE <<>>
      /\ \A c \in Chains : c # at[p] => table'.rules[c] = table.rules[c]
      /\ table'.rules[CHAIN] = table.rules[CHAIN]
  <2>1. table.rules[at[p]] = <<>>
    BY DEF InsertJump, SerialInv, HookingOK
  <2>2. <<Jump>> \o <<>> = <<Jump>>
    OBVIOUS
  <2>3. table' = InsertRule(table, at[p], Jump)
    BY DEF InsertJump
  <2> QED BY <1>0, <2>1, <2>2, <2>3, InsertJumpFacts
<1>b. \/ /\ at[p] = "INPUT" /\ pc' = [pc EXCEPT ![p] = "check"]
         /\ at' = [at EXCEPT ![p] = "FORWARD"] /\ UNCHANGED <<req, mode>>
      \/ /\ at[p] = "FORWARD" /\ pc' = [pc EXCEPT ![p] = "idle"]
         /\ at' = [at EXCEPT ![p] = "INPUT"] /\ req' = [req EXCEPT ![p] = NoRequest]
  BY <1>0 DEF InsertJump, NextBuiltin, Goto, Exit, Builtins
<1>u. pc[p] \in {"insert"} /\ UNCHANGED <<conf, snap, todo>>
  BY DEF InsertJump, files
<1>1. TypeOK'
  <2>1. CASE at[p] = "INPUT"
    BY <1>0, <1>a, <1>b, <1>u, <2>1 DEF SerialInv, TypeOK, TableType, Labels, Builtins
  <2>2. CASE at[p] # "INPUT"
    BY <1>0, <1>a, <1>u, <2>2, ExitType DEF InsertJump, NextBuiltin, SerialInv, TypeOK, TableType
  <2> QED BY <2>1, <2>2
<1>2. OneRun'
  BY <1>0, <1>b, <1>u DEF OneRun, SerialInv, TypeOK
<1>3. \A q \in Procs : StepOK(q)'
  BY <1>0, <1>a, <1>b, <1>u DEF StepOK, SerialInv, TypeOK
<1>4. \A q \in Procs : HookingOK(q)'
  BY <1>0, <1>a, <1>b, <1>u DEF HookingOK, HooksOK, SerialInv, TypeOK, Builtins
<1>5. HooksOK'
  BY <1>0, <1>a, <1>b, <1>u DEF HooksOK, HookingOK, HooksAlike, StatusSettled, StepOK, Builtins, SerialInv, TypeOK
<1>6. (CHAIN \in table.known /\ (\A q \in Procs : Settled(q)) => Rendered(chain))'
  BY <1>0, <1>a, <1>b, <1>u DEF SerialInv, Settled, Rendered, chain
<1> QED BY <1>1, <1>2, <1>3, <1>4, <1>5, <1>6 DEF SerialInv

\* disable_chain takes the jump from INPUT, then from FORWARD.
LEMMA DeleteJumpOK ==
  ASSUME SerialInv, NEW p \in Procs, DeleteJump(p)
  PROVE  SerialInv'
<1>0. /\ pc[p] # "idle" /\ req[p] \in Requests /\ conf \in Confs
      /\ table \in TableType /\ CHAIN \in Chains /\ Builtins \subseteq Chains
      /\ CHAIN \notin Builtins /\ Builtins \subseteq table.known
      /\ at[p] \in Builtins
      /\ \A q \in Procs : q # p => pc[q] = "idle"
  BY OthersIdle DEF DeleteJump, SerialInv, StepOK, TypeOK, TableType, Chains, Builtins, CHAIN
<1>a. /\ table' \in TableType /\ table'.known = table.known
      /\ table'.rules[at[p]] = <<>>
      /\ \A c \in Chains : c # at[p] => table'.rules[c] = table.rules[c]
      /\ table'.rules[CHAIN] = table.rules[CHAIN]
  <2>1. /\ table.rules[at[p]] \in {<<>>, <<Jump>>}
        /\ table.rules[at[p]] # <<>> => CHAIN \in table.known
    BY <1>0, HookFacts
  <2>2. table' = DeleteRule(table, at[p], Jump)
    BY DEF DeleteJump
  <2> QED BY <1>0, <2>1, <2>2, DeleteJumpFacts
<1>b. \/ /\ at[p] = "INPUT" /\ pc' = [pc EXCEPT ![p] = "unhook"]
         /\ at' = [at EXCEPT ![p] = "FORWARD"] /\ UNCHANGED <<req, mode>>
      \/ /\ at[p] = "FORWARD" /\ pc' = [pc EXCEPT ![p] = "idle"]
         /\ at' = [at EXCEPT ![p] = "INPUT"] /\ req' = [req EXCEPT ![p] = NoRequest]
  BY <1>0 DEF DeleteJump, NextBuiltin, Goto, Exit, Builtins
<1>u. pc[p] \in {"unhook"} /\ UNCHANGED <<conf, snap, todo>>
  BY DEF DeleteJump, files
<1>1. TypeOK'
  <2>1. CASE at[p] = "INPUT"
    BY <1>0, <1>a, <1>b, <1>u, <2>1 DEF SerialInv, TypeOK, TableType, Labels, Builtins
  <2>2. CASE at[p] # "INPUT"
    BY <1>0, <1>a, <1>u, <2>2, ExitType DEF DeleteJump, NextBuiltin, SerialInv, TypeOK, TableType
  <2> QED BY <2>1, <2>2
<1>2. OneRun'
  BY <1>0, <1>b, <1>u DEF OneRun, SerialInv, TypeOK
<1>3. \A q \in Procs : StepOK(q)'
  BY <1>0, <1>a, <1>b, <1>u DEF StepOK, SerialInv, TypeOK
<1>4. \A q \in Procs : HookingOK(q)'
  BY <1>0, <1>a, <1>b, <1>u DEF HookingOK, HooksOK, SerialInv, TypeOK, Builtins
<1>5. HooksOK'
  BY <1>0, <1>a, <1>b, <1>u DEF HooksOK, HookingOK, HooksAlike, StatusSettled, StepOK, Builtins, SerialInv, TypeOK
<1>6. (CHAIN \in table.known /\ (\A q \in Procs : Settled(q)) => Rendered(chain))'
  BY <1>0, <1>a, <1>b, <1>u DEF SerialInv, Settled, Rendered, chain
<1> QED BY <1>1, <1>2, <1>3, <1>4, <1>5, <1>6 DEF SerialInv

\* enable_chain asks for the jump first, so there are never two.
LEMMA CheckJumpOK ==
  ASSUME SerialInv, NEW p \in Procs, CheckJump(p)
  PROVE  SerialInv'
<1>0. /\ pc[p] # "idle" /\ req[p] \in Requests /\ conf \in Confs
      /\ table \in TableType /\ CHAIN \in Chains /\ Builtins \subseteq Chains
      /\ CHAIN \notin Builtins /\ Builtins \subseteq table.known
      /\ at[p] \in Builtins
      /\ \A q \in Procs : q # p => pc[q] = "idle"
  BY OthersIdle DEF CheckJump, SerialInv, StepOK, TypeOK, TableType, Chains, Builtins, CHAIN
<1>a. table' = table
  BY DEF CheckJump, files
<1>c. IF table.rules[at[p]] = <<>> THEN ~HasRule(table, at[p], Jump)
      ELSE table.rules[at[p]] = <<Jump>> /\ CHAIN \in table.known /\ HasRule(table, at[p], Jump)
  <2>1. /\ table.rules[at[p]] \in {<<>>, <<Jump>>}
        /\ table.rules[at[p]] # <<>> => CHAIN \in table.known
    BY <1>0, HookFacts
  <2> QED BY <1>0, <2>1 DEF HasRule, TargetExists, Jump, Rule
<1>b. \/ /\ table.rules[at[p]] = <<>> /\ pc' = [pc EXCEPT ![p] = "insert"]
         /\ UNCHANGED <<req, mode, at>>
      \/ /\ table.rules[at[p]] = <<Jump>> /\ CHAIN \in table.known
         /\ at[p] = "INPUT" /\ pc' = [pc EXCEPT ![p] = "check"]
         /\ at' = [at EXCEPT ![p] = "FORWARD"] /\ UNCHANGED <<req, mode>>
      \/ /\ table.rules[at[p]] = <<Jump>> /\ CHAIN \in table.known
         /\ at[p] = "FORWARD" /\ pc' = [pc EXCEPT ![p] = "idle"]
         /\ at' = [at EXCEPT ![p] = "INPUT"] /\ req' = [req EXCEPT ![p] = NoRequest]
         /\ Exit(p)
  BY <1>0, <1>c DEF CheckJump, NextBuiltin, Goto, Exit, Builtins
<1>u. pc[p] \in {"check"} /\ UNCHANGED <<conf, snap, todo>>
  BY DEF CheckJump, files
<1>1. TypeOK'
  <2>1. CASE pc'[p] = "idle"
    BY <1>0, <1>a, <1>b, <1>u, <2>1, ExitType DEF SerialInv, TypeOK
  <2>2. CASE pc'[p] # "idle"
    BY <1>0, <1>a, <1>b, <1>u, <2>2 DEF SerialInv, TypeOK, Labels, Builtins
  <2> QED BY <2>1, <2>2
<1>2. OneRun'
  BY <1>0, <1>b, <1>u DEF OneRun, SerialInv, TypeOK
<1>3. \A q \in Procs : StepOK(q)'
  BY <1>0, <1>a, <1>b, <1>u DEF StepOK, SerialInv, TypeOK
<1>4. \A q \in Procs : HookingOK(q)'
  BY <1>0, <1>a, <1>b, <1>u DEF HookingOK, HooksOK, SerialInv, TypeOK, Builtins
<1>5. HooksOK'
  BY <1>0, <1>a, <1>b, <1>u DEF HooksOK, HookingOK, HooksAlike, StatusSettled, StepOK, Builtins, SerialInv, TypeOK
<1>6. (CHAIN \in table.known /\ (\A q \in Procs : Settled(q)) => Rendered(chain))'
  BY <1>0, <1>a, <1>b, <1>u DEF SerialInv, Settled, Rendered, chain
<1> QED BY <1>1, <1>2, <1>3, <1>4, <1>5, <1>6 DEF SerialInv

\* One turn of the loop moves one line from the list to the chain.
LEMMA AddMacRuleOK ==
  ASSUME SerialInv, NEW p \in Procs, AddMacRule(p)
  PROVE  SerialInv'
<1>0. /\ pc[p] = "rules" /\ req[p] \in Requests /\ conf \in Confs
      /\ table \in TableType /\ CHAIN \in table.known /\ mode[p] = conf.mode
      /\ chain \in Seq(Rules) /\ PartlyRendered(chain, todo[p])
      /\ \A q \in Procs : q # p => pc[q] = "idle"
  BY OthersIdle DEF AddMacRule, SerialInv, StepOK, TypeOK, TableType, chain, Chains
<1>a. PICK m \in Macs :
        /\ todo[p][m] > 0
        /\ todo' = [todo EXCEPT ![p][m] = @ - 1]
        /\ table' = IF m \in ValidMacs
                    THEN AppendRule(table, CHAIN, MacRule(m, mode[p])) ELSE table
  BY DEF AddMacRule
<1>u. UNCHANGED <<conf, pc, req, snap, mode, at>>
  BY DEF AddMacRule
<1>r. /\ MacRule(m, mode[p]) \in Rules /\ MacRule(m, mode[p]).target \in Verdicts
      /\ MacRule(m, mode[p]).match = m
  BY DEF MacRule, Rule, Rules, Verdicts
<1>b. /\ table' \in TableType /\ table'.known = table.known
      /\ chain' = IF m \in ValidMacs THEN Append(chain, MacRule(m, conf.mode)) ELSE chain
      /\ table'.rules["INPUT"] = table.rules["INPUT"]
      /\ table'.rules["FORWARD"] = table.rules["FORWARD"]
  <2>1. CASE m \in ValidMacs
    <3>1. table' = AppendRule(table, CHAIN, MacRule(m, mode[p]))
      BY <1>a, <2>1
    <3>2. /\ table' \in TableType /\ table'.known = table.known
          /\ table'.rules[CHAIN] = Append(table.rules[CHAIN], MacRule(m, mode[p]))
          /\ \A b \in Builtins : table'.rules[b] = table.rules[b]
      BY <1>0, <1>r, <3>1, AppendRuleFacts
    <3> QED BY <1>0, <2>1, <3>2 DEF chain, Builtins
  <2>2. CASE m \notin ValidMacs
    BY <1>0, <1>a, <2>2 DEF chain
  <2> QED BY <2>1, <2>2
<1>t. /\ todo' \in [Procs -> [Macs -> Nat]]
      /\ todo'[p] = [todo[p] EXCEPT ![m] = @ - 1]
  BY <1>a DEF SerialInv, TypeOK
<1>1. TypeOK'
  BY <1>b, <1>t, <1>u DEF SerialInv, TypeOK, TableType
<1>2. OneRun'
  BY <1>u DEF OneRun, SerialInv
<1>p. PartlyRendered(chain, todo[p])'
  <2>1. CASE m \in ValidMacs
    <3>1. chain' = Append(chain, MacRule(m, conf.mode))
      BY <1>b, <2>1
    <3>2. /\ DOMAIN chain = 1..Len(chain) /\ DOMAIN chain' = 1..(Len(chain) + 1)
          /\ \A k \in 1..Len(chain) : chain'[k] = chain[k]
          /\ chain'[Len(chain) + 1] = MacRule(m, conf.mode) /\ Len(chain) \in Nat
      BY <1>0, <1>r, <3>1
    <3>3. \A k \in DOMAIN chain' :
            chain'[k].match \in ValidMacs /\ chain'[k] = MacRule(chain'[k].match, conf.mode)
      BY <1>0, <1>r, <2>1, <3>2 DEF PartlyRendered
    <3>4. conf.macs[m] > 0
      BY <1>0, <1>a, <2>1 DEF PartlyRendered
    <3>5. ASSUME NEW n \in ValidMacs
          PROVE  conf.macs[n] > 0 <=> todo'[p][n] > 0 \/ \E k \in DOMAIN chain' : chain'[k].match = n
      <4>1. CASE n = m
        BY <1>0, <1>r, <3>2, <3>4, <4>1
      <4>2. CASE n # m
        <5>1. todo'[p][n] = todo[p][n]
          BY <1>t, <4>2 DEF SerialInv, TypeOK
        <5>2. (\E k \in DOMAIN chain' : chain'[k].match = n)
                <=> \E k \in DOMAIN chain : chain[k].match = n
          BY <1>r, <1>0, <3>2, <4>2
        <5> QED BY <1>0, <5>1, <5>2 DEF PartlyRendered
      <4> QED BY <4>1, <4>2
    <3> QED BY <1>u, <3>3, <3>5 DEF PartlyRendered
  <2>2. CASE m \notin ValidMacs
    BY <1>0, <1>b, <1>t, <1>u, <2>2 DEF PartlyRendered, SerialInv, TypeOK
  <2> QED BY <2>1, <2>2
<1>3. \A q \in Procs : StepOK(q)'
  BY <1>0, <1>b, <1>p, <1>u DEF StepOK, SerialInv
<1>4. \A q \in Procs : HookingOK(q)'
  BY <1>0, <1>u DEF HookingOK
<1>5. HooksOK'
  BY <1>b, <1>u DEF HooksOK, HooksAlike, StatusSettled, Builtins, SerialInv
<1>6. (CHAIN \in table.known /\ (\A q \in Procs : Settled(q)) => Rendered(chain))'
  BY <1>0, <1>u DEF Settled
<1> QED BY <1>1, <1>2, <1>3, <1>4, <1>5, <1>6 DEF SerialInv

\* When the list is through, the catch-all DROP completes a whitelist.
LEMMA FinishOK ==
  ASSUME SerialInv, NEW p \in Procs, Finish(p)
  PROVE  SerialInv'
<1>0. /\ pc[p] = "rules" /\ req[p] \in Requests /\ conf \in Confs
      /\ table \in TableType /\ CHAIN \in table.known /\ mode[p] = conf.mode
      /\ chain \in Seq(Rules) /\ PartlyRendered(chain, todo[p])
      /\ \A q \in Procs : q # p => pc[q] = "idle"
  BY OthersIdle DEF Finish, SerialInv, StepOK, TypeOK, TableType, chain, Chains
<1>u. UNCHANGED <<conf, snap, todo>> /\ Exit(p) /\ todo[p] = NoMacs
  BY DEF Finish
<1>r. DropAll \in Rules /\ DropAll.target \in Verdicts
  BY DEF DropAll, Rule, Rules, Verdicts
<1>b. /\ table' \in TableType /\ table'.known = table.known
      /\ chain' = IF Whitelist(conf.mode) THEN Append(chain, DropAll) ELSE chain
      /\ table'.rules["INPUT"] = table.rules["INPUT"]
      /\ table'.rules["FORWARD"] = table.rules["FORWARD"]
  BY <1>0, <1>r, AppendRuleFacts DEF Finish, chain, Builtins
<1>e. /\ pc' = [pc EXCEPT ![p] = "idle"] /\ req' = [req EXCEPT ![p] = NoRequest]
      /\ at' = [at EXCEPT ![p] = "INPUT"]
  BY <1>u DEF Exit
<1>1. TypeOK'
  BY <1>b, <1>u, ExitType DEF SerialInv, TypeOK, TableType
<1>2. OneRun'
  BY <1>0, <1>e DEF OneRun, SerialInv, TypeOK
<1>3. \A q \in Procs : StepOK(q)'
  BY <1>0, <1>b, <1>e DEF StepOK, SerialInv, TypeOK
<1>4. \A q \in Procs : HookingOK(q)'
  BY <1>0, <1>e DEF HookingOK, SerialInv, TypeOK
<1>5. HooksOK'
  BY <1>0, <1>b, <1>e, <1>u DEF HooksOK, HooksAlike, StatusSettled, Builtins, SerialInv, TypeOK
<1>6. Rendered(chain)'
  <2>1. \A n \in ValidMacs : conf.macs[n] > 0 <=> \E k \in DOMAIN chain : chain[k].match = n
    BY <1>0, <1>u DEF PartlyRendered, NoMacs
  <2>2. CASE Whitelist(conf.mode)
    <3>1. /\ DOMAIN chain = 1..Len(chain) /\ DOMAIN chain' = 1..(Len(chain) + 1)
          /\ \A k \in 1..Len(chain) : chain'[k] = chain[k]
          /\ chain'[Len(chain) + 1] = DropAll
          /\ Len(chain') = Len(chain) + 1 /\ Len(chain) \in Nat
      BY <1>0, <1>b, <1>r, <2>2
    <3>2. DropAll.match \notin ValidMacs
      BY DEF DropAll, Rule
    <3> QED BY <1>0, <1>u, <2>1, <2>2, <3>1, <3>2 DEF Rendered, PartlyRendered
  <2>3. CASE ~Whitelist(conf.mode)
    BY <1>0, <1>b, <1>u, <2>1, <2>3 DEF Rendered, PartlyRendered
  <2> QED BY <2>2, <2>3
<1> QED BY <1>1, <1>2, <1>3, <1>4, <1>5, <1>6 DEF SerialInv

\* A nonempty set of line numbers has a least one.
LEMMA LeastLine ==
  ASSUME NEW T, T \subseteq Nat, T # {}
  PROVE  \E k \in T : \A j \in T : k <= j
<1>1. PICK x \in T : \A y \in T : ~(<<y, x>> \in OpToRel(<, Nat))
  BY NatLessThanWellFounded, WFMin
<1>2. \A y \in T : ~(y < x)
  BY <1>1 DEF OpToRel
<1> QED BY <1>2

\* Rules rendered from the file decide as the file asks.
LEMMA RenderedDecides ==
  ASSUME NEW s \in Seq(Rules), Rendered(s), NEW m \in ValidMacs
  PROVE  ChainVerdict(s, m) = Policy(m)
<1> DEFINE H == Hits(s, m)
<1> DEFINE first == CHOOSE k \in H : \A j \in H : k <= j
<1>1. /\ H \subseteq 1..Len(s) /\ DOMAIN s = 1..Len(s) /\ Len(s) \in Nat
      /\ \A k \in H : s[k].match \in {m, AnyMatch}
  BY DEF Hits
<1>2. H # {} => first \in H /\ \A j \in H : first <= j
  BY <1>1, LeastLine
<1>3. ASSUME NEW k \in H
      PROVE  \/ s[k].match = m /\ s[k] = MacRule(m, conf.mode)
             \/ k = Len(s) /\ Whitelist(conf.mode) /\ s[k] = DropAll
  BY <1>1 DEF Rendered
<1>4. DropAll.match # m /\ DropAll.target = "DROP" /\ DropAll.match = AnyMatch
  BY DEF DropAll, Rule
<1>5. conf.macs[m] > 0 <=> \E k \in H : s[k].match = m
  BY <1>1 DEF Rendered, Hits
<1> HIDE DEF H, first
<1>6. CASE conf.macs[m] > 0
  <2>1. PICK k \in H : s[k].match = m
    BY <1>5, <1>6
  <2>2. first \in H /\ first <= k
    BY <1>2, <2>1
  <2>3. s[first] = MacRule(m, conf.mode)
    <3>1. first # Len(s) \/ s[first] # DropAll
      <4> SUFFICES ASSUME first = Len(s), s[first] = DropAll PROVE FALSE
        OBVIOUS
      <4>1. k = Len(s)
        BY <1>1, <2>1, <2>2
      <4> QED BY <1>4, <2>1, <4>1
    <3> QED BY <1>3, <2>2, <3>1
  <2>4. ChainVerdict(s, m) = s[first].target
    BY <2>1 DEF ChainVerdict, H, first
  <2> QED BY <1>6, <2>3, <2>4 DEF Policy, MacRule, Rule
<1>7. CASE ~(conf.macs[m] > 0)
  <2>1. \A k \in H : k = Len(s) /\ Whitelist(conf.mode) /\ s[k] = DropAll
    BY <1>3, <1>5, <1>7
  <2>2. CASE Whitelist(conf.mode)
    <3>1. Len(s) \in H
      BY <1>1, <1>4, <2>2 DEF Rendered, Hits, H
    <3>2. s[first] = DropAll
      BY <1>2, <2>1, <3>1
    <3>3. ChainVerdict(s, m) = s[first].target
      BY <3>1 DEF ChainVerdict, H, first
    <3> QED BY <1>4, <1>7, <2>2, <3>2, <3>3 DEF Policy
  <2>3. CASE ~Whitelist(conf.mode)
    <3>1. H = {}
      BY <2>1, <2>3
    <3> QED BY <1>7, <2>3, <3>1 DEF Policy, ChainVerdict, H
  <2> QED BY <2>2, <2>3
<1> QED BY <1>6, <1>7

-----------------------------------------------------------------------------
\* One run at a time: every step keeps the inductive invariant.
LEMMA NextOK ==
  ASSUME SerialInv, Serialised, [Next]_vars
  PROVE  SerialInv'
<1>1. CASE UNCHANGED vars
  BY <1>1 DEF vars, SerialInv, TypeOK, OneRun, StepOK, HookingOK, HooksOK, HooksAlike,
              StatusSettled, Settled, Rendered, PartlyRendered, chain
<1>2. CASE Reboot
  BY <1>2, RebootOK
<1>3. ASSUME NEW p \in Procs, NEW r \in Requests, Call(p, r) PROVE SerialInv'
  BY <1>3, CallOK
<1>4. ASSUME NEW p \in Procs, Step(p) PROVE SerialInv'
  BY <1>4, GrepOK, SedReadOK, SedMoveOK, AppendLineOK, GetModeOK, ListChainOK, InitChainOK,
     FlushOK, ReadMacsOK, AddMacRuleOK, FinishOK, CheckJumpOK, InsertJumpOK, DeleteJumpOK
     DEF Step
<1> QED BY <1>1, <1>2, <1>3, <1>4 DEF Next, Run

\* The inductive invariant holds in every state when runs do not overlap.
THEOREM SerialInvariant == Serialised => (Spec => []SerialInv)
<1> SUFFICES ASSUME Serialised PROVE Spec => []SerialInv
  OBVIOUS
<1>1. Init => SerialInv
  BY InitOK
<1>2. SerialInv /\ [Next]_vars => SerialInv'
  BY NextOK
<1> QED BY <1>1, <1>2, PTL DEF Spec

\* However many addresses, and whatever calls and reboots came before: between
\* two runs of mac_filter.sh the chain decides exactly as the file asks.
THEOREM ChainCorrect == Serialised => (Spec => []ChainEnforcesConf)
<1> SUFFICES ASSUME Serialised PROVE Spec => []ChainEnforcesConf
  OBVIOUS
<1>1. SerialInv => ChainEnforcesConf
  <2> SUFFICES ASSUME SerialInv, Idle, CHAIN \in table.known, NEW m \in ValidMacs
               PROVE  ChainVerdict(table.rules[CHAIN], m) = Policy(m)
    BY DEF ChainEnforcesConf
  <2>1. Rendered(chain)
    BY DEF SerialInv, Idle, Settled
  <2>2. chain \in Seq(Rules)
    BY DEF SerialInv, TypeOK, chain, Chains
  <2> QED BY <2>1, <2>2, RenderedDecides DEF chain
<1> QED BY <1>1, SerialInvariant, PTL

\* Between two runs both built-in chains jump to MAC_FILTER at most once, both or
\* neither, and only while the status line says enable.
THEOREM HooksCorrect == Serialised => (Spec => []HooksFollowStatus)
<1> SUFFICES ASSUME Serialised PROVE Spec => []HooksFollowStatus
  OBVIOUS
<1>1. SerialInv => HooksFollowStatus
  BY DEF SerialInv, HooksFollowStatus, HooksOK, Idle, HooksAlike, StatusSettled, Builtins
<1> QED BY <1>1, SerialInvariant, PTL

-----------------------------------------------------------------------------
(* Overlapping runs of the script. *)

\* A run has the request it was started with.
RequestsOK == \A p \in Procs : pc[p] # "idle" => req[p] \in Requests

Reapplying == {"append", "getMode", "listChain", "newChain", "flush", "readMacs"}

\* The run p has still to add a rule for m, or to read the list.
Due(p, m) == pc[p] \in Reapplying \/ (pc[p] = "rules" /\ todo[p][m] > 0)

HasMacRule(m) == \E k \in DOMAIN chain : chain[k].match = m

\* A listed address has its rule, or a run that will see to it: a run takes rules
\* away only before it reads the list, and puts lines back only before it flushes.
CoverInv ==
  CHAIN \in table.known =>
    \A m \in ValidMacs : conf.macs[m] > 0 => HasMacRule(m) \/ \E p \in Procs : Due(p, m)

\* What the commands leave of a table, whatever it holds.
LEMMA CommandTypes ==
  ASSUME NEW t \in TableType, NEW c \in Chains, NEW r \in Rules
  PROVE  \A u \in {AppendRule(t, c, r), InsertRule(t, c, r), DeleteRule(t, c, r)} :
           /\ u \in TableType /\ u.known = t.known
           /\ \A b \in Chains : b # c => u.rules[b] = t.rules[b]
<1>1. t.rules[c] \in Seq(Rules)
  BY DEF TableType
<1>2. ASSUME NEW s \in Seq(Rules)
      PROVE  /\ [t EXCEPT !.rules[c] = s] \in TableType
             /\ [t EXCEPT !.rules[c] = s].known = t.known
             /\ \A b \in Chains : b # c => [t EXCEPT !.rules[c] = s].rules[b] = t.rules[b]
  BY DEF TableType
<1>3. Append(t.rules[c], r) \in Seq(Rules) /\ <<r>> \o t.rules[c] \in Seq(Rules)
  BY <1>1
<1>4. ASSUME NEW n \in 1..Len(t.rules[c])
      PROVE  RemoveAt(t.rules[c], n) \in Seq(Rules)
  <2>1. PICK s \in Seq(Rules) : s = t.rules[c]
    BY <1>1
  <2>2. /\ SubSeq(s, 1, n - 1) \in Seq(Rules)
        /\ SubSeq(s, n + 1, Len(s)) \in Seq(Rules)
    BY <2>1
  <2> QED BY <2>1, <2>2 DEF RemoveAt
<1>5. \A n : \/ DeleteLine(t, c, n) = t
             \/ \E s \in Seq(Rules) : DeleteLine(t, c, n) = [t EXCEPT !.rules[c] = s]
  BY <1>4 DEF DeleteLine, HasLine
<1>6. \A u \in {AppendRule(t, c, r), InsertRule(t, c, r), DeleteRule(t, c, r)} :
        u = t \/ \E s \in Seq(Rules) : u = [t EXCEPT !.rules[c] = s]
  BY <1>3, <1>5 DEF AppendRule, InsertRule, DeleteRule
<1> SUFFICES ASSUME NEW u, u = t \/ \E s \in Seq(Rules) : u = [t EXCEPT !.rules[c] = s]
             PROVE  /\ u \in TableType /\ u.known = t.known
                    /\ \A b \in Chains : b # c => u.rules[b] = t.rules[b]
  BY <1>6
<1>7. CASE \E s \in Seq(Rules) : u = [t EXCEPT !.rules[c] = s]
  BY <1>2, <1>7
<1> QED BY <1>7

\* NextBuiltin keeps the shell variables well typed, and ends no run half way.
LEMMA NextBuiltinType ==
  ASSUME TypeOK, RequestsOK, NEW p \in Procs, NEW l \in Labels, NextBuiltin(p, l)
  PROVE  /\ pc' \in [Procs -> Labels] /\ req' \in [Procs -> Requests \cup {NoRequest}]
         /\ mode' \in [Procs -> Seq(Modes)] /\ at' \in [Procs -> Builtins]
<1>1. CASE Exit(p)
  BY <1>1, ExitType
<1>2. CASE /\ at' = [at EXCEPT ![p] = "FORWARD"] /\ Goto(p, l) /\ UNCHANGED <<req, mode>>
  BY <1>2 DEF Goto, TypeOK, Builtins
<1> QED BY <1>1, <1>2 DEF NextBuiltin

\* A run that goes on keeps its request.
LEMMA RequestsStep ==
  ASSUME TypeOK, RequestsOK, [Next]_vars
  PROVE  RequestsOK'
<1>1. ASSUME NEW p \in Procs, NEW r \in Requests, Call(p, r) PROVE RequestsOK'
  BY <1>1 DEF Call, Goto, RequestsOK, TypeOK
<1>2. ASSUME NEW p \in Procs, pc[p] # "idle", NEW l, Goto(p, l), req' = req PROVE RequestsOK'
  BY <1>2 DEF Goto, RequestsOK, TypeOK
<1>3. ASSUME NEW p \in Procs, Exit(p) PROVE RequestsOK'
  BY <1>3 DEF Exit, RequestsOK, TypeOK
<1>4. CASE UNCHANGED <<pc, req>>
  BY <1>4 DEF RequestsOK
<1>5. ASSUME NEW p \in Procs, Step(p) PROVE RequestsOK'
  <2>1. CASE Grep(p) \/ CheckJump(p) \/ InsertJump(p) \/ DeleteJump(p)
    BY <1>2, <1>3, <2>1 DEF Grep, CheckJump, InsertJump, DeleteJump, NextBuiltin
  <2>2. CASE SedRead(p) \/ SedMove(p) \/ AppendLine(p) \/ GetMode(p) \/ ListChain(p)
    BY <1>2, <2>2 DEF SedRead, SedMove, AppendLine, GetMode, ListChain
  <2>3. CASE InitChain(p) \/ Flush(p) \/ ReadMacs(p)
    BY <1>2, <2>3 DEF InitChain, Flush, ReadMacs
  <2>4. CASE AddMacRule(p) \/ Finish(p)
    BY <1>3, <1>4, <2>4 DEF AddMacRule, Finish
  <2> QED BY <1>5, <2>1, <2>2, <2>3, <2>4 DEF Step
<1>6. CASE Reboot
  BY <1>6 DEF Reboot, RequestsOK
<1> QED BY <1>1, <1>4, <1>5, <1>6 DEF Next, Run, vars

\* Every command of every run keeps the types.
LEMMA TypeStep ==
  ASSUME TypeOK, RequestsOK, [Next]_vars
  PROVE  TypeOK'
<1>0. /\ table \in TableType /\ Builtins \subseteq table.known /\ conf \in Confs
      /\ CHAIN \in Chains /\ Builtins \subseteq Chains /\ Jump \in Rules /\ DropAll \in Rules
  BY DEF TypeOK, TableType, Chains, Jump, DropAll, Rule, Rules, Verdicts
<1>1. ASSUME NEW p \in Procs, NEW r \in Requests, Call(p, r) PROVE TypeOK'
  BY <1>1 DEF Call, Goto, files, TypeOK, Labels
<1>2. ASSUME NEW p \in Procs, Grep(p) PROVE TypeOK'
  <2>1. CASE Exit(p)
    BY <1>2, <2>1, ExitType DEF Grep, files, TypeOK
  <2>2. CASE \E l \in Labels : Goto(p, l) /\ UNCHANGED <<req, mode, at>>
    BY <1>2, <2>2 DEF Grep, Goto, files, TypeOK
  <2> QED BY <1>2, <2>1, <2>2 DEF Grep, Labels
<1>3. ASSUME NEW p \in Procs, SedRead(p) PROVE TypeOK'
  <2>1. WithoutLines(conf, req[p]) \in Confs
    BY <1>0, <1>3, WithoutLinesFacts DEF SedRead, RequestsOK
  <2> QED BY <1>3, <2>1 DEF SedRead, Goto, files, TypeOK, Labels
<1>4. ASSUME NEW p \in Procs, SedMove(p) PROVE TypeOK'
  <2>1. EmptyConf \in Confs
    BY DEF EmptyConf, Confs, NoMacs
  <2> QED BY <1>4, <2>1 DEF SedMove, Goto, TypeOK, Labels
<1>5. ASSUME NEW p \in Procs, AppendLine(p) PROVE TypeOK'
  <2>1. WithLine(conf, req[p]) \in Confs
    BY <1>0, <1>5, WithLineFacts DEF AppendLine, RequestsOK
  <2> QED BY <1>5, <2>1 DEF AppendLine, Goto, TypeOK, Labels
<1>6. ASSUME NEW p \in Procs, GetMode(p) PROVE TypeOK'
  <2>1. conf.mode \in Seq(Modes)
    BY <1>0 DEF Confs
  <2> QED BY <1>6, <2>1 DEF GetMode, Goto, files, TypeOK, Labels
<1>7. ASSUME NEW p \in Procs, ListChain(p) PROVE TypeOK'
  BY <1>7 DEF ListChain, Goto, files, TypeOK, Labels
<1>8. ASSUME NEW p \in Procs, InitChain(p) PROVE TypeOK'
  <2>1. table' \in TableType /\ table'.known = table.known \cup {CHAIN}
    BY <1>0, <1>8 DEF InitChain, NewChain, TableType
  <2> QED BY <1>8, <2>1 DEF InitChain, Goto, TypeOK, TableType, Labels
<1>9. ASSUME NEW p \in Procs, Flush(p) PROVE TypeOK'
  <2>1. table' \in TableType /\ table'.known = table.known
    BY <1>0, <1>9, DeleteFirstFacts DEF Flush, DeleteLine, HasLine
  <2> QED BY <1>9, <2>1 DEF Flush, Goto, TypeOK, TableType, Labels
<1>10. ASSUME NEW p \in Procs, ReadMacs(p) PROVE TypeOK'
  <2>1. conf.macs \in [Macs -> Nat]
    BY <1>0 DEF Confs
  <2> QED BY <1>10, <2>1 DEF ReadMacs, Goto, files, TypeOK, Labels
<1>11. ASSUME NEW p \in Procs, AddMacRule(p) PROVE TypeOK'
  <2>1. PICK m \in Macs :
          /\ todo[p][m] > 0
          /\ todo' = [todo EXCEPT ![p][m] = todo[p][m] - 1]
          /\ table' = IF m \in ValidMacs
                      THEN AppendRule(table, CHAIN, MacRule(m, mode[p])) ELSE table
    BY <1>11 DEF AddMacRule
  <2>2. MacRule(m, mode[p]) \in Rules
    BY DEF MacRule, Rule, Rules, Verdicts
  <2>3. table' \in TableType /\ table'.known = table.known
    BY <1>0, <2>1, <2>2, CommandTypes
  <2>4. todo[p] \in [Macs -> Nat] /\ todo[p][m] - 1 \in Nat
    BY <2>1 DEF TypeOK
  <2>5. todo' \in [Procs -> [Macs -> Nat]]
    BY <2>1, <2>4 DEF TypeOK
  <2> QED BY <1>11, <2>3, <2>5 DEF AddMacRule, TypeOK, TableType
<1>12. ASSUME NEW p \in Procs, Finish(p) PROVE TypeOK'
  <2>1. table' \in TableType /\ table'.known = table.known
    BY <1>0, <1>12, CommandTypes DEF Finish
  <2> QED BY <1>12, <2>1, ExitType DEF Finish, TypeOK, TableType
<1>13. ASSUME NEW p \in Procs, CheckJump(p) PROVE TypeOK'
  <2>1. CASE NextBuiltin(p, "check")
    <3>1. "check" \in Labels
      BY DEF Labels
    <3> QED BY <1>13, <2>1, <3>1, NextBuiltinType DEF CheckJump, files, TypeOK
  <2>2. CASE Goto(p, "insert") /\ UNCHANGED <<req, mode, at>>
    BY <1>13, <2>2 DEF CheckJump, Goto, files, TypeOK, Labels
  <2> QED BY <1>13, <2>1, <2>2 DEF CheckJump
<1>14. ASSUME NEW p \in Procs, InsertJump(p) \/ DeleteJump(p) PROVE TypeOK'
  <2>1. PICK b \in Chains : b = at[p]
    BY <1>0 DEF TypeOK
  <2>2. table' \in TableType /\ table'.known = table.known
    <3>1. table' \in {AppendRule(table, b, Jump), InsertRule(table, b, Jump),
                      DeleteRule(table, b, Jump)}
      BY <1>14, <2>1 DEF InsertJump, DeleteJump
    <3>2. b \in Chains /\ Jump \in Rules /\ table \in TableType
      BY <1>0
    <3> QED BY <3>1, <3>2, CommandTypes
  <2>3. PICK l \in Labels : NextBuiltin(p, l)
    BY <1>14 DEF InsertJump, DeleteJump, Labels
  <2>4. UNCHANGED <<conf, snap, todo>>
    BY <1>14 DEF InsertJump, DeleteJump
  <2> QED BY <2>2, <2>3, <2>4, NextBuiltinType DEF TypeOK, TableType
<1>15. CASE Reboot
  BY <1>15 DEF Reboot, TypeOK, EmptyConf, BootTable, EmptyTable, NoMacs, Confs, Labels,
               Builtins, Chains, Rules
<1>16. CASE UNCHANGED vars
  BY <1>16 DEF vars, TypeOK
<1>17. ASSUME NEW p \in Procs, Step(p) PROVE TypeOK'
  BY <1>2, <1>3, <1>4, <1>5, <1>6, <1>7, <1>8, <1>9, <1>10, <1>11, <1>12, <1>13, <1>14, <1>17
     DEF Step
<1> QED BY <1>1, <1>15, <1>16, <1>17 DEF Next, Run

\* mac_filter.sh: the lines of the file, the rules of the table and the variables of
\* every run keep their types, however many runs overlap.
THEOREM TypeCorrect == Spec => []TypeOK
<1>1. Init => TypeOK /\ RequestsOK
  BY InitOK DEF SerialInv, Init, RequestsOK
<1>2. TypeOK /\ RequestsOK /\ [Next]_vars => TypeOK' /\ RequestsOK'
  BY TypeStep, RequestsStep
<1> QED BY <1>1, <1>2, PTL DEF Spec

\* A run that is not about the status of the filter, and its request.
EditsOnly == \A p \in Procs : req[p].op # "status"

\* Without calls of enable and disable no run has such a request.
LEMMA EditsStep ==
  ASSUME "status" \notin Ops, EditsOnly, TypeOK, [Next]_vars
  PROVE  EditsOnly'
<1>1. NoRequest.op # "status" /\ \A r \in Requests : r.op # "status"
  BY DEF NoRequest, Requests
<1>2. \/ req' = req
      \/ req' = [p \in Procs |-> NoRequest]
      \/ \E p \in Procs, r \in Requests \cup {NoRequest} : req' = [req EXCEPT ![p] = r]
  <2>1. ASSUME NEW p \in Procs, Step(p)
        PROVE  req' = req \/ req' = [req EXCEPT ![p] = NoRequest]
    BY <2>1 DEF Step, Grep, SedRead, SedMove, AppendLine, GetMode, ListChain, InitChain, Flush,
                ReadMacs, AddMacRule, Finish, CheckJump, InsertJump, DeleteJump, NextBuiltin, Exit
  <2>2. ASSUME NEW p \in Procs, NEW r \in Requests, Call(p, r)
        PROVE  req' = [req EXCEPT ![p] = r]
    BY <2>2 DEF Call
  <2>3. CASE Reboot \/ UNCHANGED vars
    BY <2>3 DEF Reboot, vars
  <2> QED BY <2>1, <2>2, <2>3 DEF Next, Run
<1> QED BY <1>1, <1>2 DEF EditsOnly, TypeOK

\* A step that changes neither the list nor the chain keeps the invariant when it
\* leaves every run that has still to see to an address in charge of it.
LEMMA QuietStep ==
  ASSUME CoverInv, conf'.macs = conf.macs, table' = table,
         \A q \in Procs : \A m \in ValidMacs : Due(q, m) => Due(q, m)'
  PROVE  CoverInv'
<1> SUFFICES ASSUME CHAIN \in table.known, NEW m \in ValidMacs, conf.macs[m] > 0
             PROVE  HasMacRule(m)' \/ \E q \in Procs : Due(q, m)'
  BY DEF CoverInv
<1>1. CASE HasMacRule(m)
  BY <1>1 DEF HasMacRule, chain
<1>2. CASE \E q \in Procs : Due(q, m)
  BY <1>2
<1> QED BY <1>1, <1>2 DEF CoverInv

\* A run that is about to read the list answers for every address.
LEMMA SomebodyWill ==
  ASSUME NEW p \in Procs, pc'[p] \in Reapplying
  PROVE  CoverInv'
BY DEF CoverInv, Due

\* Every step keeps the invariant.
LEMMA CoverStep ==
  ASSUME CoverInv, TypeOK, RequestsOK, EditsOnly, [Next]_vars
  PROVE  CoverInv'
<1>1. ASSUME NEW p \in Procs, NEW r \in Requests, Call(p, r) PROVE CoverInv'
  <2>1. \A q \in Procs : \A m \in ValidMacs : Due(q, m) => Due(q, m)'
    BY <1>1 DEF Call, Goto, files, TypeOK, Due, Reapplying
  <2> QED BY <1>1, <2>1, QuietStep DEF Call, files
<1>2. ASSUME NEW p \in Procs, Grep(p) \/ SedRead(p) \/ CheckJump(p) PROVE CoverInv'
  <2>1. \A q \in Procs : \A m \in ValidMacs : Due(q, m) => Due(q, m)'
    BY <1>2 DEF Grep, SedRead, CheckJump, NextBuiltin, Exit, Goto, files, TypeOK, Due, Reapplying
  <2> QED BY <1>2, <2>1, QuietStep DEF Grep, SedRead, CheckJump, files
<1>3. ASSUME NEW p \in Procs, SedMove(p) \/ AppendLine(p) \/ GetMode(p) \/ ListChain(p)
      PROVE  CoverInv'
  <2>1. pc'[p] \in Reapplying
    BY <1>3 DEF SedMove, AppendLine, GetMode, ListChain, Goto, TypeOK, Reapplying, EditsOnly
  <2> QED BY <2>1, SomebodyWill
<1>4. ASSUME NEW p \in Procs, InitChain(p) \/ Flush(p) PROVE CoverInv'
  <2>1. pc'[p] \in Reapplying
    BY <1>4 DEF InitChain, Flush, Goto, TypeOK, Reapplying
  <2> QED BY <2>1, SomebodyWill
<1>5. ASSUME NEW p \in Procs, ReadMacs(p) PROVE CoverInv'
  <2>1. conf' = conf /\ pc'[p] = "rules" /\ todo'[p] = conf.macs
    BY <1>5 DEF ReadMacs, Goto, files, TypeOK
  <2> QED BY <2>1 DEF CoverInv, Due
<1>6. ASSUME NEW p \in Procs, AddMacRule(p) PROVE CoverInv'
  <2>1. PICK n \in Macs :
          /\ todo' = [todo EXCEPT ![p][n] = todo[p][n] - 1]
          /\ table' = IF n \in ValidMacs
                      THEN AppendRule(table, CHAIN, MacRule(n, mode[p])) ELSE table
    BY <1>6 DEF AddMacRule
  <2>2. conf' = conf /\ pc' = pc
    BY <1>6 DEF AddMacRule
  <2>3. \A q \in Procs : \A m \in ValidMacs : m # n => (Due(q, m) => Due(q, m)')
    BY <2>1, <2>2 DEF Due, TypeOK
  <2>4. CASE n \notin ValidMacs \/ CHAIN \notin table.known
    <3>1. table' = table
      BY <2>1, <2>4 DEF AppendRule
    <3>2. CASE n \notin ValidMacs
      BY <2>2, <2>3, <3>1, <3>2, QuietStep
    <3>3. CASE CHAIN \notin table.known
      BY <3>1, <3>3 DEF CoverInv
    <3> QED BY <2>4, <3>2, <3>3
  <2>5. CASE n \in ValidMacs /\ CHAIN \in table.known
    <3>1. PICK r \in Rules : r = MacRule(n, mode[p])
      <4>1. MacRule(n, mode[p]) \in Rules
        BY DEF MacRule, Rule, Rules, Verdicts
      <4> QED BY <4>1
    <3>2. r.match = n /\ r.target \in Verdicts
      BY <3>1 DEF MacRule, Rule, Verdicts
    <3>3. table \in TableType /\ chain \in Seq(Rules)
      BY DEF TypeOK, TableType, chain, Chains
    <3>4. table'.known = table.known /\ chain' = Append(chain, r)
      BY <2>1, <2>5, <3>1, <3>2, <3>3, AppendRuleFacts DEF chain
    <3>5. /\ HasMacRule(n)'
          /\ \A m : HasMacRule(m) => HasMacRule(m)'
      <4>1. /\ DOMAIN chain = 1..Len(chain) /\ Len(chain) \in Nat
            /\ DOMAIN chain' = 1..(Len(chain) + 1)
            /\ chain'[Len(chain) + 1] = r
            /\ \A k \in 1..Len(chain) : chain'[k] = chain[k]
        BY <3>3, <3>4
      <4> QED BY <3>2, <4>1 DEF HasMacRule
    <3> SUFFICES ASSUME NEW m \in ValidMacs, conf.macs[m] > 0
                 PROVE  HasMacRule(m)' \/ \E q \in Procs : Due(q, m)'
      BY <2>2 DEF CoverInv
    <3>6. HasMacRule(m) \/ \E q \in Procs : Due(q, m)
      BY <2>5 DEF CoverInv
    <3> QED BY <2>3, <3>5, <3>6
  <2> QED BY <2>4, <2>5
<1>7. ASSUME NEW p \in Procs, Finish(p) PROVE CoverInv'
  <2>1. /\ conf' = conf /\ todo' = todo /\ todo[p] = NoMacs /\ pc[p] = "rules"
        /\ pc' = [pc EXCEPT ![p] = "idle"]
    BY <1>7 DEF Finish, Exit
  <2>2. \A q \in Procs : \A m \in ValidMacs : Due(q, m) => Due(q, m)'
    <3>1. \A m \in ValidMacs : ~Due(p, m)
      BY <2>1 DEF Due, NoMacs, Reapplying
    <3>2. \A q \in Procs : q # p => pc'[q] = pc[q]
      BY <2>1 DEF TypeOK
    <3> QED BY <2>1, <3>1, <3>2 DEF Due
  <2>3. CASE table' = table
    BY <2>1, <2>2, <2>3, QuietStep
  <2>4. CASE table' = AppendRule(table, CHAIN, DropAll) /\ CHAIN \in table.known
    <3>1. table \in TableType /\ chain \in Seq(Rules)
      BY DEF TypeOK, TableType, chain, Chains
    <3>2. DropAll \in Rules /\ DropAll.target \in Verdicts
      BY DEF DropAll, Rule, Rules, Verdicts
    <3>3. table'.known = table.known /\ chain' = Append(chain, DropAll)
      BY <2>4, <3>1, <3>2, AppendRuleFacts DEF chain
    <3>4. \A m : HasMacRule(m) => HasMacRule(m)'
      BY <3>1, <3>2, <3>3 DEF HasMacRule
    <3> SUFFICES ASSUME NEW m \in ValidMacs, conf.macs[m] > 0
                 PROVE  HasMacRule(m)' \/ \E q \in Procs : Due(q, m)'
      BY <2>1 DEF CoverInv
    <3>5. HasMacRule(m) \/ \E q \in Procs : Due(q, m)
      BY <2>4 DEF CoverInv
    <3> QED BY <2>2, <3>4, <3>5
  <2> QED BY <1>7, <2>3, <2>4 DEF Finish, AppendRule
<1>8. ASSUME NEW p \in Procs, InsertJump(p) \/ DeleteJump(p) PROVE CoverInv'
  <2>1. PICK b \in Builtins : b = at[p]
    BY DEF TypeOK
  <2>2. table'.known = table.known /\ chain' = chain
    <3>1. table' \in {AppendRule(table, b, Jump), InsertRule(table, b, Jump),
                      DeleteRule(table, b, Jump)}
      BY <1>8, <2>1 DEF InsertJump, DeleteJump
    <3>2. b \in Chains /\ CHAIN \in Chains /\ b # CHAIN /\ Jump \in Rules /\ table \in TableType
      BY DEF Chains, Builtins, CHAIN, Jump, Rule, Rules, TypeOK, TableType
    <3> QED BY <3>1, <3>2, CommandTypes DEF chain
  <2>3. \A q \in Procs : \A m \in ValidMacs : Due(q, m) => Due(q, m)'
    BY <1>8 DEF InsertJump, DeleteJump, NextBuiltin, Exit, Goto, TypeOK, Due, Reapplying
  <2>4. conf' = conf
    BY <1>8 DEF InsertJump, DeleteJump
  <2> QED BY <2>2, <2>3, <2>4 DEF CoverInv, HasMacRule
<1>9. CASE Reboot
  BY <1>9 DEF Reboot, CoverInv, BootTable, EmptyTable, Builtins, CHAIN
<1>10. CASE UNCHANGED vars
  BY <1>10, QuietStep DEF vars, Due
<1>11. ASSUME NEW p \in Procs, Step(p) PROVE CoverInv'
  BY <1>2, <1>3, <1>4, <1>5, <1>6, <1>7, <1>8, <1>11 DEF Step
<1> QED BY <1>1, <1>9, <1>10, <1>11 DEF Next, Run

\* apply_rules, for any number of overlapping add, delete and mode calls and any
\* reboots: once they are over, every listed address has a rule.  A status call
\* is left out because set_status installs its copy of the file and applies nothing.
THEOREM RacingCovered == "status" \notin Ops => (Spec => []ListedMacsCovered)
<1> SUFFICES ASSUME "status" \notin Ops PROVE Spec => []ListedMacsCovered
  OBVIOUS
<1>1. Init => TypeOK /\ RequestsOK /\ EditsOnly /\ CoverInv
  <2> SUFFICES ASSUME Init PROVE TypeOK /\ RequestsOK /\ EditsOnly /\ CoverInv
    OBVIOUS
  <2>1. TypeOK /\ RequestsOK
    BY InitOK DEF SerialInv, Init, RequestsOK
  <2>2. EditsOnly
    BY DEF Init, EditsOnly, NoRequest
  <2>3. CoverInv
    BY DEF Init, CoverInv, BootTable, EmptyTable, Builtins, CHAIN
  <2> QED BY <2>1, <2>2, <2>3
<1>2. TypeOK /\ RequestsOK /\ EditsOnly /\ CoverInv /\ [Next]_vars
        => TypeOK' /\ RequestsOK' /\ EditsOnly' /\ CoverInv'
  BY TypeStep, RequestsStep, EditsStep, CoverStep
<1>3. CoverInv => ListedMacsCovered
  BY DEF CoverInv, ListedMacsCovered, Idle, Due, Reapplying, HasMacRule, chain
<1> QED BY <1>1, <1>2, <1>3, PTL DEF Spec
=============================================================================
