----------------------------- MODULE MacFilter ------------------------------
(***************************************************************************)
(* mac_filter.sh: the MAC allow/deny list of the firewall.                 *)
(*                                                                         *)
(* The configuration /etc/mac-filter.conf survives a reboot; the iptables  *)
(* chain MAC_FILTER and the jumps to it do not, and no boot script puts    *)
(* them back (bmcfirewall.init of the package is empty).  Every run of the *)
(* script is a process that walks through the commands of one operation.   *)
(* One step is one command: an iptables call, an append to the file, or    *)
(* half of a "sed -i", which reads the file and later renames its edited   *)
(* copy over it.                                                           *)
(*                                                                         *)
(* The file is modelled by its lines: the mode and status lines in order,  *)
(* and how many lines each MAC address has.  The order of the maclist      *)
(* lines is left open.                                                     *)
(***************************************************************************)
EXTENDS Iptables

CONSTANTS
  Procs,        \* runs of the script that can be alive at the same time
  Macs,         \* the addresses given to add and delete
  ValidMacs,    \* those that iptables accepts after --mac-source
  Ops,          \* the operations that are called
  Serialised    \* TRUE: nobody starts the script while it is running

ASSUME MacFilterAssumption ==
  /\ ValidMacs \subseteq Macs
  /\ AnyMatch \notin Macs
  /\ Serialised \in BOOLEAN

VARIABLES
  conf,         \* /etc/mac-filter.conf
  table,        \* the filter table of the kernel
  pc,           \* the command every process executes next
  req,          \* what it was called with
  snap,         \* the edited copy of the file its "sed -i" will install
  mode,         \* the shell variable $mode of apply_rules
  todo,         \* the lines of get_maclist its while loop has not read yet
  at            \* the built-in chain enable_chain or disable_chain is at

files == <<conf, table>>
vars == <<conf, table, pc, req, snap, mode, todo, at>>

Modes == {"whitelist", "blacklist"}
Statuses == {"enable", "disable"}
Builtins == {"INPUT", "FORWARD"}
CHAIN == "MAC_FILTER"
Chains == Builtins \cup {CHAIN}
Jump == Rule(AnyMatch, CHAIN)
DropAll == Rule(AnyMatch, "DROP")
NoMacs == [m \in Macs |-> 0]
EmptyConf == [mode |-> <<>>, status |-> <<>>, macs |-> NoMacs]
BootTable == EmptyTable(Builtins, Chains)

\* A request: the operation of the command line and its argument.
Requests ==
  {r \in [op : {"mode"}, arg : Modes] \cup [op : {"status"}, arg : Statuses]
         \cup [op : {"add", "delete"}, arg : Macs] : r.op \in Ops}
NoRequest == [op |-> "none", arg |-> "none"]

Confs == [mode : Seq(Modes), status : Seq(Statuses), macs : [Macs -> Nat]]

Rules == [match : Macs \cup {AnyMatch}, target : Verdicts \cup {CHAIN}]

Labels ==
  {"idle", "grep", "sedRead", "sedMove", "append", "getMode", "listChain",
   "newChain", "flush", "readMacs", "rules", "check", "insert", "unhook"}

TypeOK ==
  /\ conf \in Confs
  /\ table \in [known : SUBSET Chains, rules : [Chains -> Seq(Rules)]]
  /\ Builtins \subseteq table.known
  /\ pc \in [Procs -> Labels]
  /\ req \in [Procs -> Requests \cup {NoRequest}]
  /\ snap \in [Procs -> Confs]
  /\ mode \in [Procs -> Seq(Modes)]
  /\ todo \in [Procs -> [Macs -> Nat]]
  /\ at \in [Procs -> Builtins]

Init ==
  /\ conf = EmptyConf
  /\ table = BootTable
  /\ pc = [p \in Procs |-> "idle"]
  /\ req = [p \in Procs |-> NoRequest]
  /\ snap = [p \in Procs |-> EmptyConf]
  /\ mode = [p \in Procs |-> <<>>]
  /\ todo = [p \in Procs |-> NoMacs]
  /\ at = [p \in Procs |-> "INPUT"]

-----------------------------------------------------------------------------
Goto(p, label) == pc' = [pc EXCEPT ![p] = label]

\* The script ends and its shell variables are gone.
Exit(p) ==
  /\ pc' = [pc EXCEPT ![p] = "idle"]
  /\ req' = [req EXCEPT ![p] = NoRequest]
  /\ mode' = [mode EXCEPT ![p] = <<>>]
  /\ at' = [at EXCEPT ![p] = "INPUT"]

\* The command line: set_mode and set_status first edit the file, add_mac and
\* delete_mac first look for the address in it.
Call(p, r) ==
  /\ pc[p] = "idle"
  /\ Serialised => \A q \in Procs : pc[q] = "idle"
  /\ req' = [req EXCEPT ![p] = r]
  /\ Goto(p, IF r.op \in {"mode", "status"} THEN "sedRead" ELSE "grep")
  /\ UNCHANGED <<files, snap, mode, todo, at>>

\* add_mac ends when the line is there, delete_mac when it is not.
Grep(p) ==
  /\ pc[p] = "grep"
  /\ IF conf.macs[req[p].arg] > 0 <=> req[p].op = "delete"
     THEN /\ Goto(p, IF req[p].op = "delete" THEN "sedRead" ELSE "append")
          /\ UNCHANGED <<req, mode, at>>
     ELSE Exit(p)
  /\ UNCHANGED <<files, snap, todo>>

\* What the file holds once sed has deleted the lines of the request.
WithoutLines(c, r) ==
  [mode   |-> IF r.op = "mode" THEN <<>> ELSE c.mode,
   status |-> IF r.op = "status" THEN <<>> ELSE c.status,
   macs   |-> IF r.op = "delete" THEN [c.macs EXCEPT ![r.arg] = 0] ELSE c.macs]

\* sed -i reads the file and writes the edited copy beside it ...
SedRead(p) ==
  /\ pc[p] = "sedRead"
  /\ snap' = [snap EXCEPT ![p] = WithoutLines(conf, req[p])]
  /\ Goto(p, "sedMove")
  /\ UNCHANGED <<files, req, mode, todo, at>>

\* ... and renames it over the file, whatever was written in between.
SedMove(p) ==
  /\ pc[p] = "sedMove"
  /\ conf' = snap[p]
  /\ snap' = [snap EXCEPT ![p] = EmptyConf]
  /\ Goto(p, IF req[p].op = "delete" THEN "getMode" ELSE "append")
  /\ UNCHANGED <<table, req, mode, todo, at>>

\* echo "key=value" >> "$CONF_FILE"; the mutated form writes the status under
\* the key of the mode.
WithLineMisplaced(c, r) ==
  [mode   |-> IF r.op \in {"mode", "status"} THEN Append(c.mode, r.arg) ELSE c.mode,
   status |-> c.status,
   macs   |-> IF r.op = "add" THEN [c.macs EXCEPT ![r.arg] = @ + 1] ELSE c.macs]

WithLine(c, r) ==
  [mode   |-> IF r.op = "mode" THEN Append(c.mode, r.arg) ELSE c.mode,
   status |-> IF r.op = "status" THEN Append(c.status, r.arg) ELSE c.status,
   macs   |-> IF r.op = "add" THEN [c.macs EXCEPT ![r.arg] = @ + 1] ELSE c.macs]

AppendLine(p) ==
  /\ pc[p] = "append"
  /\ conf' = WithLine(conf, req[p])
  /\ Goto(p, IF req[p].op # "status" THEN "getMode"
             ELSE IF req[p].arg = "enable" THEN "check" ELSE "unhook")
  /\ UNCHANGED <<table, req, snap, mode, todo, at>>

-----------------------------------------------------------------------------
(* apply_rules: mode, init_chain, flush_chain, one rule per address.  The  *)
(* mutated form of its beginning leaves the work to a run that is at it.   *)

GetModeUnlessBusy(p) ==
  /\ pc[p] = "getMode"
  /\ IF \E q \in Procs : pc[q] \in {"listChain", "newChain", "flush", "readMacs", "rules"}
     THEN Exit(p)
     ELSE /\ mode' = [mode EXCEPT ![p] = conf.mode]
          /\ Goto(p, "listChain")
          /\ UNCHANGED <<req, at>>
  /\ UNCHANGED <<files, snap, todo>>

GetMode(p) ==
  /\ pc[p] = "getMode"
  /\ mode' = [mode EXCEPT ![p] = conf.mode]
  /\ Goto(p, "listChain")
  /\ UNCHANGED <<files, req, snap, todo, at>>

\* iptables -L "$CHAIN" || iptables -N "$CHAIN"
ListChain(p) ==
  /\ pc[p] = "listChain"
  /\ Goto(p, IF CHAIN \in table.known THEN "flush" ELSE "newChain")
  /\ UNCHANGED <<files, req, snap, mode, todo, at>>

InitChain(p) ==
  /\ pc[p] = "newChain"
  /\ table' = NewChain(table, CHAIN)
  /\ Goto(p, "flush")
  /\ UNCHANGED <<conf, req, snap, mode, todo, at>>

\* while iptables -D "$CHAIN" 1: one rule a step, until the command fails.
\* Its mutated form tests for the chain instead of the rule.
FlushWhileListed(p) ==
  /\ pc[p] = "flush"
  /\ CHAIN \in table.known
  /\ table' = DeleteLine(table, CHAIN, 1)
  /\ UNCHANGED <<conf, pc, req, snap, mode, todo, at>>

Flush(p) ==
  /\ pc[p] = "flush"
  /\ table' = DeleteLine(table, CHAIN, 1)
  /\ Goto(p, IF HasLine(table, CHAIN, 1) THEN "flush" ELSE "readMacs")
  /\ UNCHANGED <<conf, req, snap, mode, todo, at>>

\* get_maclist reads the file once, when the pipeline starts.
ReadMacs(p) ==
  /\ pc[p] = "readMacs"
  /\ todo' = [todo EXCEPT ![p] = conf.macs]
  /\ Goto(p, "rules")
  /\ UNCHANGED <<files, req, snap, mode, at>>

\* $mode is the text of every mode line: two lines are not "whitelist".
Whitelist(lines) == lines = <<"whitelist">>

MacRule(m, lines) == Rule(m, IF Whitelist(lines) THEN "ACCEPT" ELSE "DROP")

\* iptables -A "$CHAIN" -m mac --mac-source "$mac"; iptables refuses an
\* argument that is not a MAC address, and the loop goes on.
AddMacRule(p) ==
  /\ pc[p] = "rules"
  /\ \E m \in Macs :
       /\ todo[p][m] > 0
       /\ todo' = [todo EXCEPT ![p][m] = @ - 1]
       /\ table' = IF m \in ValidMacs
                   THEN AppendRule(table, CHAIN, MacRule(m, mode[p])) ELSE table
  /\ UNCHANGED <<conf, pc, req, snap, mode, at>>

\* [ "$mode" = "whitelist" ] && iptables -A "$CHAIN" -j DROP
\* Its mutated form puts the rule first.
FinishAtHead(p) ==
  /\ pc[p] = "rules"
  /\ todo[p] = NoMacs
  /\ table' = IF Whitelist(mode[p]) THEN InsertRule(table, CHAIN, DropAll) ELSE table
  /\ Exit(p)
  /\ UNCHANGED <<conf, snap, todo>>

Finish(p) ==
  /\ pc[p] = "rules"
  /\ todo[p] = NoMacs
  /\ table' = IF Whitelist(mode[p]) THEN AppendRule(table, CHAIN, DropAll) ELSE table
  /\ Exit(p)
  /\ UNCHANGED <<conf, snap, todo>>

-----------------------------------------------------------------------------
(* enable_chain and disable_chain: INPUT first, then FORWARD.              *)

NextBuiltin(p, label) ==
  IF at[p] = "INPUT"
  THEN /\ at' = [at EXCEPT ![p] = "FORWARD"]
       /\ Goto(p, label)
       /\ UNCHANGED <<req, mode>>
  ELSE Exit(p)

\* iptables -C INPUT -j "$CHAIN" || ...; the mutated form never asks.
CheckNothing(p) ==
  /\ pc[p] = "check"
  /\ Goto(p, "insert")
  /\ UNCHANGED <<files, req, snap, mode, todo, at>>

CheckJump(p) ==
  /\ pc[p] = "check"
  /\ IF HasRule(table, at[p], Jump)
     THEN NextBuiltin(p, "check")
     ELSE Goto(p, "insert") /\ UNCHANGED <<req, mode, at>>
  /\ UNCHANGED <<files, snap, todo>>

\* ... iptables -I INPUT -j "$CHAIN", which fails when the chain is absent.
InsertJump(p) ==
  /\ pc[p] = "insert"
  /\ table' = InsertRule(table, at[p], Jump)
  /\ NextBuiltin(p, "check")
  /\ UNCHANGED <<conf, snap, todo>>

\* iptables -D INPUT -j "$CHAIN" 2>/dev/null
DeleteJump(p) ==
  /\ pc[p] = "unhook"
  /\ table' = DeleteRule(table, at[p], Jump)
  /\ NextBuiltin(p, "unhook")
  /\ UNCHANGED <<conf, snap, todo>>

-----------------------------------------------------------------------------
\* Power loss: the kernel's table is gone, the file stays, nothing is re-applied.
Reboot ==
  /\ table' = BootTable
  /\ pc' = [p \in Procs |-> "idle"]
  /\ req' = [p \in Procs |-> NoRequest]
  /\ snap' = [p \in Procs |-> EmptyConf]
  /\ mode' = [p \in Procs |-> <<>>]
  /\ todo' = [p \in Procs |-> NoMacs]
  /\ at' = [p \in Procs |-> "INPUT"]
  /\ UNCHANGED conf

Step(p) ==
  \/ Grep(p) \/ SedRead(p) \/ SedMove(p) \/ AppendLine(p)
  \/ GetMode(p) \/ ListChain(p) \/ InitChain(p) \/ Flush(p) \/ ReadMacs(p)
  \/ AddMacRule(p) \/ Finish(p)
  \/ CheckJump(p) \/ InsertJump(p) \/ DeleteJump(p)

Run == \E p \in Procs : Step(p) \/ \E r \in Requests : Call(p, r)

Next == Run \/ Reboot

Spec == Init /\ [][Next]_vars

\* A started script keeps running: the shell executes its next command.
FairSpec == Spec /\ \A p \in Procs : WF_vars(Step(p))

-----------------------------------------------------------------------------
Idle == \A p \in Procs : pc[p] = "idle"

\* What the file asks for an address: allow only the listed ones, or deny them.
Policy(m) ==
  IF Whitelist(conf.mode)
  THEN IF conf.macs[m] > 0 THEN "ACCEPT" ELSE "DROP"
  ELSE IF conf.macs[m] > 0 THEN "DROP" ELSE "RETURN"

\* When no run is under way and the chain exists, the chain gives every
\* address the verdict the file asks for: apply_rules reads the mode before it
\* flushes, rebuilds the list and ends with the catch-all DROP.
ChainEnforcesConf ==
  Idle /\ CHAIN \in table.known =>
    \A m \in ValidMacs : ChainVerdict(table.rules[CHAIN], m) = Policy(m)

\* enable_chain and disable_chain keep INPUT and FORWARD alike, never hook the
\* chain twice (disable deletes one jump only), and leave no jump behind when
\* the status line says disable.
HooksFollowStatus ==
  Idle => /\ table.rules["INPUT"] = table.rules["FORWARD"]
          /\ table.rules["INPUT"] \in {<<>>, <<Jump>>}
          /\ table.rules["INPUT"] # <<>> => conf.status = <<"enable">>

\* However add, delete and mode calls overlap, once they are over every listed
\* address has a rule: the run that flushed last read the list after its flush.
ListedMacsCovered ==
  Idle /\ CHAIN \in table.known =>
    \A m \in ValidMacs : conf.macs[m] > 0 =>
      \E k \in DOMAIN table.rules[CHAIN] : table.rules[CHAIN][k].match = m

\* "MAC filter enabled" (the reply of enable, and the status info prints):
\* the chain is consulted for packets to and through the router.
EnabledMeansHooked ==
  Idle /\ conf.status = <<"enable">> =>
    \A b \in Builtins : HasRule(table, b, Jump)

\* Every run of the script ends, its flush loop included.
RunsEnd == \A p \in Procs : pc[p] # "idle" ~> pc[p] = "idle"

-----------------------------------------------------------------------------
(* The inductive invariant of one run at a time (proved in MacFilterProofs). *)

chain == table.rules[CHAIN]

\* The rules s are what apply_rules makes of the file.
Rendered(s) ==
  /\ \A k \in DOMAIN s :
       \/ s[k].match \in ValidMacs /\ s[k] = MacRule(s[k].match, conf.mode)
       \/ k = Len(s) /\ Whitelist(conf.mode) /\ s[k] = DropAll
  /\ \A m \in ValidMacs : conf.macs[m] > 0 <=> \E k \in DOMAIN s : s[k].match = m
  /\ Whitelist(conf.mode) => Len(s) > 0 /\ s[Len(s)] = DropAll

\* The loop of apply_rules has made the rules s and still has the lines left.
PartlyRendered(s, left) ==
  /\ \A k \in DOMAIN s :
       s[k].match \in ValidMacs /\ s[k] = MacRule(s[k].match, conf.mode)
  /\ \A m \in ValidMacs :
       conf.macs[m] > 0 <=> left[m] > 0 \/ \E k \in DOMAIN s : s[k].match = m

\* The file and the chain agree: nothing was edited, or it was re-applied.
Settled(p) ==
  \/ pc[p] \in {"idle", "grep", "sedRead", "sedMove", "check", "insert", "unhook"}
  \/ pc[p] = "append" /\ req[p].op # "mode"

OneRun == \A p, q \in Procs : pc[p] # "idle" /\ pc[q] # "idle" => p = q

StepOK(p) ==
  /\ pc[p] = "idle" => req[p] = NoRequest
  /\ pc[p] # "idle" => req[p] \in Requests
  /\ pc[p] = "grep" => req[p].op \in {"add", "delete"}
  /\ pc[p] \in {"sedRead", "sedMove"} => req[p].op # "add"
  /\ pc[p] = "sedMove" => snap[p] = WithoutLines(conf, req[p])
  /\ pc[p] = "append" => req[p].op # "delete" /\ (req[p].op = "status" => conf.status = <<>>)
  /\ pc[p] \in {"getMode", "listChain", "newChain", "flush", "readMacs", "rules"} =>
       req[p].op # "status"
  /\ pc[p] \in {"listChain", "newChain", "flush", "readMacs", "rules"} => mode[p] = conf.mode
  /\ pc[p] \in {"flush", "readMacs", "rules"} => CHAIN \in table.known
  /\ pc[p] = "readMacs" => chain = <<>>
  /\ pc[p] = "rules" => PartlyRendered(chain, todo[p])
  /\ pc[p] \notin {"check", "insert", "unhook"} => at[p] = "INPUT"
  /\ pc[p] \in {"check", "insert"} => conf.status = <<"enable">>

HookingOK(p) ==
  /\ pc[p] = "insert" => table.rules[at[p]] = <<>>
  /\ pc[p] \in {"check", "insert"} /\ at[p] = "FORWARD" =>
       table.rules["INPUT"] = IF CHAIN \in table.known THEN <<Jump>> ELSE <<>>
  /\ pc[p] = "unhook" /\ at[p] = "FORWARD" => table.rules["INPUT"] = <<>>

HooksAlike(p) == pc[p] \notin {"check", "insert", "unhook"} \/ at[p] = "INPUT"
StatusSettled(p) == pc[p] # "unhook" /\ ~(pc[p] = "append" /\ req[p].op = "status")

HooksOK ==
  /\ \A b \in Builtins : /\ table.rules[b] \in {<<>>, <<Jump>>}
                         /\ table.rules[b] # <<>> => CHAIN \in table.known
  /\ (\A p \in Procs : HooksAlike(p)) => table.rules["INPUT"] = table.rules["FORWARD"]
  /\ (\A p \in Procs : StatusSettled(p)) /\ table.rules["INPUT"] # <<>> =>
       conf.status = <<"enable">>

SerialInv ==
  /\ TypeOK
  /\ OneRun
  /\ \A p \in Procs : StepOK(p) /\ HookingOK(p)
  /\ HooksOK
  /\ CHAIN \in table.known /\ (\A p \in Procs : Settled(p)) => Rendered(chain)
=============================================================================
