----------------------------- MODULE DosPolicy ------------------------------
(***************************************************************************)
(* ddos_protect.sh: the chain FW_DOS_POLICY in front of the INPUT chain.   *)
(*                                                                         *)
(* enable makes the chain, hooks it unless it is hooked, and appends the   *)
(* whole policy every time it is called; disable takes the hook and the    *)
(* chain away.  No command's failure is looked at.  Runs of the script are *)
(* processes, one iptables command a step.                                 *)
(*                                                                         *)
(* The policy has three rules for each kind of flood (let the packets      *)
(* under the limit return, log, drop the others) and three for SSH.        *)
(***************************************************************************)
EXTENDS Iptables

CONSTANTS
  Procs,        \* runs of the script that can be alive at the same time
  Floods,       \* the kinds of flood, in the order of the script
  Ops,          \* the commands that are called
  Serialised    \* TRUE: nobody starts the script while it is running

ASSUME DosAssumption ==
  /\ Floods \in Seq(STRING)
  /\ \A i, j \in DOMAIN Floods : Floods[i] = Floods[j] => i = j
  /\ \A i \in DOMAIN Floods : Floods[i] # "ssh"
  /\ Serialised \in BOOLEAN

VARIABLES
  table,        \* the filter table of the kernel
  pc,           \* the command every process executes next
  line          \* how many rules of the policy it has appended

vars == <<table, pc, line>>

CHAIN == "FW_DOS_POLICY"
Jump == Rule(AnyMatch, CHAIN)
BootTable == EmptyTable({"INPUT"}, {"INPUT", CHAIN})

\* A match of the policy: the packets it is about, and the module it loads.
Match(kind, module) == [kind |-> kind, module |-> module]

FloodRule(f, n) ==
  CASE n = 1 -> Rule(Match(f, "limit"), "RETURN")
    [] n = 2 -> Rule(Match(f, "all"), "LOG")
    [] n = 3 -> Rule(Match(f, "all"), "DROP")

SshRules ==
  << Rule(Match("ssh", "set"), "none"),
     Rule(Match("ssh", "update"), "LOG"),
     Rule(Match("ssh", "update"), "DROP") >>

\* The rules enable_dos_policy appends, in order.
PolicyLen == 3 * Len(Floods) + 3

PolicyRule(k) ==
  IF k <= 3 * Len(Floods)
  THEN FloodRule(Floods[((k - 1) \div 3) + 1], ((k - 1) % 3) + 1)
  ELSE SshRules[k - 3 * Len(Floods)]

Init ==
  /\ table = BootTable
  /\ pc = [p \in Procs |-> "idle"]
  /\ line = [p \in Procs |-> 0]

-----------------------------------------------------------------------------
Goto(p, label) == pc' = [pc EXCEPT ![p] = label]

Call(p, op) ==
  /\ pc[p] = "idle"
  /\ Serialised => \A q \in Procs : pc[q] = "idle"
  /\ Goto(p, IF op = "enable" THEN "newChain" ELSE "unhook")
  /\ UNCHANGED <<table, line>>

\* iptables -N $CHAIN 2>/dev/null
MakeChain(p) ==
  /\ pc[p] = "newChain"
  /\ table' = NewChain(table, CHAIN)
  /\ Goto(p, "check")
  /\ UNCHANGED line

\* iptables -C INPUT -j $CHAIN || ...; the mutated form does not ask.
CheckNothing(p) == pc[p] = "check" /\ Goto(p, "hook") /\ UNCHANGED <<table, line>>

CheckJump(p) ==
  /\ pc[p] = "check"
  /\ Goto(p, IF HasRule(table, "INPUT", Jump) THEN "rules" ELSE "hook")
  /\ UNCHANGED <<table, line>>

\* ... iptables -A INPUT -j $CHAIN
Hook(p) ==
  /\ pc[p] = "hook"
  /\ table' = AppendRule(table, "INPUT", Jump)
  /\ Goto(p, "rules")
  /\ UNCHANGED line

\* The next iptables -A $CHAIN; the mutated forms put every rule first, and
\* lose the options that match (a line continuation forgotten in the script).
InsertPolicyRule(p) ==
  /\ pc[p] = "rules"
  /\ table' = InsertRule(table, CHAIN, PolicyRule(line[p] + 1))
  /\ line' = [line EXCEPT ![p] = (@ + 1) % PolicyLen]
  /\ Goto(p, IF line[p] + 1 = PolicyLen THEN "idle" ELSE "rules")

AppendUnmatched(p) ==
  /\ pc[p] = "rules"
  /\ table' = AppendRule(table, CHAIN, Rule(AnyMatch, PolicyRule(line[p] + 1).target))
  /\ line' = [line EXCEPT ![p] = IF line[p] + 1 = PolicyLen THEN 0 ELSE @ + 1]
  /\ Goto(p, IF line[p] + 1 = PolicyLen THEN "idle" ELSE "rules")

AppendPolicyRule(p) ==
  /\ pc[p] = "rules"
  /\ table' = AppendRule(table, CHAIN, PolicyRule(line[p] + 1))
  /\ line' = [line EXCEPT ![p] = IF line[p] + 1 = PolicyLen THEN 0 ELSE @ + 1]
  /\ Goto(p, IF line[p] + 1 = PolicyLen THEN "idle" ELSE "rules")

\* disable_dos_policy: -D INPUT, -F, -X.
Unhook(p) ==
  /\ pc[p] = "unhook"
  /\ table' = DeleteRule(table, "INPUT", Jump)
  /\ Goto(p, "flush")
  /\ UNCHANGED line

Empty(p) ==
  /\ pc[p] = "flush"
  /\ table' = FlushChain(table, CHAIN)
  /\ Goto(p, "delete")
  /\ UNCHANGED line

RemoveChain(p) ==
  /\ pc[p] = "delete"
  /\ table' = DeleteChain(table, CHAIN)
  /\ Goto(p, "idle")
  /\ UNCHANGED line

\* Power loss: the kernel's table is gone and nothing is re-applied.
Reboot ==
  /\ table' = BootTable
  /\ pc' = [p \in Procs |-> "idle"]
  /\ line' = [p \in Procs |-> 0]

Step(p) ==
  \/ MakeChain(p) \/ CheckJump(p) \/ Hook(p) \/ AppendPolicyRule(p)
  \/ Unhook(p) \/ Empty(p) \/ RemoveChain(p)

Next ==
  \/ \E p \in Procs : Step(p) \/ \E op \in Ops : Call(p, op)
  \/ Reboot

Spec == Init /\ [][Next]_vars

-----------------------------------------------------------------------------
Rules == {PolicyRule(k) : k \in 1..PolicyLen} \cup {Jump}
Labels == {"idle", "newChain", "check", "hook", "rules", "unhook", "flush", "delete"}

TypeOK ==
  /\ table \in [known : SUBSET {"INPUT", CHAIN}, rules : [{"INPUT", CHAIN} -> Seq(Rules)]]
  /\ "INPUT" \in table.known
  /\ pc \in [Procs -> Labels]
  /\ line \in [Procs -> 0..(PolicyLen - 1)]

Idle == \A p \in Procs : pc[p] = "idle"
chain == table.rules[CHAIN]

\* At every moment, even half way through enable, a rule that drops the packets
\* of a flood comes after the rule that returns those under the limit:
\* otherwise the router would drop all of that traffic.
FloodDropGuarded ==
  \A k \in DOMAIN chain :
    chain[k].target = "DROP" /\ chain[k].match.kind # "ssh" =>
      \E j \in DOMAIN chain :
        j < k /\ chain[j] = Rule(Match(chain[k].match.kind, "limit"), "RETURN")

\* Between two runs the policy is there as a whole, hooked exactly once, or
\* there is no trace of it: however often enable was called, one disable
\* removes hook and chain.
WholeOrNothing ==
  Idle => IF CHAIN \in table.known
          THEN /\ table.rules["INPUT"] = <<Jump>>
               /\ Len(chain) >= PolicyLen
               /\ \A k \in 1..PolicyLen : chain[k] = PolicyRule(k)
          ELSE table.rules["INPUT"] = <<>>

-----------------------------------------------------------------------------
(* The inductive invariant of one run at a time (proved in DosPolicyProofs). *)

Absent == CHAIN \notin table.known /\ table.rules["INPUT"] = <<>> /\ chain = <<>>
Present ==
  CHAIN \in table.known /\ table.rules["INPUT"] = <<Jump>> /\ Len(chain) >= PolicyLen

Fresh == CHAIN \in table.known /\ table.rules["INPUT"] = <<>> /\ chain = <<>>

StepOK(p) ==
  /\ pc[p] # "rules" => line[p] = 0
  /\ pc[p] \in {"newChain", "unhook"} => Absent \/ Present
  /\ pc[p] = "check" => Fresh \/ Present
  /\ pc[p] = "hook" => Fresh
  /\ pc[p] = "rules" =>
       /\ CHAIN \in table.known /\ table.rules["INPUT"] = <<Jump>>
       /\ Len(chain) = line[p] \/ Len(chain) >= PolicyLen
  /\ pc[p] \in {"flush", "delete"} => table.rules["INPUT"] = <<>>
  /\ pc[p] = "delete" => chain = <<>>

SerialInv ==
  /\ TypeOK
  /\ \A p, q \in Procs : pc[p] # "idle" /\ pc[q] # "idle" => p = q
  /\ \A p \in Procs : StepOK(p)
  /\ CHAIN \notin table.known => chain = <<>>
  /\ \A k \in DOMAIN chain : k <= PolicyLen => chain[k] = PolicyRule(k)
  /\ Idle => Absent \/ Present

-----------------------------------------------------------------------------
(* The inductive invariant of overlapping enables without a disable: what a  *)
(* process has appended stays in the chain, wherever others have put theirs. *)

EnablingInv ==
  /\ TypeOK
  /\ \A p \in Procs :
       /\ pc[p] \in {"idle", "newChain", "check", "hook", "rules"}
       /\ pc[p] # "rules" => line[p] = 0
       /\ pc[p] \in {"check", "hook", "rules"} => CHAIN \in table.known
       /\ \A k \in 1..line[p] : \E j \in DOMAIN chain : chain[j] = PolicyRule(k)
  /\ FloodDropGuarded
=============================================================================
