----------------------------- MODULE RuleAdmin ------------------------------
(***************************************************************************)
(* The web interface's changes to the FORWARD chain of the filter table:   *)
(* quarantine a MAC address or let it in again (/update-mac-status,        *)
(* quaratine.sh), add a rule (/add-firewall-rule, add-iptables-rule.sh)    *)
(* and delete the rules at some line numbers (/delete-firewall-rule,       *)
(* fixiptables.sh).                                                        *)
(*                                                                         *)
(* server.js starts each script with exec() and answers when it ends:      *)
(* requests that arrive in between start other scripts, so the scripts of  *)
(* several requests are interleaved command by command.                    *)
(***************************************************************************)
EXTENDS Iptables

CONSTANTS
  Procs,        \* requests that can be under way at the same time
  Macs,         \* the addresses that are quarantined
  Extra,        \* the rules an administrator adds by hand
  MaxLen        \* rules are added while the chain is shorter

ASSUME AdminAssumption ==
  /\ IsFiniteSet(Procs)
  /\ AnyMatch \notin Macs
  /\ Extra \subseteq [match : Macs \cup {AnyMatch}, target : {"ACCEPT", "DROP"}]
  /\ MaxLen \in Nat

VARIABLES
  table,        \* the filter table of the kernel
  pc,           \* the command every request's script executes next
  mac, action,  \* the arguments of quaratine.sh
  todo,         \* the line numbers fixiptables.sh has not deleted yet
  alone,        \* since a request arrived, no other was under way
  asked, start, \* the lines it then asks fixiptables.sh to delete, and the
                \* chain when that script began
  last          \* the action of the last quarantine rule inserted for a MAC,
                \* until a line that holds a rule of that MAC is deleted

vars == <<table, pc, mac, action, todo, asked, start, alone, last>>

NoMac == "none"
Actions == {"ACCEPT", "DROP"}
Rules == [match : Macs \cup {AnyMatch}, target : Actions]
chain == table.rules["FORWARD"]

TypeOK ==
  /\ table \in [known : {{"FORWARD"}}, rules : [{"FORWARD"} -> Seq(Rules)]]
  /\ pc \in [Procs -> {"idle", "delAccept", "delDrop", "insert", "fix"}]
  /\ mac \in [Procs -> Macs \cup {NoMac}]
  /\ action \in [Procs -> Actions \cup {"none"}]
  /\ todo \in [Procs -> SUBSET Nat]
  /\ asked \in [Procs -> SUBSET Nat]
  /\ start \in [Procs -> Seq(Rules)]
  /\ alone \in [Procs -> BOOLEAN]
  /\ last \in [Macs -> Actions \cup {"none"}]

Init ==
  /\ table = EmptyTable({"FORWARD"}, {"FORWARD"})
  /\ pc = [p \in Procs |-> "idle"]
  /\ mac = [p \in Procs |-> NoMac]
  /\ action = [p \in Procs |-> "none"]
  /\ todo = [p \in Procs |-> {}]
  /\ asked = [p \in Procs |-> {}]
  /\ start = [p \in Procs |-> <<>>]
  /\ alone = [p \in Procs |-> FALSE]
  /\ last = [m \in Macs |-> "none"]

-----------------------------------------------------------------------------
Goto(p, label) == pc' = [pc EXCEPT ![p] = label]

\* Request p for the given lines arrives: no other one is alone any more.
Arrives(p, lines) ==
  LET first == \A q \in Procs : pc[q] = "idle"
      lone == [q \in Procs |-> q = p /\ first]
  IN  /\ pc[p] = "idle"
      /\ alone' = lone
      /\ asked' = [q \in Procs |-> IF lone[q] THEN lines ELSE {}]
      /\ start' = [q \in Procs |-> IF lone[q] /\ lines # {} THEN chain ELSE <<>>]

\* POST /update-mac-status: any other action is refused before and in the script.
UpdateMac(p, m, a) ==
  /\ Arrives(p, {})
  /\ mac' = [mac EXCEPT ![p] = m]
  /\ action' = [action EXCEPT ![p] = a]
  /\ Goto(p, "delAccept")
  /\ UNCHANGED <<table, todo, last>>

\* iptables -D FORWARD -m mac --mac-source $MAC_ADDRESS -j ACCEPT 2>/dev/null
DeleteAccept(p) ==
  /\ pc[p] = "delAccept"
  /\ table' = DeleteRule(table, "FORWARD", Rule(mac[p], "ACCEPT"))
  /\ Goto(p, "delDrop")
  /\ UNCHANGED <<mac, action, todo, asked, start, alone, last>>

\* ... -j DROP 2>/dev/null; the mutated form forgets the old DROP.
DeleteNothing(p) ==
  /\ pc[p] = "delDrop"
  /\ Goto(p, "insert")
  /\ UNCHANGED <<table, mac, action, todo, asked, start, alone, last>>

DeleteDrop(p) ==
  /\ pc[p] = "delDrop"
  /\ table' = DeleteRule(table, "FORWARD", Rule(mac[p], "DROP"))
  /\ Goto(p, "insert")
  /\ UNCHANGED <<mac, action, todo, asked, start, alone, last>>

\* iptables -I FORWARD 1 ... -j $ACTION; the mutated forms append the rule, and
\* insert it without a target.
AppendAction(p) ==
  /\ pc[p] = "insert"
  /\ table' = AppendRule(table, "FORWARD", Rule(mac[p], action[p]))
  /\ last' = [last EXCEPT ![mac[p]] = action[p]]
  /\ mac' = [mac EXCEPT ![p] = NoMac]
  /\ action' = [action EXCEPT ![p] = "none"]
  /\ Goto(p, "idle")
  /\ UNCHANGED <<todo, asked, start, alone>>

InsertNoTarget(p) ==
  /\ pc[p] = "insert"
  /\ table' = InsertRule(table, "FORWARD", Rule(mac[p], "none"))
  /\ last' = [last EXCEPT ![mac[p]] = action[p]]
  /\ mac' = [mac EXCEPT ![p] = NoMac]
  /\ action' = [action EXCEPT ![p] = "none"]
  /\ Goto(p, "idle")
  /\ UNCHANGED <<todo, asked, start, alone>>

InsertAction(p) ==
  /\ pc[p] = "insert"
  /\ table' = InsertRule(table, "FORWARD", Rule(mac[p], action[p]))
  /\ last' = [last EXCEPT ![mac[p]] = action[p]]
  /\ mac' = [mac EXCEPT ![p] = NoMac]
  /\ action' = [action EXCEPT ![p] = "none"]
  /\ Goto(p, "idle")
  /\ UNCHANGED <<todo, asked, start, alone>>

\* POST /add-firewall-rule with -A FORWARD: the script is one command.
AddRule(p, r) ==
  /\ Arrives(p, {})
  /\ Len(chain) < MaxLen
  /\ table' = AppendRule(table, "FORWARD", r)
  /\ UNCHANGED <<pc, mac, action, todo, last>>

\* POST /delete-firewall-rule with the line numbers ticked on the page, which
\* sends every ticked row once.  Neither server.js nor the script looks for a
\* number that is there twice (sort -r -n, without -u): a client other than the
\* page that repeats one deletes the rule below it too, and is not modelled.
FixRules(p, lines) ==
  /\ Arrives(p, lines)
  /\ lines # {}
  /\ todo' = [todo EXCEPT ![p] = lines]
  /\ Goto(p, "fix")
  /\ UNCHANGED <<table, mac, action, last>>

\* What is left of last when line i, if there is one, is deleted.
Forget(i) ==
  [m \in Macs |-> IF i \in DOMAIN chain /\ chain[i].match = m THEN "none" ELSE last[m]]

\* for idx in "${SORTED_INDEXES[@]}": the largest number first; the mutated
\* form keeps the order of the page, smallest first.
DeleteSmallest(p) ==
  /\ pc[p] = "fix"
  /\ \E i \in todo[p] :
       /\ \A j \in todo[p] : i <= j
       /\ table' = DeleteLine(table, "FORWARD", i)
       /\ todo' = [todo EXCEPT ![p] = @ \ {i}]
       /\ last' = Forget(i)
  /\ UNCHANGED <<pc, mac, action, asked, start, alone>>

DeleteLargest(p) ==
  /\ pc[p] = "fix"
  /\ \E i \in todo[p] :
       /\ \A j \in todo[p] : j <= i
       /\ table' = DeleteLine(table, "FORWARD", i)
       /\ todo' = [todo EXCEPT ![p] = @ \ {i}]
       /\ last' = Forget(i)
  /\ UNCHANGED <<pc, mac, action, asked, start, alone>>

\* The script prints the chains as they are now and ends.
ListAgain(p) ==
  /\ pc[p] = "fix"
  /\ todo[p] = {}
  /\ asked' = [asked EXCEPT ![p] = {}]
  /\ start' = [start EXCEPT ![p] = <<>>]
  /\ Goto(p, "idle")
  /\ UNCHANGED <<table, mac, action, todo, alone, last>>

Next ==
  \E p \in Procs :
    \/ \E m \in Macs, a \in Actions : UpdateMac(p, m, a)
    \/ DeleteAccept(p) \/ DeleteDrop(p) \/ InsertAction(p)
    \/ \E r \in Extra : AddRule(p, r)
    \/ \E lines \in SUBSET (1..Len(chain)) : FixRules(p, lines)
    \/ DeleteLargest(p) \/ ListAgain(p)

Spec == Init /\ [][Next]_vars

-----------------------------------------------------------------------------
\* Scripts that have taken rules of m away and not put theirs in yet.
Updating(m) == {p \in Procs : mac[p] = m /\ pc[p] \in {"delDrop", "insert"}}

\* However updates of the same and of other addresses overlap, with each other
\* and with deletions of lines, the one whose rule went in last decides: no
\* other script still owes the chain a deletion of that rule, and rules left
\* behind by races are below it.
LastUpdateDecides ==
  \A m \in Macs : last[m] # "none" /\ Updating(m) = {} => ChainVerdict(chain, m) = last[m]

\* The lines of the rules for m that nobody adds by hand.
LinesFor(s, m) == {k \in DOMAIN s : s[k].match = m /\ s[k] \notin Extra}

\* Races leave duplicates, but never more rules for an address than requests
\* can be under way at once.
StaleRulesBounded ==
  \A m \in Macs : Cardinality(LinesFor(chain, m)) <= Cardinality(Procs)

\* "Sort the rule indexes in descending order so that each deletion does not
\* change the order": while fixiptables.sh runs alone, every number it has
\* still to delete is the line of the rule it was the line of at first.
PendingLinesStable ==
  \A p \in Procs : pc[p] = "fix" /\ alone[p] =>
    \A i \in todo[p] : i \in DOMAIN chain /\ chain[i] = start[p][i]

\* What is left of chain s when the rules at the given lines are deleted.
Without(s, lines) ==
  LET kept == (DOMAIN s) \ lines
      pos(j) == CHOOSE i \in kept : Cardinality({k \in kept : k <= i}) = j
  IN  [j \in 1..Cardinality(kept) |-> s[pos(j)]]

\* While fixiptables.sh runs alone, the chain is the one it began with without
\* the rules at those of the requested lines it has dealt with, and nothing
\* else is missing: when none is left to do, exactly the ticked rules are gone.
DeletesExactlyThose ==
  \A p \in Procs : pc[p] = "fix" /\ alone[p] =>
    chain = Without(start[p], asked[p] \ todo[p])
=============================================================================
