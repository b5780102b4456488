-------------------------- MODULE DosPolicyProofs ---------------------------
(***************************************************************************)
(* Proofs about DosPolicy: one run of ddos_protect.sh at a time, and       *)
(* overlapping runs of enable.                                             *)
(***************************************************************************)
EXTENDS DosPolicy, TLAPS

USE DosAssumption

TableType == [known : SUBSET {"INPUT", CHAIN}, rules : [{"INPUT", CHAIN} -> Seq(Rules)]]

\* The policy has at least the three SSH rules, and none of its rules jumps.
LEMMA PolicyFacts ==
  /\ Len(Floods) \in Nat /\ PolicyLen \in Nat /\ PolicyLen >= 3
  /\ Jump \in Rules /\ \A k \in 1..PolicyLen : PolicyRule(k) \in Rules
  /\ CHAIN # "INPUT" /\ CHAIN \notin Verdicts \cup PassThrough
  /\ Jump.target = CHAIN
BY DEF PolicyLen, Rules, Jump, Rule, CHAIN, Verdicts, PassThrough

\* The two parts of the policy.
LEMMA PolicyParts ==
  /\ \A f : /\ FloodRule(f, 1) = Rule(Match(f, "limit"), "RETURN")
            /\ FloodRule(f, 2) = Rule(Match(f, "all"), "LOG")
            /\ FloodRule(f, 3) = Rule(Match(f, "all"), "DROP")
  /\ \A d \in {1, 2, 3} : /\ SshRules[d].target \in Verdicts \cup PassThrough
                          /\ SshRules[d].match.kind = "ssh"
<1>1. \A f : /\ FloodRule(f, 1) = Rule(Match(f, "limit"), "RETURN")
            /\ FloodRule(f, 2) = Rule(Match(f, "all"), "LOG")
            /\ FloodRule(f, 3) = Rule(Match(f, "all"), "DROP")
  BY DEF FloodRule
<1>2. /\ SshRules[1] = Rule(Match("ssh", "set"), "none")
      /\ SshRules[2] = Rule(Match("ssh", "update"), "LOG")
      /\ SshRules[3] = Rule(Match("ssh", "update"), "DROP")
  BY DEF SshRules
<1>3. SshRules[1].target = "none" /\ SshRules[2].target = "LOG" /\ SshRules[3].target = "DROP"
  BY <1>2 DEF Rule
<1>4. \A d \in {1, 2, 3} : SshRules[d].match.kind = "ssh"
  BY <1>2 DEF Rule, Match
<1> QED BY <1>1, <1>3, <1>4 DEF Verdicts, PassThrough

\* Every policy rule has a target iptables knows: a verdict, LOG, or none.
LEMMA PolicyTargets ==
  ASSUME NEW k \in 1..PolicyLen
  PROVE  PolicyRule(k).target \in Verdicts \cup PassThrough
<1>1. CASE k <= 3 * Len(Floods)
  <2>1. ((k - 1) % 3) + 1 \in {1, 2, 3}
    BY PolicyFacts
  <2> QED BY <1>1, <2>1, PolicyParts DEF PolicyRule, Rule, Verdicts, PassThrough
<1>2. CASE ~(k <= 3 * Len(Floods))
  <2>1. k - 3 * Len(Floods) \in {1, 2, 3}
    BY <1>2, PolicyFacts DEF PolicyLen
  <2> QED BY <1>2, <2>1, PolicyParts DEF PolicyRule
<1> QED BY <1>1, <1>2

\* A flood's DROP in the policy comes two rules after its RETURN.
LEMMA PolicyGuards ==
  ASSUME NEW k \in 1..PolicyLen, PolicyRule(k).target = "DROP",
         PolicyRule(k).match.kind # "ssh"
  PROVE  /\ k - 2 \in 1..PolicyLen
         /\ PolicyRule(k - 2) = Rule(Match(PolicyRule(k).match.kind, "limit"), "RETURN")
<1>1. k <= 3 * Len(Floods)
  <2> SUFFICES ASSUME ~(k <= 3 * Len(Floods)) PROVE FALSE
    OBVIOUS
  <2>1. k - 3 * Len(Floods) \in {1, 2, 3}
    BY PolicyFacts DEF PolicyLen
  <2> QED BY <2>1, PolicyParts DEF PolicyRule
<1>2. ((k - 1) % 3) + 1 = 3
  <2>1. ((k - 1) % 3) + 1 \in {1, 2, 3}
    BY PolicyFacts
  <2> QED BY <1>1, <2>1, PolicyParts DEF PolicyRule, Rule
<1>3. /\ k - 2 \in 1..PolicyLen /\ k - 2 <= 3 * Len(Floods)
      /\ ((k - 2 - 1) % 3) + 1 = 1
      /\ (k - 2 - 1) \div 3 = (k - 1) \div 3
  BY <1>1, <1>2, PolicyFacts
<1> DEFINE f == Floods[((k - 1) \div 3) + 1]
<1>4. PolicyRule(k) = FloodRule(f, 3)
  BY <1>1, <1>2 DEF PolicyRule
<1>5. PolicyRule(k - 2) = FloodRule(f, 1)
  BY <1>3 DEF PolicyRule
<1>6. PolicyRule(k).match.kind = f
  BY <1>4, PolicyParts DEF Rule, Match
<1> QED BY <1>3, <1>5, <1>6, PolicyParts

-----------------------------------------------------------------------------
\* With one run at a time, every process but the one that moves is idle.
LEMMA OthersIdle ==
  ASSUME SerialInv, NEW p \in Procs, pc[p] # "idle"
  PROVE  \A q \in Procs : q # p => pc[q] = "idle"
BY DEF SerialInv

\* Initially there is no policy.
LEMMA BootOK ==
  /\ Init => SerialInv
  /\ SerialInv /\ Reboot => SerialInv'
<1>1. /\ BootTable \in TableType /\ "INPUT" \in BootTable.known
      /\ CHAIN \notin BootTable.known
      /\ BootTable.rules["INPUT"] = <<>> /\ BootTable.rules[CHAIN] = <<>>
  BY PolicyFacts DEF BootTable, EmptyTable, TableType
<1>2. 0 \in 0..(PolicyLen - 1)
  BY PolicyFacts
<1>3. ASSUME Init PROVE SerialInv
  BY <1>1, <1>2, <1>3 DEF Init, SerialInv, TypeOK, TableType, Labels, StepOK, Absent, chain
<1>4. ASSUME SerialInv, Reboot PROVE SerialInv'
  BY <1>1, <1>2, <1>4 DEF Reboot, SerialInv, TypeOK, TableType, Labels, StepOK, Absent, chain
<1> QED BY <1>3, <1>4

\* Starting the script changes no rule.
LEMMA CallOK ==
  ASSUME SerialInv, Serialised, NEW p \in Procs, NEW op \in Ops, Call(p, op)
  PROVE  SerialInv'
<1>1. /\ \A q \in Procs : pc[q] = "idle"
      /\ Absent \/ Present
  BY DEF Call, SerialInv, Idle
<1>2. TypeOK'
  BY DEF Call, Goto, SerialInv, TypeOK, Labels
<1> QED BY <1>1, <1>2 DEF Call, Goto, SerialInv, TypeOK, StepOK, Absent, Present, chain, Idle

\* Making, checking and hooking the chain.
LEMMA HookingOK ==
  ASSUME SerialInv, NEW p \in Procs, MakeChain(p) \/ CheckJump(p) \/ Hook(p)
  PROVE  SerialInv'
<1>0. /\ pc[p] # "idle" /\ table \in TableType
      /\ \A q \in Procs : q # p => pc[q] = "idle"
  BY OthersIdle DEF MakeChain, CheckJump, Hook, SerialInv, TypeOK, TableType
<1>1. CASE MakeChain(p)
  <2>1. /\ table' \in TableType /\ table'.known = table.known \cup {CHAIN}
        /\ table'.rules = table.rules
    BY <1>0, <1>1 DEF MakeChain, NewChain, TableType
  <2>2. TypeOK'
    BY <1>1, <2>1 DEF MakeChain, Goto, SerialInv, TypeOK, TableType, Labels
  <2> QED BY <1>0, <1>1, <2>1, <2>2
          DEF MakeChain, Goto, SerialInv, TypeOK, StepOK, Absent, Present, Fresh, chain, Idle
<1>2. CASE CheckJump(p)
  <2>1. /\ Fresh => ~HasRule(table, "INPUT", Jump)
        /\ Present => HasRule(table, "INPUT", Jump)
    <3>1. DOMAIN <<Jump>> = {1} /\ <<Jump>>[1] = Jump /\ DOMAIN <<>> = {}
      OBVIOUS
    <3>2. "INPUT" \in table.known
      BY DEF SerialInv, TypeOK
    <3> QED BY <3>1, <3>2, PolicyFacts DEF Fresh, Present, HasRule, TargetExists
  <2>2. TypeOK'
    BY <1>2 DEF CheckJump, Goto, SerialInv, TypeOK, Labels
  <2> QED BY <1>0, <1>2, <2>1, <2>2
          DEF CheckJump, Goto, SerialInv, TypeOK, StepOK, Present, Fresh, chain, Idle
<1>3. CASE Hook(p)
  <2>1. Fresh
    BY <1>3 DEF Hook, SerialInv, StepOK
  <2>2. /\ table' = [table EXCEPT !.rules["INPUT"] = Append(<<>>, Jump)]
        /\ Append(<<>>, Jump) = <<Jump>> /\ <<Jump>> \in Seq(Rules)
    BY <1>3, <2>1, PolicyFacts
       DEF Hook, Fresh, AppendRule, TargetExists, SerialInv, TypeOK
  <2>3. /\ table' \in TableType /\ table'.known = table.known
        /\ table'.rules["INPUT"] = <<Jump>> /\ table'.rules[CHAIN] = table.rules[CHAIN]
    <3>1. CHAIN # "INPUT" /\ <<Jump>> \in Seq(Rules)
          /\ table' = [table EXCEPT !.rules["INPUT"] = <<Jump>>]
      BY <2>2, PolicyFacts
    <3> QED BY <1>0, <3>1 DEF TableType
  <2>4. TypeOK'
    BY <1>3, <2>3 DEF Hook, Goto, SerialInv, TypeOK, TableType, Labels
  <2> QED BY <1>0, <1>3, <2>1, <2>3, <2>4
          DEF Hook, Goto, SerialInv, TypeOK, StepOK, Fresh, chain, Idle
<1> QED BY <1>1, <1>2, <1>3

\* Appending the rules of the policy one by one.
LEMMA AppendOK ==
  ASSUME SerialInv, NEW p \in Procs, AppendPolicyRule(p)
  PROVE  SerialInv'
<1>0. /\ pc[p] = "rules" /\ table \in TableType /\ line[p] \in 0..(PolicyLen - 1)
      /\ CHAIN \in table.known /\ table.rules["INPUT"] = <<Jump>>
      /\ Len(chain) = line[p] \/ Len(chain) >= PolicyLen
      /\ chain \in Seq(Rules)
      /\ \A q \in Procs : q # p => pc[q] = "idle"
  BY OthersIdle DEF AppendPolicyRule, SerialInv, StepOK, TypeOK, TableType, chain
<1> DEFINE r == PolicyRule(line[p] + 1)
<1>1. line[p] + 1 \in 1..PolicyLen /\ r \in Rules /\ r.target \in Verdicts \cup PassThrough
  BY <1>0, PolicyFacts, PolicyTargets
<1>2. table' = [table EXCEPT !.rules[CHAIN] = Append(chain, r)]
  BY <1>0, <1>1 DEF AppendPolicyRule, AppendRule, TargetExists, chain
<1>3. /\ table' \in TableType /\ table'.known = table.known
      /\ table'.rules["INPUT"] = <<Jump>> /\ chain' = Append(chain, r)
  <2>1. Append(chain, r) \in Seq(Rules)
    BY <1>0, <1>1
  <2> HIDE DEF r
  <2> QED BY <1>0, <1>2, <2>1, PolicyFacts DEF TableType, chain
<1>4. /\ Len(chain') = Len(chain) + 1 /\ Len(chain) \in Nat
      /\ DOMAIN chain' = 1..(Len(chain) + 1) /\ DOMAIN chain = 1..Len(chain)
      /\ \A k \in 1..Len(chain) : chain'[k] = chain[k]
      /\ chain'[Len(chain) + 1] = r
  BY <1>0, <1>1, <1>3
<1>5. \A k \in DOMAIN chain' : k <= PolicyLen => chain'[k] = PolicyRule(k)
  BY <1>0, <1>1, <1>4, PolicyFacts DEF SerialInv
<1>6. TypeOK'
  BY <1>0, <1>1, <1>3, PolicyFacts DEF AppendPolicyRule, Goto, SerialInv, TypeOK, TableType, Labels
<1>7. /\ pc' = [pc EXCEPT ![p] = IF line[p] + 1 = PolicyLen THEN "idle" ELSE "rules"]
      /\ line' = [line EXCEPT ![p] = IF line[p] + 1 = PolicyLen THEN 0 ELSE line[p] + 1]
  BY DEF AppendPolicyRule, Goto
<1>8. CASE line[p] + 1 = PolicyLen
  <2>1. Present'
    BY <1>0, <1>3, <1>4, <1>8, PolicyFacts DEF Present
  <2> QED BY <1>0, <1>3, <1>5, <1>6, <1>7, <1>8, <2>1 DEF SerialInv, TypeOK, StepOK, Idle
<1>9. CASE line[p] + 1 # PolicyLen
  <2>1. Len(chain') = line'[p] \/ Len(chain') >= PolicyLen
    BY <1>0, <1>4, <1>7, <1>9, PolicyFacts DEF SerialInv, TypeOK
  <2> QED BY <1>0, <1>3, <1>5, <1>6, <1>7, <1>9, <2>1 DEF SerialInv, TypeOK, StepOK, Idle
<1> QED BY <1>8, <1>9

\* disable: unhook, flush, delete.
LEMMA DisableOK ==
  ASSUME SerialInv, NEW p \in Procs, Unhook(p) \/ Empty(p) \/ RemoveChain(p)
  PROVE  SerialInv'
<1>0. /\ pc[p] # "idle" /\ table \in TableType /\ "INPUT" \in table.known
      /\ \A q \in Procs : q # p => pc[q] = "idle"
  BY OthersIdle DEF Unhook, Empty, RemoveChain, SerialInv, TypeOK, TableType
<1>1. CASE Unhook(p)
  <2>1. Absent \/ Present
    BY <1>1 DEF Unhook, SerialInv, StepOK
  <2>2. /\ table' \in TableType /\ table'.known = table.known
        /\ table'.rules["INPUT"] = <<>> /\ table'.rules[CHAIN] = table.rules[CHAIN]
    <3>1. CASE Absent
      BY <1>0, <1>1, <3>1 DEF Unhook, DeleteRule, HasRule, Absent
    <3>2. CASE Present
      <4>1. HasRule(table, "INPUT", Jump)
        BY <1>0, <3>2, PolicyFacts DEF HasRule, TargetExists, Present
      <4>2. FirstEqual(<<Jump>>, Jump) = 1
        BY DEF FirstEqual
      <4>3. RemoveAt(<<Jump>>, 1) = <<>>
        BY DEF RemoveAt
      <4>4. table' = [table EXCEPT !.rules["INPUT"] = <<>>]
        BY <1>0, <1>1, <3>2, <4>1, <4>2, <4>3
           DEF Unhook, DeleteRule, DeleteLine, HasLine, Present
      <4>5. <<>> \in Seq(Rules)
        OBVIOUS
      <4>6. CHAIN # "INPUT"
        BY PolicyFacts
      <4> QED BY <1>0, <4>4, <4>5, <4>6 DEF TableType
    <3> QED BY <2>1, <3>1, <3>2
  <2>3. TypeOK'
    BY <1>0, <1>1, <2>2 DEF Unhook, Goto, SerialInv, TypeOK, TableType, Labels
  <2> QED BY <1>0, <1>1, <2>2, <2>3
          DEF Unhook, Goto, SerialInv, TypeOK, StepOK, chain, Idle
<1>2. CASE Empty(p)
  <2>1. /\ table' \in TableType /\ table'.known = table.known
        /\ table'.rules["INPUT"] = table.rules["INPUT"] /\ table'.rules[CHAIN] = <<>>
    <3>1. <<>> \in Seq(Rules)
      OBVIOUS
    <3>2. CASE CHAIN \in table.known
      <4>1. table' = [table EXCEPT !.rules[CHAIN] = <<>>]
        BY <1>2, <3>2 DEF Empty, FlushChain
      <4>2. CHAIN # "INPUT"
        BY PolicyFacts
      <4> QED BY <1>0, <3>1, <4>1, <4>2 DEF TableType
    <3>3. CASE CHAIN \notin table.known
      BY <1>0, <1>2, <3>3 DEF Empty, FlushChain, SerialInv, chain
    <3> QED BY <3>2, <3>3
  <2>2. TypeOK'
    BY <1>0, <1>2, <2>1 DEF Empty, Goto, SerialInv, TypeOK, TableType, Labels
  <2> QED BY <1>0, <1>2, <2>1, <2>2
          DEF Empty, Goto, SerialInv, TypeOK, StepOK, chain, Idle
<1>3. CASE RemoveChain(p)
  <2>1. table.rules["INPUT"] = <<>> /\ chain = <<>>
    BY <1>3 DEF RemoveChain, SerialInv, StepOK
  <2>2. ~Referenced(table, CHAIN)
    BY <1>0, <2>1 DEF Referenced, chain, TableType
  <2>3. /\ table' \in TableType /\ table'.known = table.known \ {CHAIN}
        /\ table'.rules = table.rules
    BY <1>0, <1>3, <2>1, <2>2 DEF RemoveChain, DeleteChain, TableType, chain
  <2>4. TypeOK'
    BY <1>0, <1>3, <2>3, PolicyFacts DEF RemoveChain, Goto, SerialInv, TypeOK, TableType, Labels
  <2>5. Absent'
    BY <2>1, <2>3 DEF Absent, chain
  <2> QED BY <1>0, <1>3, <2>1, <2>3, <2>4, <2>5
          DEF RemoveChain, Goto, SerialInv, TypeOK, StepOK, chain, Idle
<1> QED BY <1>1, <1>2, <1>3

\* One run at a time: every step keeps the inductive invariant.
LEMMA NextOK ==
  ASSUME SerialInv, Serialised, [Next]_vars
  PROVE  SerialInv'
<1>1. CASE UNCHANGED vars
  BY <1>1 DEF vars, SerialInv, TypeOK, StepOK, Absent, Present, Fresh, chain, Idle
<1>2. CASE Next
  BY <1>2, BootOK, CallOK, HookingOK, AppendOK, DisableOK DEF Next, Step
<1> QED BY <1>1, <1>2

-----------------------------------------------------------------------------
\* The inductive invariant holds in every state.
THEOREM SerialInvariant == Serialised => (Spec => []SerialInv)
<1> SUFFICES ASSUME Serialised PROVE Spec => []SerialInv
  OBVIOUS
<1>1. SerialInv /\ [Next]_vars => SerialInv'
  BY NextOK
<1> QED BY <1>1, BootOK, PTL DEF Spec

\* For any list of floods: no moment of a run of enable or disable has a chain
\* that drops a flood's packets without first letting those under the limit go.
THEOREM DropGuarded == Serialised => (Spec => []FloodDropGuarded)
<1> SUFFICES ASSUME Serialised PROVE Spec => []FloodDropGuarded
  OBVIOUS
<1>1. SerialInv => FloodDropGuarded
  <2> SUFFICES ASSUME SerialInv, NEW k \in DOMAIN chain,
                      chain[k].target = "DROP", chain[k].match.kind # "ssh"
               PROVE  \E j \in DOMAIN chain :
                        j < k /\ chain[j] = Rule(Match(chain[k].match.kind, "limit"), "RETURN")
    BY DEF FloodDropGuarded
  <2>1. chain \in Seq(Rules) /\ Len(chain) \in Nat /\ DOMAIN chain = 1..Len(chain)
    BY DEF SerialInv, TypeOK, chain
  <2>2. \A i \in DOMAIN chain : i <= PolicyLen => chain[i] = PolicyRule(i)
    BY DEF SerialInv
  <2>3. PICK i \in 1..PolicyLen : chain[k] = PolicyRule(i) /\ (k <= PolicyLen => i = k)
    <3>1. chain[k] \in Rules /\ chain[k] # Jump
      BY <2>1, PolicyFacts DEF Verdicts
    <3> QED BY <2>1, <2>2, <3>1, PolicyFacts DEF Rules
  <2>4. i - 2 \in 1..PolicyLen
        /\ PolicyRule(i - 2) = Rule(Match(chain[k].match.kind, "limit"), "RETURN")
    BY <2>3, PolicyGuards
  <2>5. i - 2 \in DOMAIN chain /\ i - 2 < k
    BY <2>1, <2>3, <2>4, PolicyFacts
  <2> QED BY <2>2, <2>4, <2>5
<1> QED BY <1>1, SerialInvariant, PTL

\* Between two runs the policy is complete and hooked once, or gone.
THEOREM AllOrNone == Serialised => (Spec => []WholeOrNothing)
<1> SUFFICES ASSUME Serialised PROVE Spec => []WholeOrNothing
  OBVIOUS
<1>1. SerialInv => WholeOrNothing
  <2> SUFFICES ASSUME SerialInv, Idle PROVE WholeOrNothing
    BY DEF WholeOrNothing
  <2>1. chain \in Seq(Rules) /\ DOMAIN chain = 1..Len(chain) /\ Len(chain) \in Nat
    BY DEF SerialInv, TypeOK, chain
  <2>2. Absent \/ Present
    BY DEF SerialInv
  <2> QED BY <2>1, <2>2, PolicyFacts DEF SerialInv, Absent, Present, WholeOrNothing
<1> QED BY <1>1, SerialInvariant, PTL
-----------------------------------------------------------------------------
\* Overlapping enables: making and hooking the chain changes none of its rules.
LEMMA EnablingHookOK ==
  ASSUME EnablingInv, NEW p \in Procs, MakeChain(p) \/ CheckJump(p) \/ Hook(p)
  PROVE  EnablingInv'
<1>1. /\ table' \in TableType /\ "INPUT" \in table'.known
      /\ table.known \subseteq table'.known /\ chain' = chain
      /\ pc[p] = "newChain" => CHAIN \in table'.known
  <2>1. table \in TableType /\ "INPUT" \in table.known
    BY DEF EnablingInv, TypeOK, TableType
  <2>2. CASE MakeChain(p)
    BY <2>1, <2>2 DEF MakeChain, NewChain, TableType, chain
  <2>3. CASE CheckJump(p)
    BY <2>1, <2>3 DEF CheckJump, chain
  <2>4. CASE Hook(p)
    <3>1. Append(table.rules["INPUT"], Jump) \in Seq(Rules)
      BY <2>1, PolicyFacts DEF TableType
    <3> QED BY <2>1, <2>4, <3>1, PolicyFacts DEF Hook, AppendRule, TableType, chain
  <2> QED BY <2>2, <2>3, <2>4
<1>2. /\ pc[p] \in {"newChain", "check", "hook"} /\ line' = line
      /\ \E l \in {"check", "hook", "rules"} : pc' = [pc EXCEPT ![p] = l]
  BY DEF MakeChain, CheckJump, Hook, Goto
<1>3. pc[p] # "newChain" => CHAIN \in table.known
  BY <1>2 DEF EnablingInv
<1>4. TypeOK'
  BY <1>1, <1>2 DEF EnablingInv, TypeOK, TableType, Labels
<1>5. FloodDropGuarded'
  BY <1>1 DEF EnablingInv, FloodDropGuarded
<1>6. CHAIN \in table'.known
  BY <1>1, <1>3
<1> QED BY <1>1, <1>2, <1>4, <1>5, <1>6 DEF EnablingInv, TypeOK

\* Overlapping enables: a process appends a flood's DROP only after its own
\* RETURN, which nobody has taken away.
LEMMA EnablingAppendOK ==
  ASSUME EnablingInv, NEW p \in Procs, AppendPolicyRule(p)
  PROVE  EnablingInv'
<1>0. /\ pc[p] = "rules" /\ table \in TableType /\ line[p] \in 0..(PolicyLen - 1)
      /\ CHAIN \in table.known /\ chain \in Seq(Rules)
  BY DEF AppendPolicyRule, EnablingInv, TypeOK, TableType, chain
<1> DEFINE r == PolicyRule(line[p] + 1)
<1>1. line[p] + 1 \in 1..PolicyLen /\ r \in Rules /\ r.target \in Verdicts \cup PassThrough
  BY <1>0, PolicyFacts, PolicyTargets
<1>2. table' = [table EXCEPT !.rules[CHAIN] = Append(chain, r)]
  BY <1>0, <1>1 DEF AppendPolicyRule, AppendRule, TargetExists, chain
<1>3. table' \in TableType /\ table'.known = table.known /\ chain' = Append(chain, r)
  <2>1. Append(chain, r) \in Seq(Rules)
    BY <1>0, <1>1
  <2> HIDE DEF r
  <2> QED BY <1>0, <1>2, <2>1, PolicyFacts DEF TableType, chain
<1>4. /\ Len(chain) \in Nat
      /\ DOMAIN chain' = 1..(Len(chain) + 1) /\ DOMAIN chain = 1..Len(chain)
      /\ \A k \in 1..Len(chain) : chain'[k] = chain[k]
      /\ chain'[Len(chain) + 1] = r
  BY <1>0, <1>1, <1>3
<1>5. /\ pc' = [pc EXCEPT ![p] = IF line[p] + 1 = PolicyLen THEN "idle" ELSE "rules"]
      /\ line' = [line EXCEPT ![p] = IF line[p] + 1 = PolicyLen THEN 0 ELSE line[p] + 1]
  BY DEF AppendPolicyRule, Goto
<1> HIDE DEF r
<1>6. TypeOK'
  BY <1>0, <1>1, <1>3, <1>5, PolicyFacts DEF EnablingInv, TypeOK, TableType, Labels
<1>7. \A q \in Procs : \A k \in 1..line'[q] : \E j \in DOMAIN chain' : chain'[j] = PolicyRule(k)
  <2> SUFFICES ASSUME NEW q \in Procs, NEW k \in 1..line'[q]
               PROVE  \E j \in DOMAIN chain' : chain'[j] = PolicyRule(k)
    OBVIOUS
  <2>1. CASE k \in 1..line[q]
    <3>1. PICK j \in DOMAIN chain : chain[j] = PolicyRule(k)
      BY <2>1 DEF EnablingInv
    <3> QED BY <1>4, <3>1
  <2>2. CASE k \notin 1..line[q]
    <3>1. q = p /\ k = line[p] + 1
      BY <1>0, <1>5, <2>2 DEF EnablingInv, TypeOK
    <3> QED BY <1>4, <3>1 DEF r
  <2> QED BY <2>1, <2>2
<1>8. FloodDropGuarded'
  <2> SUFFICES ASSUME NEW k \in DOMAIN chain',
                      chain'[k].target = "DROP", chain'[k].match.kind # "ssh"
               PROVE  \E j \in DOMAIN chain' :
                        j < k /\ chain'[j] = Rule(Match(chain'[k].match.kind, "limit"), "RETURN")
    BY DEF FloodDropGuarded
  <2>1. CASE k \in DOMAIN chain
    <3>1. PICK j \in DOMAIN chain :
            j < k /\ chain[j] = Rule(Match(chain[k].match.kind, "limit"), "RETURN")
      BY <1>4, <2>1 DEF EnablingInv, FloodDropGuarded
    <3> QED BY <1>4, <2>1, <3>1
  <2>2. CASE k = Len(chain) + 1
    <3>1. /\ line[p] - 1 \in 1..PolicyLen
          /\ PolicyRule(line[p] - 1) = Rule(Match(chain'[k].match.kind, "limit"), "RETURN")
      <4>1. PICK i \in 1..PolicyLen : i = line[p] + 1
        BY <1>1
      <4>2. PolicyRule(i) = chain'[k]
        BY <1>4, <2>2, <4>1 DEF r
      <4>3. /\ i - 2 \in 1..PolicyLen
            /\ PolicyRule(i - 2) = Rule(Match(PolicyRule(i).match.kind, "limit"), "RETURN")
        BY <4>2, PolicyGuards
      <4>4. i - 2 = line[p] - 1
        BY <1>0, <4>1
      <4> QED BY <4>2, <4>3, <4>4
    <3>2. PICK j \in DOMAIN chain : chain[j] = PolicyRule(line[p] - 1)
      BY <1>0, <3>1 DEF EnablingInv
    <3> QED BY <1>4, <2>2, <3>1, <3>2
  <2> QED BY <1>4, <2>1, <2>2
<1> QED BY <1>0, <1>3, <1>5, <1>6, <1>7, <1>8 DEF EnablingInv, TypeOK

\* However many enables overlap, with reboots in between, no DROP of a flood
\* precedes its RETURN as long as nobody calls disable meanwhile.
THEOREM EnablesGuarded == Ops = {"enable"} => (Spec => []FloodDropGuarded)
<1> SUFFICES ASSUME Ops = {"enable"} PROVE Spec => []FloodDropGuarded
  OBVIOUS
<1>1. BootTable \in TableType /\ "INPUT" \in BootTable.known /\ BootTable.rules[CHAIN] = <<>>
  BY PolicyFacts DEF BootTable, EmptyTable, TableType
<1>2. Init => EnablingInv
  BY <1>1, PolicyFacts DEF Init, EnablingInv, TypeOK, TableType, Labels, FloodDropGuarded, chain
<1>3. EnablingInv /\ [Next]_vars => EnablingInv'
  <2> SUFFICES ASSUME EnablingInv, [Next]_vars PROVE EnablingInv'
    OBVIOUS
  <2>1. ASSUME NEW p \in Procs, NEW op \in Ops, Call(p, op) PROVE EnablingInv'
    BY <2>1 DEF Call, Goto, EnablingInv, TypeOK, Labels, FloodDropGuarded, chain
  <2>2. ASSUME NEW p \in Procs, Step(p) PROVE EnablingInv'
    <3>1. ~(Unhook(p) \/ Empty(p) \/ RemoveChain(p))
      BY DEF Unhook, Empty, RemoveChain, EnablingInv
    <3> QED BY <2>2, <3>1, EnablingHookOK, EnablingAppendOK DEF Step
  <2>3. CASE Reboot
    BY <1>1, <2>3, PolicyFacts
       DEF Reboot, EnablingInv, TypeOK, TableType, Labels, FloodDropGuarded, chain
  <2>4. CASE UNCHANGED vars
    BY <2>4 DEF vars, EnablingInv, TypeOK, FloodDropGuarded, chain
  <2> QED BY <2>1, <2>2, <2>3, <2>4 DEF Next
<1>4. EnablingInv => FloodDropGuarded
  BY DEF EnablingInv
<1> QED BY <1>2, <1>3, <1>4, PTL DEF Spec

-----------------------------------------------------------------------------
(* Types, with any number of runs at the same time. *)

\* Appending to, deleting from and flushing a chain leave rules of the script.
LEMMA CommandsKeepRules ==
  ASSUME NEW t \in TableType, NEW c \in {"INPUT", CHAIN}, NEW r \in Rules
  PROVE  /\ AppendRule(t, c, r) \in TableType /\ AppendRule(t, c, r).known = t.known
         /\ DeleteRule(t, c, r) \in TableType /\ DeleteRule(t, c, r).known = t.known
         /\ FlushChain(t, c) \in TableType /\ FlushChain(t, c).known = t.known
<1>1. t.rules[c] \in Seq(Rules)
  BY DEF TableType
<1>2. ASSUME NEW s \in Seq(Rules)
      PROVE  /\ [t EXCEPT !.rules[c] = s] \in TableType
             /\ [t EXCEPT !.rules[c] = s].known = t.known
  BY DEF TableType
<1>3. AppendRule(t, c, r) \in TableType /\ AppendRule(t, c, r).known = t.known
  <2>1. Append(t.rules[c], r) \in Seq(Rules)
    BY <1>1
  <2> QED BY <1>2, <2>1 DEF AppendRule
<1>4. ASSUME NEW n \in 1..Len(t.rules[c])
      PROVE  RemoveAt(t.rules[c], n) \in Seq(Rules)
  <2>1. PICK s \in Seq(Rules) : s = t.rules[c]
    BY <1>1
  <2>2. /\ SubSeq(s, 1, n - 1) \in Seq(Rules)
        /\ SubSeq(s, n + 1, Len(s)) \in Seq(Rules)
    BY <2>1
  <2> QED BY <2>1, <2>2 DEF RemoveAt
<1>5. \A n : DeleteLine(t, c, n) \in TableType /\ DeleteLine(t, c, n).known = t.known
  BY <1>2, <1>4 DEF DeleteLine, HasLine
<1>6. DeleteRule(t, c, r) \in TableType /\ DeleteRule(t, c, r).known = t.known
  BY <1>5 DEF DeleteRule
<1>7. FlushChain(t, c) \in TableType /\ FlushChain(t, c).known = t.known
  <2>1. <<>> \in Seq(Rules)
    OBVIOUS
  <2> QED BY <1>2, <2>1 DEF FlushChain
<1> QED BY <1>3, <1>6, <1>7

\* Every command of every run keeps the types.
LEMMA TypeStep ==
  ASSUME TypeOK, [Next]_vars
  PROVE  TypeOK'
<1>0. table \in TableType /\ "INPUT" \in table.known /\ 0 \in 0..(PolicyLen - 1)
  BY PolicyFacts DEF TypeOK, TableType
<1>1. ASSUME NEW p \in Procs, NEW op \in Ops, Call(p, op) PROVE TypeOK'
  BY <1>1 DEF Call, Goto, TypeOK, Labels
<1>2. ASSUME NEW p \in Procs, MakeChain(p) PROVE TypeOK'
  <2>1. table' \in TableType /\ table'.known = table.known \cup {CHAIN}
    BY <1>0, <1>2 DEF MakeChain, NewChain, TableType
  <2> QED BY <1>2, <2>1 DEF MakeChain, Goto, TypeOK, TableType, Labels
<1>3. ASSUME NEW p \in Procs, CheckJump(p) PROVE TypeOK'
  BY <1>3 DEF CheckJump, Goto, TypeOK, Labels
<1>4. ASSUME NEW p \in Procs, Hook(p) \/ Unhook(p) PROVE TypeOK'
  <2>1. table' \in TableType /\ table'.known = table.known
    BY <1>0, <1>4, PolicyFacts, CommandsKeepRules DEF Hook, Unhook
  <2> QED BY <1>4, <2>1 DEF Hook, Unhook, Goto, TypeOK, TableType, Labels
<1>5. ASSUME NEW p \in Procs, AppendPolicyRule(p) PROVE TypeOK'
  <2>1. line[p] \in 0..(PolicyLen - 1) /\ line[p] + 1 \in 1..PolicyLen
    BY PolicyFacts DEF TypeOK
  <2>2. PolicyRule(line[p] + 1) \in Rules
    BY <2>1, PolicyFacts
  <2>3. table' \in TableType /\ table'.known = table.known
    BY <1>0, <1>5, <2>2, CommandsKeepRules DEF AppendPolicyRule
  <2>4. line' \in [Procs -> 0..(PolicyLen - 1)]
    BY <1>0, <1>5, <2>1, PolicyFacts DEF AppendPolicyRule, TypeOK
  <2>5. pc' \in [Procs -> Labels]
    BY <1>5 DEF AppendPolicyRule, Goto, TypeOK, Labels
  <2> QED BY <2>3, <2>4, <2>5 DEF TypeOK, TableType
<1>6. ASSUME NEW p \in Procs, Empty(p) PROVE TypeOK'
  <2>1. table' \in TableType /\ table'.known = table.known
    BY <1>0, <1>6, PolicyFacts, CommandsKeepRules DEF Empty
  <2> QED BY <1>6, <2>1 DEF Empty, Goto, TypeOK, TableType, Labels
<1>7. ASSUME NEW p \in Procs, RemoveChain(p) PROVE TypeOK'
  <2>1. table' \in TableType /\ "INPUT" \in table'.known
    BY <1>0, <1>7, PolicyFacts DEF RemoveChain, DeleteChain, TableType
  <2> QED BY <1>7, <2>1 DEF RemoveChain, Goto, TypeOK, TableType, Labels
<1>8. CASE Reboot
  BY <1>0, <1>8, PolicyFacts DEF Reboot, BootTable, EmptyTable, TypeOK, Labels
<1>9. CASE UNCHANGED vars
  BY <1>9 DEF vars, TypeOK
<1> QED BY <1>1, <1>2, <1>3, <1>4, <1>5, <1>6, <1>7, <1>8, <1>9 DEF Next, Step

\* ddos_protect.sh: however many runs overlap, only rules of the script are in the
\* two chains, INPUT is never removed, and no run counts past the policy.
THEOREM TypeCorrect == Spec => []TypeOK
<1>1. Init => TypeOK
  BY BootOK DEF SerialInv
<1>2. TypeOK /\ [Next]_vars => TypeOK'
  BY TypeStep
<1> QED BY <1>1, <1>2, PTL DEF Spec
=============================================================================
