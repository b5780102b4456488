-------------------------- MODULE RuleAdminProofs ---------------------------
(***************************************************************************)
(* Facts about the FORWARD chain for any number of requests, addresses and *)
(* rules: overlapping quarantine updates leave the last one in force and   *)
(* no more rules for an address than there are requests, and               *)
(* fixiptables.sh, while it runs alone, finds every rule at the line it    *)
(* was given for it and deletes exactly the ticked ones.                   *)
(***************************************************************************)
EXTENDS RuleAdmin, WellFoundedInduction, FiniteSetTheorems, TLAPS

USE AdminAssumption

-----------------------------------------------------------------------------
(* Facts about chains.                                                     *)

\* A set of line numbers that is not empty has a smallest one.
LEMMA LeastLine ==
  ASSUME NEW S, S \subseteq Nat, S # {}
  PROVE  \E k \in S : \A j \in S : k <= j
<1>1. PICK x \in S : \A y \in S : ~(<<y, x>> \in OpToRel(<, Nat))
  BY NatLessThanWellFounded, WFMin
<1>2. \A y \in S : ~(y < x)
  BY <1>1 DEF OpToRel
<1> QED BY <1>2

\* Deleting line i keeps the rules before it and moves the others up by one.
LEMMA RemoveAtFacts ==
  ASSUME NEW S, NEW s \in Seq(S), NEW i \in 1..Len(s)
  PROVE  /\ RemoveAt(s, i) \in Seq(S)
         /\ Len(RemoveAt(s, i)) = Len(s) - 1
         /\ \A j \in 1..(Len(s) - 1) :
              RemoveAt(s, i)[j] = IF j < i THEN s[j] ELSE s[j + 1]
<1> DEFINE a == SubSeq(s, 1, i - 1)
           b == SubSeq(s, i + 1, Len(s))
<1>1. a \in Seq(S) /\ Len(a) = i - 1 /\ \A j \in 1..(i - 1) : a[j] = s[j]
  OBVIOUS
<1>2. b \in Seq(S) /\ Len(b) = Len(s) - i /\ \A j \in 1..(Len(s) - i) : b[j] = s[j + i]
  OBVIOUS
<1> HIDE DEF a, b
<1>3. /\ a \o b \in Seq(S)
      /\ Len(a \o b) = Len(s) - 1
      /\ \A j \in 1..(Len(s) - 1) :
           (a \o b)[j] = IF j <= Len(a) THEN a[j] ELSE b[j - Len(a)]
  <2> a \in Seq(S) /\ b \in Seq(S)
    BY <1>1, <1>2
  <2>1. a \o b \in Seq(S) /\ Len(a \o b) = Len(a) + Len(b)
    OBVIOUS
  <2>2. \A j \in 1..(Len(a) + Len(b)) :
           (a \o b)[j] = IF j <= Len(a) THEN a[j] ELSE b[j - Len(a)]
    BY <1>1, <1>2
  <2>3. Len(a) + Len(b) = Len(s) - 1
    BY <1>1, <1>2
  <2> QED BY <2>1, <2>2, <2>3
<1>4. RemoveAt(s, i) = a \o b
  BY DEF RemoveAt, a, b
<1>5. ASSUME NEW j \in 1..(Len(s) - 1)
      PROVE  RemoveAt(s, i)[j] = IF j < i THEN s[j] ELSE s[j + 1]
  <2>1. CASE j < i
    BY <1>1, <1>3, <1>4, <2>1
  <2>2. CASE ~(j < i)
    <3>1. j - Len(a) \in 1..(Len(s) - i) /\ (j - Len(a)) + i = j + 1
      BY <1>1, <2>2
    <3>2. b[j - Len(a)] = s[j + 1]
      BY <1>2, <3>1
    <3> QED BY <1>1, <1>3, <1>4, <2>2, <3>2
  <2> QED BY <2>1, <2>2
<1> QED BY <1>3, <1>4, <1>5

\* The first rule of s that matches v is one for v and has the target x.
Decides(s, v, x) ==
  \E k \in 1..Len(s) :
    /\ s[k].match = v
    /\ s[k].target = x
    /\ \A j \in 1..Len(s) : j < k => s[j].match \notin {v, AnyMatch}

\* Deciding is what the kernel's walk through the chain comes to.
LEMMA DecidesVerdict ==
  ASSUME NEW s \in Seq(Rules), NEW v, NEW x, Decides(s, v, x)
  PROVE  ChainVerdict(s, v) = x
<1>1. PICK k \in 1..Len(s) :
        /\ s[k].match = v
        /\ s[k].target = x
        /\ \A j \in 1..Len(s) : j < k => s[j].match \notin {v, AnyMatch}
  BY DEF Decides
<1>2. Hits(s, v) = {j \in 1..Len(s) : s[j].match \in {v, AnyMatch}}
  BY DEF Hits
<1>3. k \in Hits(s, v) /\ \A j \in Hits(s, v) : k <= j
  BY <1>1, <1>2
<1>4. \A l \in Hits(s, v) : (\A j \in Hits(s, v) : l <= j) => l = k
  BY <1>2, <1>3
<1>5. (CHOOSE l \in Hits(s, v) : \A j \in Hits(s, v) : l <= j) = k
  BY <1>3, <1>4
<1> QED BY <1>1, <1>3, <1>5 DEF ChainVerdict

\* Any rule that is not for v can be deleted.
LEMMA RemoveOther ==
  ASSUME NEW s \in Seq(Rules), NEW v, NEW x, Decides(s, v, x),
         NEW i \in 1..Len(s), s[i].match # v
  PROVE  Decides(RemoveAt(s, i), v, x)
<1> DEFINE u == RemoveAt(s, i)
<1>1. PICK k \in 1..Len(s) :
        /\ s[k].match = v
        /\ s[k].target = x
        /\ \A j \in 1..Len(s) : j < k => s[j].match \notin {v, AnyMatch}
  BY DEF Decides
<1>2. /\ Len(u) = Len(s) - 1
      /\ \A j \in 1..(Len(s) - 1) : u[j] = IF j < i THEN s[j] ELSE s[j + 1]
  BY RemoveAtFacts
<1> HIDE DEF u
<1>3. k # i
  BY <1>1
<1>4. CASE k < i
  <2>1. k \in 1..Len(u) /\ u[k] = s[k]
    BY <1>2, <1>4
  <2>2. \A j \in 1..Len(u) : j < k => u[j] = s[j]
    BY <1>2, <1>4
  <2>3. \A j \in 1..Len(u) : j < k => u[j].match \notin {v, AnyMatch}
    BY <1>1, <1>2, <2>2
  <2> QED BY <1>1, <2>1, <2>3 DEF Decides, u
<1>5. CASE k > i
  <2>1. k - 1 \in 1..Len(u) /\ u[k - 1] = s[k]
    BY <1>2, <1>5
  <2>2. ASSUME NEW j \in 1..Len(u), j < k - 1 PROVE u[j].match \notin {v, AnyMatch}
    <3>1. u[j] = s[j] \/ u[j] = s[j + 1]
      BY <1>2
    <3>2. j \in 1..Len(s) /\ j < k /\ j + 1 \in 1..Len(s) /\ j + 1 < k
      BY <1>2, <2>2
    <3> QED BY <1>1, <3>1, <3>2
  <2> QED BY <1>1, <2>1, <2>2 DEF Decides, u
<1> QED BY <1>3, <1>4, <1>5

\* A rule can be appended.
LEMMA AppendKeeps ==
  ASSUME NEW s \in Seq(Rules), NEW r \in Rules, NEW v, NEW x, Decides(s, v, x)
  PROVE  Decides(Append(s, r), v, x)
<1>1. /\ Len(Append(s, r)) = Len(s) + 1
      /\ \A j \in 1..Len(s) : Append(s, r)[j] = s[j]
  OBVIOUS
<1>2. PICK k \in 1..Len(s) :
        /\ s[k].match = v
        /\ s[k].target = x
        /\ \A j \in 1..Len(s) : j < k => s[j].match \notin {v, AnyMatch}
  BY DEF Decides
<1>3. k \in 1..Len(Append(s, r)) /\ Append(s, r)[k] = s[k]
  BY <1>1
<1>4. \A j \in 1..Len(Append(s, r)) : j < k => Append(s, r)[j].match \notin {v, AnyMatch}
  BY <1>1, <1>2
<1> QED BY <1>2, <1>3, <1>4 DEF Decides

\* The rule at the head decides for its own address and for no other.
LEMMA InsertDecides ==
  ASSUME NEW s \in Seq(Rules), NEW r \in Rules
  PROVE  /\ Decides(<<r>> \o s, r.match, r.target)
         /\ \A v, x : r.match \notin {v, AnyMatch} /\ Decides(s, v, x)
                        => Decides(<<r>> \o s, v, x)
<1> DEFINE u == <<r>> \o s
<1>1. /\ Len(u) = Len(s) + 1
      /\ u[1] = r
      /\ \A j \in 2..(Len(s) + 1) : u[j] = s[j - 1]
  OBVIOUS
<1> HIDE DEF u
<1>2. Decides(u, r.match, r.target)
  <2>1. 1 \in 1..Len(u) /\ \A j \in 1..Len(u) : ~(j < 1)
    BY <1>1
  <2> QED BY <1>1, <2>1 DEF Decides
<1>3. ASSUME NEW v, NEW x, r.match \notin {v, AnyMatch}, Decides(s, v, x)
      PROVE  Decides(u, v, x)
  <2>1. PICK k \in 1..Len(s) :
          /\ s[k].match = v
          /\ s[k].target = x
          /\ \A j \in 1..Len(s) : j < k => s[j].match \notin {v, AnyMatch}
    BY <1>3 DEF Decides
  <2>2. k + 1 \in 1..Len(u) /\ u[k + 1] = s[k]
    BY <1>1
  <2>3. ASSUME NEW j \in 1..Len(u), j < k + 1 PROVE u[j].match \notin {v, AnyMatch}
    <3>1. CASE j = 1
      BY <1>1, <1>3, <3>1
    <3>2. CASE j # 1
      <4>1. j - 1 \in 1..Len(s) /\ j - 1 < k /\ u[j] = s[j - 1]
        BY <1>1, <2>3, <3>2
      <4> QED BY <2>1, <4>1
    <3> QED BY <3>1, <3>2
  <2> QED BY <2>1, <2>2, <2>3 DEF Decides
<1> QED BY <1>2, <1>3 DEF u

-----------------------------------------------------------------------------
(* What the commands leave of the table.                                   *)

TableType == [known : {{"FORWARD"}}, rules : [{"FORWARD"} -> Seq(Rules)]]

\* The chain of a table is a sequence of rules ...
LEMMA ChainType ==
  ASSUME NEW t \in TableType
  PROVE  t.rules["FORWARD"] \in Seq(Rules)
  BY DEF TableType

\* ... and any sequence of rules can take its place.
LEMMA TableFacts ==
  ASSUME NEW t \in TableType, NEW s \in Seq(Rules)
  PROVE  /\ [t EXCEPT !.rules["FORWARD"] = s] \in TableType
         /\ [t EXCEPT !.rules["FORWARD"] = s].rules["FORWARD"] = s
  BY DEF TableType

\* iptables -A and -I of a rule with a verdict succeed.
LEMMA AddedRule ==
  ASSUME NEW t \in TableType, NEW r \in Rules
  PROVE  /\ AppendRule(t, "FORWARD", r) \in TableType
         /\ AppendRule(t, "FORWARD", r).rules["FORWARD"] = Append(t.rules["FORWARD"], r)
         /\ InsertRule(t, "FORWARD", r) \in TableType
         /\ InsertRule(t, "FORWARD", r).rules["FORWARD"] = <<r>> \o t.rules["FORWARD"]
<1> DEFINE s == t.rules["FORWARD"]
<1>1. "FORWARD" \in t.known /\ TargetExists(t, r)
  BY DEF TableType, TargetExists, Rules, Actions, Verdicts
<1>2. s \in Seq(Rules)
  BY ChainType
<1>3. Append(s, r) \in Seq(Rules) /\ <<r>> \o s \in Seq(Rules)
  BY <1>2
<1>4. /\ AppendRule(t, "FORWARD", r) = [t EXCEPT !.rules["FORWARD"] = Append(s, r)]
      /\ InsertRule(t, "FORWARD", r) = [t EXCEPT !.rules["FORWARD"] = <<r>> \o s]
  BY <1>1 DEF AppendRule, InsertRule
<1> QED BY <1>3, <1>4, TableFacts

\* iptables -D n deletes line n of the chain.
LEMMA DeletedLine ==
  ASSUME NEW t \in TableType, NEW i \in 1..Len(t.rules["FORWARD"])
  PROVE  /\ DeleteLine(t, "FORWARD", i) \in TableType
         /\ DeleteLine(t, "FORWARD", i).rules["FORWARD"] = RemoveAt(t.rules["FORWARD"], i)
<1>1. HasLine(t, "FORWARD", i)
  BY DEF HasLine, TableType
<1>2. t.rules["FORWARD"] \in Seq(Rules)
  BY ChainType
<1>3. RemoveAt(t.rules["FORWARD"], i) \in Seq(Rules)
  BY <1>2, RemoveAtFacts
<1> QED BY <1>1, <1>3, TableFacts DEF DeleteLine

\* iptables -D r deletes a rule equal to r, or none.
LEMMA DeletedRule ==
  ASSUME NEW t \in TableType, NEW r \in Rules
  PROVE  LET u == DeleteRule(t, "FORWARD", r)
         IN  \/ u = t /\ \A k \in 1..Len(t.rules["FORWARD"]) : t.rules["FORWARD"][k] # r
             \/ /\ u \in TableType
                /\ \E i \in 1..Len(t.rules["FORWARD"]) :
                     /\ t.rules["FORWARD"][i] = r
                     /\ u.rules["FORWARD"] = RemoveAt(t.rules["FORWARD"], i)
<1> DEFINE s == t.rules["FORWARD"]
           E == {k \in DOMAIN s : s[k] = r}
<1>1. CASE HasRule(t, "FORWARD", r)
  <2>1. s \in Seq(Rules) /\ DOMAIN s = 1..Len(s) /\ Len(s) \in Nat
    BY ChainType
  <2>2. E # {} /\ E \subseteq Nat
    BY <1>1, <2>1 DEF HasRule
  <2>3. \E k \in E : \A j \in E : k <= j
    BY <2>2, LeastLine
  <2>4. \E k \in DOMAIN s : s[k] = r /\ \A j \in DOMAIN s : s[j] = r => k <= j
    BY <2>3
  <2>5. FirstEqual(s, r) \in DOMAIN s /\ s[FirstEqual(s, r)] = r
    BY <2>4 DEF FirstEqual
  <2>6. DeleteRule(t, "FORWARD", r) = DeleteLine(t, "FORWARD", FirstEqual(s, r))
    BY <1>1 DEF DeleteRule
  <2> QED BY <2>1, <2>5, <2>6, DeletedLine
<1>2. CASE ~HasRule(t, "FORWARD", r)
  <2>1. "FORWARD" \in t.known /\ TargetExists(t, r) /\ DOMAIN s = 1..Len(s)
    BY ChainType DEF TableType, TargetExists, Rules, Actions, Verdicts
  <2> QED BY <1>2, <2>1 DEF DeleteRule, HasRule
<1> QED BY <1>1, <1>2

\* iptables -D n with any n.
LEMMA DeletedAnyLine ==
  ASSUME NEW t \in TableType, NEW i \in Nat
  PROVE  LET u == DeleteLine(t, "FORWARD", i)
         IN  /\ u \in TableType
             /\ \/ i \in 1..Len(t.rules["FORWARD"]) /\ u.rules["FORWARD"] = RemoveAt(t.rules["FORWARD"], i)
                \/ i \notin 1..Len(t.rules["FORWARD"]) /\ u = t
<1>1. CASE i \in 1..Len(t.rules["FORWARD"])
  BY <1>1, DeletedLine
<1>2. CASE i \notin 1..Len(t.rules["FORWARD"])
  BY <1>2 DEF DeleteLine, HasLine
<1> QED BY <1>1, <1>2

\* The rule of a quarantine update.
LEMMA MacRule ==
  ASSUME NEW m \in Macs, NEW a \in Actions
  PROVE  Rule(m, a) \in Rules /\ Rule(m, a).match = m /\ Rule(m, a).target = a
  BY DEF Rule, Rules

-----------------------------------------------------------------------------
(* The inductive invariant.                                                *)

Types ==
  /\ table \in TableType
  /\ pc \in [Procs -> {"idle", "delAccept", "delDrop", "insert", "fix"}]
  /\ mac \in [Procs -> Macs \cup {NoMac}]
  /\ action \in [Procs -> Actions \cup {"none"}]
  /\ \A p \in Procs :
       pc[p] \in {"delAccept", "delDrop", "insert"} => mac[p] \in Macs /\ action[p] \in Actions
  /\ todo \in [Procs -> SUBSET Nat]
  /\ asked \in [Procs -> SUBSET Nat]
  /\ start \in [Procs -> Seq(Rules)]
  /\ alone \in [Procs -> BOOLEAN]
  /\ last \in [Macs -> Actions \cup {"none"}]

LastDecides ==
  \A m \in Macs : last[m] # "none" /\ Updating(m) = {} => Decides(chain, m, last[m])

\* A request that is alone is the only one under way.
AloneOK == \A p, q \in Procs : alone[p] /\ p # q => pc[q] = "idle"

Inv == Types /\ LastDecides /\ AloneOK /\ PendingLinesStable

LEMMA ChainSeq ==
  ASSUME Types
  PROVE  chain \in Seq(Rules) /\ DOMAIN chain = 1..Len(chain) /\ Len(chain) \in Nat
  BY ChainType DEF chain, Types

\* A script that is not fixiptables.sh disturbs no fixiptables.sh that is alone.
LEMMA OtherScript ==
  ASSUME Inv, NEW p \in Procs, pc[p] \in {"delAccept", "delDrop", "insert"},
         alone' = alone, NEW l \in {"idle", "delDrop", "insert"}, pc' = [pc EXCEPT ![p] = l]
  PROVE  AloneOK' /\ PendingLinesStable'
<1>1. \A q \in Procs : q # p => ~alone[q]
  BY DEF Inv, AloneOK
<1>2. AloneOK'
  BY <1>1 DEF Inv, Types, AloneOK
<1>3. \A q \in Procs : ~(pc'[q] = "fix" /\ alone'[q])
  BY <1>1 DEF Inv, Types
<1> QED BY <1>2, <1>3 DEF PendingLinesStable

\* Nor does one that arrives: it ends the other one's being alone.
LEMMA Arrival ==
  ASSUME Inv, NEW p \in Procs, NEW lines \in SUBSET Nat, Arrives(p, lines)
  PROVE  /\ alone' \in [Procs -> BOOLEAN]
         /\ asked' \in [Procs -> SUBSET Nat] /\ start' \in [Procs -> Seq(Rules)]
         /\ pc[p] = "idle"
         /\ \A q \in Procs : alone'[q] =>
              /\ q = p /\ asked'[p] = lines /\ (lines # {} => start'[p] = chain)
              /\ \A r \in Procs : pc[r] = "idle"
<1>1. chain \in Seq(Rules) /\ <<>> \in Seq(Rules)
  BY ChainSeq DEF Inv
<1> QED BY <1>1 DEF Arrives

-----------------------------------------------------------------------------
(* One lemma for each action.                                              *)

LEMMA UpdateMacOK ==
  ASSUME Inv, NEW p \in Procs, NEW m \in Macs, NEW a \in Actions, UpdateMac(p, m, a)
  PROVE  Inv'
<1>1. <<>> \in Seq(Rules)
  OBVIOUS
<1>2. /\ pc' = [pc EXCEPT ![p] = "delAccept"]
      /\ mac' = [mac EXCEPT ![p] = m] /\ action' = [action EXCEPT ![p] = a]
      /\ UNCHANGED <<table, todo, last>>
  BY DEF UpdateMac, Goto
<1>3. /\ alone' \in [Procs -> BOOLEAN]
      /\ asked' \in [Procs -> SUBSET Nat] /\ start' \in [Procs -> Seq(Rules)]
      /\ pc[p] = "idle"
      /\ \A q \in Procs : alone'[q] => q = p /\ \A r \in Procs : pc[r] = "idle"
  BY <1>1, Arrival DEF UpdateMac
<1>4. Types'
  BY <1>2, <1>3 DEF Inv, Types
<1>5. \A n \in Macs : Updating(n)' = Updating(n)
  BY <1>2, <1>3 DEF Updating, Inv, Types
<1>6. LastDecides'
  BY <1>2, <1>5 DEF Inv, LastDecides, chain
<1>7. AloneOK' /\ PendingLinesStable'
  BY <1>2, <1>3 DEF Inv, Types, AloneOK, PendingLinesStable
<1> QED BY <1>4, <1>6, <1>7 DEF Inv

\* An update takes rules of its own address only, and is under way while its
\* address has none of its own.
LEMMA DeleteOK ==
  ASSUME Inv, NEW p \in Procs, DeleteAccept(p) \/ DeleteDrop(p)
  PROVE  Inv'
<1>1. PICK a \in Actions, l \in {"delDrop", "insert"} :
        /\ table' = DeleteRule(table, "FORWARD", Rule(mac[p], a))
        /\ pc' = [pc EXCEPT ![p] = l]
        /\ UNCHANGED <<mac, action, todo, asked, start, alone, last>>
        /\ pc[p] \in {"delAccept", "delDrop", "insert"}
  BY DEF DeleteAccept, DeleteDrop, Goto, Actions
<1>2. mac[p] \in Macs
  BY <1>1 DEF Inv, Types
<1>3. Rule(mac[p], a) \in Rules /\ Rule(mac[p], a).match = mac[p]
  BY <1>2, MacRule
<1>4. \/ table' = table
      \/ /\ table' \in TableType
         /\ \E i \in 1..Len(chain) : chain[i] = Rule(mac[p], a) /\ chain' = RemoveAt(chain, i)
  BY <1>1, <1>3, DeletedRule DEF Inv, Types, chain
<1>5. Types'
  BY <1>1, <1>4 DEF Inv, Types
<1>6. ASSUME NEW m \in Macs, last'[m] # "none", Updating(m)' = {}
      PROVE  Decides(chain', m, last'[m])
  <2>1. p \notin Updating(m)'
    BY <1>6
  <2>2. m # mac[p]
    BY <1>1, <2>1 DEF Updating, Inv, Types
  <2>3. Updating(m) = {}
    BY <1>1, <1>6, <2>2 DEF Updating, Inv, Types
  <2>4. Decides(chain, m, last[m])
    BY <1>1, <1>6, <2>3 DEF Inv, LastDecides
  <2>5. chain \in Seq(Rules)
    BY ChainSeq DEF Inv
  <2>6. CASE table' = table
    BY <1>1, <2>4, <2>6 DEF chain
  <2>7. CASE table' # table
    <3>1. PICK i \in 1..Len(chain) :
            chain[i] = Rule(mac[p], a) /\ chain' = RemoveAt(chain, i)
      BY <1>4, <2>7
    <3>2. chain[i].match # m
      BY <1>3, <2>2, <3>1
    <3> QED BY <1>1, <2>4, <2>5, <3>1, <3>2, RemoveOther
  <2> QED BY <2>6, <2>7
<1>7. LastDecides'
  BY <1>6 DEF LastDecides
<1>8. AloneOK' /\ PendingLinesStable'
  BY <1>1, OtherScript
<1> QED BY <1>5, <1>7, <1>8 DEF Inv

\* The rule an update inserts decides for its address.
LEMMA InsertOK ==
  ASSUME Inv, NEW p \in Procs, InsertAction(p)
  PROVE  Inv'
<1> DEFINE r == Rule(mac[p], action[p])
<1>1. mac[p] \in Macs /\ action[p] \in Actions /\ pc[p] = "insert"
  BY DEF InsertAction, Inv, Types
<1>2. r \in Rules /\ r.match = mac[p] /\ r.target = action[p]
  BY <1>1, MacRule
<1>3. /\ table' = InsertRule(table, "FORWARD", r)
      /\ last' = [last EXCEPT ![mac[p]] = action[p]]
      /\ mac' = [mac EXCEPT ![p] = NoMac]
      /\ action' = [action EXCEPT ![p] = "none"]
      /\ pc' = [pc EXCEPT ![p] = "idle"]
      /\ UNCHANGED <<todo, asked, start, alone>>
  BY DEF InsertAction, Goto
<1> HIDE DEF r
<1>4. table' \in TableType /\ chain' = <<r>> \o chain
  BY <1>2, <1>3, AddedRule DEF chain, Inv, Types
<1>5. Types'
  BY <1>1, <1>3, <1>4 DEF Inv, Types
<1>6. chain \in Seq(Rules)
  BY ChainSeq DEF Inv
<1>7. ASSUME NEW m \in Macs, last'[m] # "none", Updating(m)' = {}
      PROVE  Decides(chain', m, last'[m])
  <2>1. CASE m = mac[p]
    <3>1. last'[m] = action[p]
      BY <1>3, <2>1 DEF Inv, Types
    <3> QED BY <1>2, <1>4, <1>6, <2>1, <3>1, InsertDecides
  <2>2. CASE m # mac[p]
    <3>1. last'[m] = last[m]
      BY <1>3, <2>2 DEF Inv, Types
    <3>2. Updating(m) = {}
      BY <1>3, <1>7, <2>2 DEF Updating, Inv, Types
    <3>3. Decides(chain, m, last[m])
      BY <1>7, <3>1, <3>2 DEF Inv, LastDecides
    <3>4. r.match \notin {m, AnyMatch}
      BY <1>1, <1>2, <2>2
    <3> QED BY <1>2, <1>4, <1>6, <3>1, <3>3, <3>4, InsertDecides
  <2> QED BY <2>1, <2>2
<1>8. LastDecides'
  BY <1>7 DEF LastDecides
<1>9. AloneOK' /\ PendingLinesStable'
  BY <1>1, <1>3, OtherScript
<1> QED BY <1>5, <1>8, <1>9 DEF Inv

\* An added rule is the last of the chain.
LEMMA AddOK ==
  ASSUME Inv, NEW p \in Procs, NEW r \in Extra, AddRule(p, r)
  PROVE  Inv'
<1>1. r \in Rules /\ <<>> \in Seq(Rules)
  BY DEF Rules, Actions
<1>2. table' \in TableType /\ chain' = Append(chain, r)
  BY <1>1, AddedRule DEF AddRule, chain, Inv, Types
<1>3. UNCHANGED <<pc, mac, action, todo, last>>
  BY DEF AddRule
<1>4. /\ alone' \in [Procs -> BOOLEAN]
      /\ asked' \in [Procs -> SUBSET Nat] /\ start' \in [Procs -> Seq(Rules)]
      /\ \A q \in Procs : alone'[q] => q = p /\ \A x \in Procs : pc[x] = "idle"
  BY <1>1, Arrival DEF AddRule
<1>5. chain \in Seq(Rules)
  BY ChainSeq DEF Inv
<1>6. Types'
  BY <1>2, <1>3, <1>4 DEF Inv, Types
<1>7. \A m \in Macs : Updating(m)' = Updating(m)
  BY <1>3 DEF Updating
<1>8. LastDecides'
  BY <1>1, <1>2, <1>3, <1>5, <1>7, AppendKeeps DEF LastDecides, Inv
<1>9. AloneOK' /\ PendingLinesStable'
  BY <1>3, <1>4 DEF AloneOK, PendingLinesStable
<1> QED BY <1>6, <1>8, <1>9 DEF Inv

\* The lines ticked on the page are lines of the chain as it is.
LEMMA FixRulesOK ==
  ASSUME Inv, NEW p \in Procs, NEW lines \in SUBSET (1..Len(chain)), FixRules(p, lines)
  PROVE  Inv'
<1>1. chain \in Seq(Rules) /\ DOMAIN chain = 1..Len(chain) /\ Len(chain) \in Nat /\ <<>> \in Seq(Rules)
  BY ChainSeq DEF Inv
<1>2. /\ todo' = [todo EXCEPT ![p] = lines]
      /\ pc' = [pc EXCEPT ![p] = "fix"]
      /\ UNCHANGED <<table, mac, action, last>>
  BY DEF FixRules, Goto
<1>3. /\ alone' \in [Procs -> BOOLEAN]
      /\ asked' \in [Procs -> SUBSET Nat] /\ start' \in [Procs -> Seq(Rules)]
      /\ pc[p] = "idle"
      /\ \A q \in Procs : alone'[q] => q = p /\ start'[p] = chain /\ \A r \in Procs : pc[r] = "idle"
  BY <1>1, Arrival DEF FixRules
<1>4. lines \in SUBSET Nat
  BY <1>1
<1>5. chain' = chain
  BY <1>2 DEF chain
<1>6. Types'
  BY <1>2, <1>3, <1>4 DEF Inv, Types
<1>7. \A m \in Macs : Updating(m)' = Updating(m)
  BY <1>2, <1>3 DEF Updating, Inv, Types
<1>8. LastDecides'
  BY <1>2, <1>5, <1>7 DEF LastDecides, Inv
<1>9. AloneOK'
  BY <1>2, <1>3 DEF Inv, Types, AloneOK
<1>10. PendingLinesStable'
  BY <1>1, <1>2, <1>3, <1>5 DEF Inv, Types, PendingLinesStable
<1> QED BY <1>6, <1>8, <1>9, <1>10 DEF Inv

\* Deleting the largest pending line leaves the others where they are, and an
\* address whose rule was not in that line keeps its verdict.
LEMMA DeleteLargestOK ==
  ASSUME Inv, NEW p \in Procs, DeleteLargest(p)
  PROVE  Inv'
<1>1. PICK i \in todo[p] :
        /\ \A j \in todo[p] : j <= i
        /\ table' = DeleteLine(table, "FORWARD", i)
        /\ todo' = [todo EXCEPT ![p] = todo[p] \ {i}]
        /\ last' = Forget(i)
  BY DEF DeleteLargest
<1>2. pc[p] = "fix" /\ UNCHANGED <<pc, mac, action, asked, start, alone>>
  BY DEF DeleteLargest
<1>3. chain \in Seq(Rules) /\ DOMAIN chain = 1..Len(chain) /\ Len(chain) \in Nat
  BY ChainSeq DEF Inv
<1>4. i \in Nat
  BY <1>1 DEF Inv, Types
<1>5. /\ table' \in TableType
      /\ \/ i \in 1..Len(chain) /\ chain' = RemoveAt(chain, i)
         \/ i \notin 1..Len(chain) /\ table' = table
  BY <1>1, <1>4, DeletedAnyLine DEF chain, Inv, Types
<1>6. last' \in [Macs -> Actions \cup {"none"}]
  BY <1>1 DEF Forget, Inv, Types
<1>7. Types'
  BY <1>1, <1>2, <1>5, <1>6 DEF Inv, Types
<1>8. ASSUME NEW m \in Macs, last'[m] # "none", Updating(m)' = {}
      PROVE  Decides(chain', m, last'[m])
  <2>1. last'[m] = last[m] /\ (i \in DOMAIN chain => chain[i].match # m)
    BY <1>1, <1>8 DEF Forget
  <2>2. Updating(m) = {}
    BY <1>2, <1>8 DEF Updating
  <2>3. Decides(chain, m, last[m])
    BY <1>8, <2>1, <2>2 DEF Inv, LastDecides
  <2>4. CASE i \in 1..Len(chain) /\ chain' = RemoveAt(chain, i)
    BY <1>3, <2>1, <2>3, <2>4, RemoveOther
  <2>5. CASE table' = table
    BY <2>1, <2>3, <2>5 DEF chain
  <2> QED BY <1>5, <2>4, <2>5
<1>9. AloneOK'
  BY <1>2 DEF Inv, AloneOK
<1>10. ASSUME NEW q \in Procs, pc'[q] = "fix", alone'[q], NEW j \in todo'[q]
       PROVE  j \in DOMAIN chain' /\ chain'[j] = start'[q][j]
  <2>1. q = p
    BY <1>2, <1>10 DEF Inv, AloneOK
  <2>2. \A k \in todo[p] : k \in 1..Len(chain) /\ chain[k] = start[p][k]
    BY <1>2, <1>3, <1>10, <2>1 DEF Inv, PendingLinesStable
  <2>3. chain' = RemoveAt(chain, i) /\ i \in 1..Len(chain)
    BY <1>5, <2>2
  <2>4. /\ chain' \in Seq(Rules)
        /\ Len(chain') = Len(chain) - 1
        /\ \A k \in 1..(Len(chain) - 1) :
             chain'[k] = IF k < i THEN chain[k] ELSE chain[k + 1]
    BY <1>3, <2>3, RemoveAtFacts
  <2>5. j \in todo[p] /\ j # i
    BY <1>1, <1>10, <2>1 DEF Inv, Types
  <2>6. j \in Nat /\ j < i
    BY <1>1, <1>3, <1>4, <2>2, <2>5
  <2>7. j \in 1..(Len(chain) - 1)
    BY <1>3, <2>2, <2>3, <2>5, <2>6
  <2>8. chain'[j] = chain[j] /\ DOMAIN chain' = 1..(Len(chain) - 1)
    BY <2>4, <2>6, <2>7
  <2> QED BY <1>2, <2>1, <2>2, <2>5, <2>7, <2>8
<1> QED BY <1>7, <1>8, <1>9, <1>10 DEF Inv, LastDecides, PendingLinesStable

\* The script ends and leaves the chain as it is.
LEMMA ListAgainOK ==
  ASSUME Inv, NEW p \in Procs, ListAgain(p)
  PROVE  Inv'
<1>1. /\ asked' = [asked EXCEPT ![p] = {}] /\ start' = [start EXCEPT ![p] = <<>>]
      /\ pc' = [pc EXCEPT ![p] = "idle"] /\ pc[p] = "fix"
      /\ UNCHANGED <<table, mac, action, todo, alone, last>>
  BY DEF ListAgain, Goto
<1>2. <<>> \in Seq(Rules)
  OBVIOUS
<1>3. Types'
  BY <1>1, <1>2 DEF Inv, Types
<1>4. \A m \in Macs : Updating(m)' = Updating(m)
  BY <1>1 DEF Updating, Inv, Types
<1>5. LastDecides'
  BY <1>1, <1>4 DEF Inv, LastDecides, chain
<1>6. AloneOK' /\ PendingLinesStable'
  BY <1>1 DEF Inv, Types, AloneOK, PendingLinesStable, chain
<1> QED BY <1>3, <1>5, <1>6 DEF Inv

LEMMA InvInit == Init => Inv
<1> SUFFICES ASSUME Init PROVE Inv
  OBVIOUS
<1>1. table \in TableType /\ <<>> \in Seq(Rules)
  BY DEF Init, EmptyTable, TableType
<1>2. Types
  BY <1>1 DEF Init, Types
<1>3. LastDecides /\ AloneOK /\ PendingLinesStable
  BY DEF Init, LastDecides, AloneOK, PendingLinesStable
<1> QED BY <1>2, <1>3 DEF Inv

LEMMA InvNext == Inv /\ [Next]_vars => Inv'
<1> SUFFICES ASSUME Inv, [Next]_vars PROVE Inv'
  OBVIOUS
<1>1. CASE Next
  BY <1>1, UpdateMacOK, DeleteOK, InsertOK, AddOK, FixRulesOK, DeleteLargestOK, ListAgainOK DEF Next
<1>2. CASE UNCHANGED vars
  BY <1>2 DEF vars, Inv, Types, LastDecides, AloneOK, PendingLinesStable, Updating, chain
<1> QED BY <1>1, <1>2

-----------------------------------------------------------------------------
(* The theorems.                                                           *)

\* The scripts leave nothing but rules of the expected form in the chain, and
\* fixiptables.sh only ever holds line numbers.
THEOREM TypeCorrect == Spec => []TypeOK
<1>1. Inv => TypeOK
  BY DEF Inv, Types, TableType, TypeOK
<1> QED BY <1>1, InvInit, InvNext, PTL DEF Spec

\* However many updates of however many addresses overlap, between each other
\* and with rules that are added and lines that are deleted, the update whose
\* rule went in last decides.
THEOREM LastUpdateWins == Spec => []LastUpdateDecides
<1>1. Inv => LastUpdateDecides
  <2> SUFFICES ASSUME Inv, NEW m \in Macs, last[m] # "none", Updating(m) = {}
               PROVE  ChainVerdict(chain, m) = last[m]
    BY DEF LastUpdateDecides
  <2>1. chain \in Seq(Rules)
    BY ChainSeq DEF Inv
  <2> QED BY <2>1, DecidesVerdict DEF Inv, LastDecides
<1> QED BY <1>1, InvInit, InvNext, PTL DEF Spec

\* The descending order of fixiptables.sh: as long as no other request changes
\* the chain, every line still to be deleted holds the rule it held at first.
THEOREM LinesStable == Spec => []PendingLinesStable
<1>1. Inv => PendingLinesStable
  BY DEF Inv
<1> QED BY <1>1, InvInit, InvNext, PTL DEF Spec

-----------------------------------------------------------------------------
(* How many rules races leave.  Every rule for m can be given to a request *)
(* of its own, so that none is given to a request that is about to insert  *)
(* one, and only DROP rules to one that is about to delete a DROP rule:    *)
(* A and D are the requests that may have an ACCEPT and a DROP rule.       *)

Shared(L, s, A, D) ==
  \E own \in [L -> D] :
    /\ \A k, l \in L : own[k] = own[l] => k = l
    /\ \A k \in L : s[k].target # "DROP" => own[k] \in A

\* Rules that move to other lines, or some that are left of them, stay shared.
LEMMA Moved ==
  ASSUME NEW L, NEW s, NEW A, NEW D, Shared(L, s, A, D),
         NEW K, NEW t, NEW g \in [K -> L],
         \A k, l \in K : g[k] = g[l] => k = l,
         \A k \in K : t[k] = s[g[k]]
  PROVE  Shared(K, t, A, D)
<1>1. PICK own \in [L -> D] :
        /\ \A k, l \in L : own[k] = own[l] => k = l
        /\ \A k \in L : s[k].target # "DROP" => own[k] \in A
  BY DEF Shared
<1> DEFINE new == [k \in K |-> own[g[k]]]
<1>2. new \in [K -> D] /\ \A k \in K : new[k] = own[g[k]] /\ g[k] \in L
  BY <1>1
<1> HIDE DEF new
<1>3. \A k, l \in K : new[k] = new[l] => k = l
  BY <1>1, <1>2
<1>4. \A k \in K : t[k].target # "DROP" => new[k] \in A
  BY <1>1, <1>2
<1> QED BY <1>2, <1>3, <1>4 DEF Shared

LEMMA RemovedLines ==
  ASSUME NEW s \in Seq(Rules), NEW m, NEW i \in 1..Len(s), NEW A, NEW D,
         Shared(LinesFor(s, m) \ {i}, s, A, D)
  PROVE  Shared(LinesFor(RemoveAt(s, i), m), RemoveAt(s, i), A, D)
<1> DEFINE t == RemoveAt(s, i)
           K == LinesFor(t, m)
           L == LinesFor(s, m) \ {i}
           g == [k \in K |-> IF k < i THEN k ELSE k + 1]
<1>1. /\ t \in Seq(Rules) /\ Len(t) = Len(s) - 1
      /\ \A j \in 1..(Len(s) - 1) : t[j] = IF j < i THEN s[j] ELSE s[j + 1]
  BY RemoveAtFacts
<1> HIDE DEF t
<1>2. K \subseteq 1..(Len(s) - 1) /\ \A k \in K : t[k].match = m /\ t[k] \notin Extra
  BY <1>1 DEF LinesFor
<1>3. \A k \in 1..Len(s) : s[k].match = m /\ s[k] \notin Extra /\ k # i => k \in L
  BY DEF LinesFor
<1> HIDE DEF K, L
<1>4. ASSUME NEW k \in K PROVE g[k] \in L /\ t[k] = s[g[k]]
  <2>1. k \in 1..(Len(s) - 1)
    BY <1>2
  <2>2. CASE k < i
    BY <1>1, <1>2, <1>3, <2>1, <2>2
  <2>3. CASE ~(k < i)
    <3>1. g[k] = k + 1 /\ k + 1 \in 1..Len(s) /\ k + 1 # i /\ t[k] = s[k + 1]
      BY <1>1, <2>1, <2>3
    <3> QED BY <1>2, <1>3, <3>1
  <2> QED BY <2>2, <2>3
<1>5. \A k, l \in K : g[k] = g[l] => k = l
  <2> SUFFICES ASSUME NEW k \in K, NEW l \in K, g[k] = g[l] PROVE k = l
    OBVIOUS
  <2>1. k \in Int /\ l \in Int
    BY <1>2
  <2> QED BY <2>1
<1>6. g \in [K -> L]
  BY <1>4
<1>7. Shared(L, s, A, D)
  BY DEF L
<1> HIDE DEF g
<1>8. Shared(K, t, A, D)
  BY <1>4, <1>5, <1>6, <1>7, Moved
<1> QED BY <1>8 DEF K, t

\* The request that deletes an ACCEPT rule has none any more: it gives its own
\* to the one whose rule is gone.
LEMMA AcceptGone ==
  ASSUME NEW L, NEW s, NEW A, NEW D, A \subseteq D, Shared(L, s, A, D),
         NEW i \in L, s[i].target # "DROP", NEW p
  PROVE  Shared(L \ {i}, s, A \ {p}, D)
<1>1. PICK own \in [L -> D] :
        /\ \A k, l \in L : own[k] = own[l] => k = l
        /\ \A k \in L : s[k].target # "DROP" => own[k] \in A
  BY DEF Shared
<1> DEFINE new == [k \in L \ {i} |-> IF own[k] = p THEN own[i] ELSE own[k]]
<1>2. new \in [L \ {i} -> D]
  BY <1>1
<1>3. \A k, l \in L \ {i} : new[k] = new[l] => k = l
  BY <1>1
<1>4. \A k \in L \ {i} : s[k].target # "DROP" => new[k] \in A \ {p}
  BY <1>1
<1> HIDE DEF new
<1> QED BY <1>2, <1>3, <1>4 DEF Shared

\* The same of one that may only have a DROP rule.
LEMMA DropGone ==
  ASSUME NEW L, NEW s, NEW A, NEW D, A \subseteq D, Shared(L, s, A, D),
         NEW i \in L, NEW p, p \notin A
  PROVE  Shared(L \ {i}, s, A, D \ {p})
<1>1. PICK own \in [L -> D] :
        /\ \A k, l \in L : own[k] = own[l] => k = l
        /\ \A k \in L : s[k].target # "DROP" => own[k] \in A
  BY DEF Shared
<1> DEFINE new == [k \in L \ {i} |-> IF own[k] = p THEN own[i] ELSE own[k]]
<1>2. new \in [L \ {i} -> D \ {p}]
  BY <1>1
<1>3. \A k, l \in L \ {i} : new[k] = new[l] => k = l
  BY <1>1
<1>4. \A k \in L \ {i} : s[k].target # "DROP" => new[k] \in A
  BY <1>1
<1> HIDE DEF new
<1> QED BY <1>2, <1>3, <1>4 DEF Shared

\* Where there is no such rule, nothing has to be given away.
LEMMA NoneThere ==
  ASSUME NEW L, NEW s, NEW A, NEW D, A \subseteq D, Shared(L, s, A, D), NEW p
  PROVE  /\ (\A k \in L : s[k].target = "DROP") => Shared(L, s, A \ {p}, D)
         /\ (\A k \in L : s[k].target # "DROP") /\ p \notin A => Shared(L, s, A, D \ {p})
<1>1. PICK own \in [L -> D] :
        /\ \A k, l \in L : own[k] = own[l] => k = l
        /\ \A k \in L : s[k].target # "DROP" => own[k] \in A
  BY DEF Shared
<1>2. (\A k \in L : s[k].target = "DROP") => Shared(L, s, A \ {p}, D)
  BY <1>1 DEF Shared
<1>3. ASSUME \A k \in L : s[k].target # "DROP", p \notin A PROVE Shared(L, s, A, D \ {p})
  <2>1. own \in [L -> D \ {p}]
    BY <1>1, <1>3
  <2> QED BY <1>1, <2>1 DEF Shared
<1> QED BY <1>2, <1>3

\* A rule at the head is given to a request that has none.
LEMMA HeadShared ==
  ASSUME NEW s \in Seq(Rules), NEW r \in Rules, NEW m, NEW A, NEW D, A \subseteq D,
         Shared(LinesFor(s, m), s, A, D), NEW p
  PROVE  /\ r.match # m => Shared(LinesFor(<<r>> \o s, m), <<r>> \o s, A, D)
         /\ p \notin D =>
              Shared(LinesFor(<<r>> \o s, m), <<r>> \o s, A \cup {p}, D \cup {p})
<1> DEFINE t == <<r>> \o s
           K == LinesFor(t, m)
           L == LinesFor(s, m)
<1>1. /\ Len(t) = Len(s) + 1 /\ t \in Seq(Rules) /\ t[1] = r
      /\ \A j \in 2..(Len(s) + 1) : t[j] = s[j - 1]
  OBVIOUS
<1> HIDE DEF t
<1>2. /\ K \subseteq 1..(Len(s) + 1) /\ \A k \in K : t[k].match = m /\ t[k] \notin Extra
      /\ \A k \in K : k # 1 => k - 1 \in L /\ t[k] = s[k - 1]
  BY <1>1 DEF LinesFor
<1>3. PICK own \in [L -> D] :
        /\ \A k, l \in L : own[k] = own[l] => k = l
        /\ \A k \in L : s[k].target # "DROP" => own[k] \in A
  BY DEF Shared
<1> HIDE DEF K, L
<1>4. ASSUME r.match # m PROVE Shared(K, t, A, D)
  <2> DEFINE g == [k \in K |-> k - 1]
  <2>1. 1 \notin K
    BY <1>1, <1>2, <1>4
  <2>2. g \in [K -> L] /\ \A k \in K : t[k] = s[g[k]]
    BY <1>2, <2>1
  <2>3. \A k, l \in K : g[k] = g[l] => k = l
    BY <1>2
  <2>4. Shared(L, s, A, D)
    BY DEF L
  <2> HIDE DEF g
  <2> QED BY <2>2, <2>3, <2>4, Moved
<1>5. ASSUME p \notin D PROVE Shared(K, t, A \cup {p}, D \cup {p})
  <2> DEFINE new == [k \in K |-> IF k = 1 THEN p ELSE own[k - 1]]
  <2>1. new \in [K -> D \cup {p}]
    BY <1>2, <1>3
  <2>2. \A k \in K : (k = 1 <=> new[k] = p) /\ (k # 1 => k - 1 \in L /\ new[k] = own[k - 1] /\ k \in Int)
    BY <1>2, <1>3, <1>5
  <2> HIDE DEF new
  <2>3. \A k, l \in K : new[k] = new[l] => k = l
    <3> SUFFICES ASSUME NEW k \in K, NEW l \in K, new[k] = new[l] PROVE k = l
      OBVIOUS
    <3>1. CASE k = 1
      BY <2>2, <3>1
    <3>2. CASE k # 1
      <4>1. l # 1 /\ own[k - 1] = own[l - 1]
        BY <2>2, <3>2
      <4>2. k - 1 = l - 1 /\ k \in Int /\ l \in Int
        BY <1>3, <2>2, <3>2, <4>1
      <4> QED BY <4>2
    <3> QED BY <3>1, <3>2
  <2>4. \A k \in K : t[k].target # "DROP" => new[k] \in A \cup {p}
    BY <1>2, <1>3, <2>2
  <2> QED BY <2>1, <2>3, <2>4 DEF Shared
<1> QED BY <1>4, <1>5 DEF K, t

Inserting(m) == {p \in Procs : mac[p] = m /\ pc[p] = "insert"}

SharedFor(m) ==
  Shared(LinesFor(chain, m), chain, Procs \ Updating(m), Procs \ Inserting(m))

SharedInv == \A m \in Macs : SharedFor(m)

LEMMA UpdatingFirst ==
  ASSUME NEW m \in Macs
  PROVE  Procs \ Updating(m) \subseteq Procs \ Inserting(m)
  BY DEF Updating, Inserting

\* Deleting any line leaves the rules shared.
LEMMA AnyLineGone ==
  ASSUME NEW s \in Seq(Rules), NEW m, NEW i \in 1..Len(s), NEW A, NEW D,
         Shared(LinesFor(s, m), s, A, D)
  PROVE  Shared(LinesFor(RemoveAt(s, i), m), RemoveAt(s, i), A, D)
<1> DEFINE K == LinesFor(s, m) \ {i}
           g == [k \in K |-> k]
<1>1. g \in [K -> LinesFor(s, m)] /\ \A k, l \in K : g[k] = g[l] => k = l
  OBVIOUS
<1>2. \A k \in K : s[k] = s[g[k]]
  OBVIOUS
<1> HIDE DEF g
<1>3. Shared(K, s, A, D)
  BY <1>1, <1>2, Moved
<1> QED BY <1>3, RemovedLines

\* A script deletes the rules of its address before it may insert one.
LEMMA DeleteShared ==
  ASSUME Inv, SharedInv, NEW p \in Procs, DeleteAccept(p) \/ DeleteDrop(p)
  PROVE  SharedInv'
<1>1. PICK a \in Actions, l \in {"delDrop", "insert"} :
        /\ table' = DeleteRule(table, "FORWARD", Rule(mac[p], a))
        /\ pc' = [pc EXCEPT ![p] = l]
        /\ UNCHANGED <<mac, action, todo, asked, start, alone, last>>
        /\ \/ pc[p] = "delAccept" /\ a = "ACCEPT" /\ l = "delDrop"
           \/ pc[p] = "delDrop" /\ a = "DROP" /\ l = "insert"
  BY DEF DeleteAccept, DeleteDrop, Goto, Actions
<1>2. PICK n \in Macs : n = mac[p]
  BY <1>1 DEF Inv, Types
<1>3. Rule(n, a) \in Rules /\ Rule(n, a).match = n /\ Rule(n, a).target = a
  BY <1>2, MacRule
<1>4. \/ table' = table /\ \A k \in 1..Len(chain) : chain[k] # Rule(n, a)
      \/ \E i \in 1..Len(chain) : chain[i] = Rule(n, a) /\ chain' = RemoveAt(chain, i)
  <2>1. table \in TableType /\ table' = DeleteRule(table, "FORWARD", Rule(n, a))
    BY <1>1, <1>2 DEF Inv, Types
  <2> QED BY <1>3, <2>1, DeletedRule DEF chain
<1>5. chain \in Seq(Rules) /\ DOMAIN chain = 1..Len(chain)
  BY ChainSeq DEF Inv
<1>6. ASSUME NEW m \in Macs, m # n PROVE SharedFor(m)'
  <2>1. Updating(m)' = Updating(m) /\ Inserting(m)' = Inserting(m)
    BY <1>1, <1>2, <1>6 DEF Updating, Inserting, Inv, Types
  <2>2. SharedFor(m)
    BY DEF SharedInv
  <2>3. CASE table' = table
    BY <2>1, <2>2, <2>3 DEF SharedFor, chain
  <2>4. CASE \E i \in 1..Len(chain) : chain' = RemoveAt(chain, i)
    BY <1>5, <2>1, <2>2, <2>4, AnyLineGone DEF SharedFor
  <2> QED BY <1>4, <2>3, <2>4
<1>7. SharedFor(n)'
  <2> DEFINE L == LinesFor(chain, n)
             A == Procs \ Updating(n)
             D == Procs \ Inserting(n)
             AA == IF a = "ACCEPT" THEN A \ {p} ELSE A
             DD == IF a = "ACCEPT" THEN D ELSE D \ {p}
  <2>1. Shared(L, chain, A, D) /\ A \subseteq D
    BY UpdatingFirst DEF SharedInv, SharedFor
  <2>2. (Procs \ Updating(n))' = AA /\ (Procs \ Inserting(n))' = DD /\ (a = "DROP" => p \notin A)
    BY <1>1, <1>2 DEF Updating, Inserting, Inv, Types
  <2>3. \A k \in L : /\ k \in 1..Len(chain) /\ chain[k] \notin Extra
                     /\ (chain[k].target = a => chain[k] = Rule(n, a))
                     /\ chain[k].target \in {"ACCEPT", "DROP"}
    <3> SUFFICES ASSUME NEW k \in L
                 PROVE  /\ k \in 1..Len(chain) /\ chain[k] \notin Extra
                        /\ (chain[k].target = a => chain[k] = Rule(n, a))
                        /\ chain[k].target \in {"ACCEPT", "DROP"}
      OBVIOUS
    <3>1. k \in 1..Len(chain) /\ chain[k] \notin Extra /\ chain[k].match = n /\ chain[k] \in Rules
      BY <1>5 DEF LinesFor
    <3> QED BY <3>1 DEF Rules, Rule, Actions
  <2>4. \A i \in 1..Len(chain) : chain[i] = Rule(n, a) /\ Rule(n, a) \notin Extra => i \in L
    BY <1>3, <1>5 DEF LinesFor
  <2> HIDE DEF L, A, D
  <2>5. (\A k \in L : chain[k] # Rule(n, a)) => Shared(L, chain, AA, DD)
    <3> SUFFICES ASSUME \A k \in L : chain[k] # Rule(n, a) PROVE Shared(L, chain, AA, DD)
      OBVIOUS
    <3>1. CASE a = "ACCEPT"
      <4>1. \A k \in L : chain[k].target = "DROP"
        BY <2>3, <3>1
      <4> QED BY <2>1, <3>1, <4>1, NoneThere
    <3>2. CASE a = "DROP"
      <4>1. \A k \in L : chain[k].target # "DROP"
        BY <2>3, <3>2
      <4> QED BY <2>1, <2>2, <3>2, <4>1, NoneThere
    <3> QED BY <3>1, <3>2 DEF Actions
  <2>6. CASE table' = table /\ \A k \in 1..Len(chain) : chain[k] # Rule(n, a)
    <3>1. Shared(L, chain, AA, DD)
      BY <2>3, <2>5, <2>6
    <3>2. chain' = chain
      BY <2>6 DEF chain
    <3> QED BY <2>2, <3>1, <3>2 DEF SharedFor, L
  <2>7. CASE \E i \in 1..Len(chain) : chain[i] = Rule(n, a) /\ chain' = RemoveAt(chain, i)
    <3>1. PICK i \in 1..Len(chain) : chain[i] = Rule(n, a) /\ chain' = RemoveAt(chain, i)
      BY <2>7
    <3>2. Shared(L \ {i}, chain, AA, DD)
      <4>1. CASE Rule(n, a) \in Extra
        <5>1. i \notin L /\ \A k \in L : chain[k] # Rule(n, a)
          BY <2>3, <3>1, <4>1
        <5>2. L \ {i} = L
          BY <5>1
        <5> QED BY <2>5, <5>1, <5>2
      <4>2. CASE Rule(n, a) \notin Extra
        <5>1. i \in L /\ chain[i].target = a
          BY <1>3, <2>4, <3>1, <4>2
        <5>2. CASE a = "ACCEPT"
          BY <2>1, <5>1, <5>2, AcceptGone
        <5>3. CASE a = "DROP"
          BY <2>1, <2>2, <5>1, <5>3, DropGone
        <5> QED BY <5>2, <5>3 DEF Actions
      <4> QED BY <4>1, <4>2
    <3>3. Shared(LinesFor(chain', n), chain', AA, DD)
      BY <1>5, <3>1, <3>2, RemovedLines DEF L
    <3> QED BY <2>2, <3>3 DEF SharedFor
  <2> QED BY <1>4, <2>6, <2>7
<1> QED BY <1>6, <1>7 DEF SharedInv

\* The script that inserts a rule is given it.
LEMMA InsertShared ==
  ASSUME Inv, SharedInv, NEW p \in Procs, InsertAction(p)
  PROVE  SharedInv'
<1>1. PICK n \in Macs, r \in Rules :
        /\ n = mac[p] /\ r = Rule(mac[p], action[p]) /\ r.match = n
        /\ pc[p] = "insert"
  BY MacRule DEF InsertAction, Inv, Types
<1>2. /\ table' = InsertRule(table, "FORWARD", r)
      /\ mac' = [mac EXCEPT ![p] = NoMac]
      /\ pc' = [pc EXCEPT ![p] = "idle"]
  BY <1>1 DEF InsertAction, Goto
<1>3. chain' = <<r>> \o chain /\ chain \in Seq(Rules)
  BY <1>2, AddedRule, ChainSeq DEF chain, Inv, Types
<1>4. ASSUME NEW m \in Macs PROVE SharedFor(m)'
  <2> DEFINE L == LinesFor(chain, m)
             A == Procs \ Updating(m)
             D == Procs \ Inserting(m)
  <2>1. Shared(L, chain, A, D) /\ A \subseteq D
    BY UpdatingFirst DEF SharedInv, SharedFor
  <2>2. CASE m # n
    <3>1. Updating(m)' = Updating(m) /\ Inserting(m)' = Inserting(m)
      BY <1>1, <1>2, <2>2 DEF Updating, Inserting, Inv, Types
    <3>2. Shared(LinesFor(<<r>> \o chain, m), <<r>> \o chain, A, D)
      BY <1>1, <1>3, <2>1, <2>2, HeadShared
    <3> QED BY <1>3, <3>1, <3>2 DEF SharedFor
  <2>3. CASE m = n
    <3>1. (Procs \ Updating(m))' = A \cup {p} /\ (Procs \ Inserting(m))' = D \cup {p} /\ p \notin D
      BY <1>1, <1>2, <2>3 DEF Updating, Inserting, Inv, Types
    <3>2. Shared(LinesFor(<<r>> \o chain, m), <<r>> \o chain, A \cup {p}, D \cup {p})
      BY <1>3, <2>1, <3>1, HeadShared
    <3> QED BY <1>3, <3>1, <3>2 DEF SharedFor
  <2> QED BY <2>2, <2>3
<1> QED BY <1>4 DEF SharedInv

\* The other commands take no rule of an address out of turn.
LEMMA OtherShared ==
  ASSUME Inv, SharedInv, NEW p \in Procs,
         \/ \E m \in Macs, a \in Actions : UpdateMac(p, m, a)
         \/ \E r \in Extra : AddRule(p, r)
         \/ \E lines \in SUBSET (1..Len(chain)) : FixRules(p, lines)
         \/ DeleteLargest(p) \/ ListAgain(p)
  PROVE  SharedInv'
<1>1. \A m \in Macs : Updating(m)' = Updating(m) /\ Inserting(m)' = Inserting(m)
  BY DEF UpdateMac, AddRule, FixRules, DeleteLargest, ListAgain, Arrives, Goto, Updating,
         Inserting, Inv, Types
<1>2. chain \in Seq(Rules) /\ DOMAIN chain = 1..Len(chain) /\ Len(chain) \in Nat
  BY ChainSeq DEF Inv
<1>3. \/ chain' = chain
      \/ \E r \in Extra : chain' = Append(chain, r)
      \/ \E i \in 1..Len(chain) : chain' = RemoveAt(chain, i)
  <2>1. CASE \E r \in Extra : AddRule(p, r)
    <3>1. \A r \in Extra : r \in Rules
      BY DEF Rules, Actions
    <3> QED BY <2>1, <3>1, AddedRule DEF AddRule, chain, Inv, Types
  <2>2. CASE DeleteLargest(p)
    <3>1. PICK i \in todo[p] : table' = DeleteLine(table, "FORWARD", i)
      BY <2>2 DEF DeleteLargest
    <3>2. i \in Nat
      BY <3>1 DEF Inv, Types
    <3> QED BY <3>1, <3>2, DeletedAnyLine DEF chain, Inv, Types
  <2>3. CASE UNCHANGED table
    BY <2>3 DEF chain
  <2> QED BY <2>1, <2>2, <2>3 DEF UpdateMac, FixRules, ListAgain
<1>4. ASSUME NEW m \in Macs PROVE SharedFor(m)'
  <2> DEFINE L == LinesFor(chain, m)
             A == Procs \ Updating(m)
             D == Procs \ Inserting(m)
  <2>1. Shared(L, chain, A, D)
    BY DEF SharedInv, SharedFor
  <2>2. CASE chain' = chain
    BY <1>1, <2>1, <2>2 DEF SharedFor
  <2>3. CASE \E i \in 1..Len(chain) : chain' = RemoveAt(chain, i)
    <3>1. PICK i \in 1..Len(chain) : chain' = RemoveAt(chain, i)
      BY <2>3
    <3>2. Shared(LinesFor(chain', m), chain', A, D)
      BY <1>2, <2>1, <3>1, AnyLineGone
    <3> QED BY <1>1, <3>2 DEF SharedFor
  <2>4. CASE \E r \in Extra : chain' = Append(chain, r)
    <3>1. PICK r \in Extra : chain' = Append(chain, r)
      BY <2>4
    <3>2. r \in Rules
      BY DEF Rules, Actions
    <3> DEFINE K == LinesFor(chain', m)
               g == [k \in K |-> k]
    <3>3. /\ DOMAIN chain' = 1..(Len(chain) + 1) /\ chain'[Len(chain) + 1] = r
          /\ \A k \in 1..Len(chain) : chain'[k] = chain[k]
      BY <1>2, <3>1, <3>2
    <3>4. \A k \in K : k \in L /\ chain'[k] = chain[k]
      BY <1>2, <3>3 DEF LinesFor
    <3>5. g \in [K -> L] /\ \A k, l \in K : g[k] = g[l] => k = l
      BY <3>4
    <3>6. \A k \in K : chain'[k] = chain[g[k]]
      BY <3>4
    <3> HIDE DEF g
    <3>7. Shared(K, chain', A, D)
      BY <2>1, <3>5, <3>6, Moved
    <3> QED BY <1>1, <3>7 DEF SharedFor
  <2> QED BY <1>3, <2>2, <2>3, <2>4
<1> QED BY <1>4 DEF SharedInv

\* A quarantined address never has more rules of its own than requests can be
\* under way, however updates and deletions of lines overlap.
THEOREM FewStaleRules == Spec => []StaleRulesBounded
<1>1. Init => SharedInv
  <2> SUFFICES ASSUME Init, NEW m \in Macs PROVE SharedFor(m)
    BY DEF SharedInv
  <2>1. LinesFor(chain, m) = {}
    BY DEF Init, chain, LinesFor, EmptyTable
  <2> DEFINE D == Procs \ Inserting(m)
             own == [k \in {} |-> k]
  <2>2. own \in [{} -> D]
    OBVIOUS
  <2> HIDE DEF own
  <2> QED BY <2>1, <2>2 DEF SharedFor, Shared
<1>2. Inv /\ SharedInv /\ [Next]_vars => SharedInv'
  <2> SUFFICES ASSUME Inv, SharedInv, [Next]_vars PROVE SharedInv'
    OBVIOUS
  <2>1. CASE Next
    BY <2>1, DeleteShared, InsertShared, OtherShared DEF Next
  <2>2. CASE UNCHANGED vars
    BY <2>2 DEF vars, SharedInv, SharedFor, chain, Updating, Inserting
  <2> QED BY <2>1, <2>2
<1>3. SharedInv => StaleRulesBounded
  <2> SUFFICES ASSUME SharedInv, NEW m \in Macs
               PROVE  Cardinality(LinesFor(chain, m)) <= Cardinality(Procs)
    BY DEF StaleRulesBounded
  <2>1. PICK own \in [LinesFor(chain, m) -> Procs \ Inserting(m)] :
          \A k, l \in LinesFor(chain, m) : own[k] = own[l] => k = l
    BY DEF SharedInv, SharedFor, Shared
  <2>2. own \in [LinesFor(chain, m) -> Procs]
    BY <2>1
  <2>3. own \in Injection(LinesFor(chain, m), Procs)
    BY <2>1, <2>2 DEF Injection, IsInjective
  <2> QED BY <2>3, FS_Injection
<1> QED BY <1>1, <1>2, <1>3, InvInit, InvNext, PTL DEF Spec

-----------------------------------------------------------------------------
(* What fixiptables.sh leaves.  f says of every line of the chain which    *)
(* line of the chain at first it was.                                      *)

Ascends(f, n) == \A i, j \in 1..n : i < j => f[i] < f[j]

\* A chain whose rules are some of those of s, in their order, is s without
\* the other lines.
LEMMA WithoutOthers ==
  ASSUME NEW s \in Seq(Rules), NEW t \in Seq(Rules),
         NEW f \in [1..Len(t) -> 1..Len(s)], Ascends(f, Len(t)),
         \A k \in 1..Len(t) : t[k] = s[f[k]],
         NEW lines, (1..Len(s)) \ lines = {f[k] : k \in 1..Len(t)}
  PROVE  t = Without(s, lines)
<1> DEFINE n == Len(t)
           kept == (DOMAIN s) \ lines
           upto(i) == {k \in kept : k <= i}
<1>1. n \in Nat /\ DOMAIN s = 1..Len(s) /\ Len(s) \in Nat
  OBVIOUS
<1>2. kept = {f[k] : k \in 1..n}
  BY <1>1
<1>3. \A i, j \in 1..n : (f[i] = f[j] => i = j) /\ (f[i] <= f[j] <=> i <= j)
  <2> SUFFICES ASSUME NEW i \in 1..n, NEW j \in 1..n
               PROVE  (f[i] = f[j] => i = j) /\ (f[i] <= f[j] <=> i <= j)
    OBVIOUS
  <2>1. f[i] \in Int /\ f[j] \in Int /\ i \in Int /\ j \in Int
    OBVIOUS
  <2>2. (i < j => f[i] < f[j]) /\ (j < i => f[j] < f[i])
    BY DEF Ascends
  <2> QED BY <2>1, <2>2
<1> HIDE DEF n, kept
<1>4. ASSUME NEW j \in 0..n, NEW S, S = {f[k] : k \in 1..j}
      PROVE  Cardinality(S) = j
  <2> DEFINE g == [k \in 1..j |-> f[k]]
  <2>1. \A k \in 1..j : k \in 1..n
    BY <1>1
  <2>2. g \in [1..j -> S] /\ \A x \in S : \E k \in 1..j : g[k] = x
    BY <1>4
  <2>3. \A k, l \in 1..j : g[k] = g[l] => k = l
    BY <1>3, <2>1
  <2>4. DOMAIN g = 1..j
    OBVIOUS
  <2> HIDE DEF g
  <2>5. g \in Bijection(1..j, S)
    BY <2>2, <2>3, <2>4 DEF Bijection, Injection, Surjection, IsInjective
  <2>6. ExistsBijection(1..j, S)
    BY <2>5 DEF ExistsBijection
  <2>7. j \in Int /\ IsFiniteSet(1..j) /\ Cardinality(1..j) = j
    BY FS_Interval
  <2> QED BY <2>6, <2>7, FS_Bijection
<1>5. Cardinality(kept) = n
  BY <1>1, <1>2, <1>4
<1>6. ASSUME NEW j \in 1..n PROVE upto(f[j]) = {f[k] : k \in 1..j}
  <2>1. \A x \in upto(f[j]) : \E k \in 1..j : x = f[k]
    BY <1>1, <1>2, <1>3
  <2>2. \A k \in 1..j : f[k] \in upto(f[j])
    BY <1>1, <1>2, <1>3
  <2> QED BY <2>1, <2>2
<1>7. ASSUME NEW j \in 1..n PROVE Cardinality(upto(f[j])) = j
  <2> HIDE DEF upto
  <2>1. j \in 0..n
    BY <1>1
  <2>2. upto(f[j]) = {f[k] : k \in 1..j}
    BY <1>6
  <2> QED BY <1>4, <2>1, <2>2
<1>8. ASSUME NEW j \in 1..n PROVE (CHOOSE i \in kept : Cardinality(upto(i)) = j) = f[j]
  <2>1. f[j] \in kept /\ Cardinality(upto(f[j])) = j
    BY <1>2, <1>7
  <2>2. \A i \in kept : Cardinality(upto(i)) = j => i = f[j]
    BY <1>2, <1>7
  <2> HIDE DEF upto
  <2> QED BY <2>1, <2>2
<1>9. Without(s, lines) = [j \in 1..Cardinality(kept) |-> s[CHOOSE i \in kept : Cardinality(upto(i)) = j]]
  BY DEF Without, kept
<1> HIDE DEF upto
<1>10. Without(s, lines) = [j \in 1..n |-> s[f[j]]]
  BY <1>5, <1>8, <1>9
<1>11. t = [j \in 1..n |-> t[j]]
  BY DEF n
<1> QED BY <1>10, <1>11 DEF n

\* The lines of the chain are those of the chain at first that were not asked
\* for, or not dealt with yet; the latter, and all before them, are where they
\* were.
Follows(p, f) ==
  /\ todo[p] \subseteq asked[p]
  /\ {f[k] : k \in 1..Len(chain)} = (1..Len(start[p])) \ (asked[p] \ todo[p])
  /\ Ascends(f, Len(chain))
  /\ \A k \in 1..Len(chain) : chain[k] = start[p][f[k]]
  /\ \A i \in todo[p] : i \in 1..Len(chain) /\ \A j \in 1..i : f[j] = j

ExactInv ==
  \A p \in Procs : pc[p] = "fix" /\ alone[p] =>
    \E f \in [1..Len(chain) -> 1..Len(start[p])] : Follows(p, f)

LEMMA FixRulesExact ==
  ASSUME Inv, NEW p \in Procs, NEW lines \in SUBSET (1..Len(chain)), FixRules(p, lines)
  PROVE  ExactInv'
<1>1. chain \in Seq(Rules) /\ Len(chain) \in Nat /\ <<>> \in Seq(Rules)
  BY ChainSeq DEF Inv
<1>2. todo'[p] = lines /\ chain' = chain /\ lines # {}
  BY DEF FixRules, chain, Inv, Types
<1>3. \A q \in Procs : alone'[q] => q = p /\ asked'[p] = lines /\ start'[p] = chain
  BY <1>1, <1>2, Arrival DEF FixRules
<1>4. PICK f \in [1..Len(chain) -> 1..Len(chain)] : \A k \in 1..Len(chain) : f[k] = k
  <2>1. [k \in 1..Len(chain) |-> k] \in [1..Len(chain) -> 1..Len(chain)]
    OBVIOUS
  <2> QED BY <2>1
<1>5. Ascends(f, Len(chain))
  BY <1>4 DEF Ascends
<1>6. \A i \in lines : i \in 1..Len(chain) /\ \A j \in 1..i : j \in 1..Len(chain) /\ f[j] = j
  BY <1>1, <1>4
<1>7. {f[k] : k \in 1..Len(chain)} = (1..Len(chain)) \ (lines \ lines)
  BY <1>4
<1>8. alone'[p] => Follows(p, f)'
  BY <1>2, <1>3, <1>4, <1>5, <1>6, <1>7 DEF Follows
<1> QED BY <1>2, <1>3, <1>4, <1>8 DEF ExactInv

LEMMA DeleteLargestExact ==
  ASSUME Inv, ExactInv, NEW p \in Procs, DeleteLargest(p)
  PROVE  ExactInv'
<1>1. PICK i \in todo[p] :
        /\ \A j \in todo[p] : j <= i
        /\ table' = DeleteLine(table, "FORWARD", i)
        /\ todo' = [todo EXCEPT ![p] = todo[p] \ {i}]
  BY DEF DeleteLargest
<1>2. pc[p] = "fix" /\ UNCHANGED <<pc, asked, start, alone>>
  BY DEF DeleteLargest
<1>3. chain \in Seq(Rules) /\ Len(chain) \in Nat /\ i \in Nat
  BY ChainSeq DEF Inv, Types
<1> SUFFICES ASSUME NEW q \in Procs, pc[q] = "fix", alone[q]
             PROVE  \E f \in [1..Len(chain') -> 1..Len(start'[q])] : Follows(q, f)'
  BY <1>2 DEF ExactInv
<1>4. q = p
  BY <1>2 DEF Inv, AloneOK
<1>5. PICK f \in [1..Len(chain) -> 1..Len(start[p])] : Follows(p, f)
  BY <1>4 DEF ExactInv
<1>6. i \in 1..Len(chain) /\ \A j \in 1..i : f[j] = j
  BY <1>5 DEF Follows
<1>7. chain' = RemoveAt(chain, i)
  BY <1>1, <1>3, <1>6, DeletedLine DEF chain, Inv, Types
<1>8. /\ Len(chain') = Len(chain) - 1
      /\ \A k \in 1..(Len(chain) - 1) :
           chain'[k] = IF k < i THEN chain[k] ELSE chain[k + 1]
  BY <1>3, <1>6, <1>7, RemoveAtFacts
<1> DEFINE n == Len(chain) - 1
<1>9. \A k \in 1..n : k \in 1..Len(chain) /\ k + 1 \in 1..Len(chain)
  BY <1>3
<1>10. PICK g \in [1..n -> 1..Len(start[p])] :
         \A k \in 1..n : g[k] = IF k < i THEN f[k] ELSE f[k + 1]
  <2>1. [k \in 1..n |-> IF k < i THEN f[k] ELSE f[k + 1]] \in [1..n -> 1..Len(start[p])]
    BY <1>5, <1>9
  <2> QED BY <2>1
<1>11. Ascends(g, n)
  <2> SUFFICES ASSUME NEW k \in 1..n, NEW l \in 1..n, k < l PROVE g[k] < g[l]
    BY DEF Ascends
  <2>1. PICK kk \in 1..Len(chain) : g[k] = f[kk] /\ kk = IF k < i THEN k ELSE k + 1
    BY <1>9, <1>10
  <2>2. PICK ll \in 1..Len(chain) : g[l] = f[ll] /\ ll = IF l < i THEN l ELSE l + 1
    BY <1>9, <1>10
  <2>3. kk < ll
    BY <1>3, <2>1, <2>2
  <2> QED BY <1>5, <2>1, <2>2, <2>3 DEF Follows, Ascends
<1>12. \A k \in 1..n : chain'[k] = start[p][g[k]]
  BY <1>5, <1>8, <1>9, <1>10 DEF Follows
<1>13. ASSUME NEW m \in todo[p] \ {i}
       PROVE  m \in 1..n /\ \A j \in 1..m : g[j] = j
  <2>1. m \in 1..Len(chain) /\ m < i
    BY <1>1, <1>3, <1>5 DEF Follows
  <2>2. \A j \in 1..m : j \in 1..n /\ j < i /\ f[j] = j
    BY <1>3, <1>6, <2>1
  <2> QED BY <1>3, <1>6, <1>10, <2>1, <2>2
<1>14. todo'[p] = todo[p] \ {i} /\ start'[p] = start[p]
  BY <1>1, <1>2 DEF Inv, Types
<1>15. {g[k] : k \in 1..n} = (1..Len(start[p])) \ (asked[p] \ (todo[p] \ {i}))
  <2>1. /\ {f[k] : k \in 1..Len(chain)} = (1..Len(start[p])) \ (asked[p] \ todo[p])
        /\ i \in asked[p]
    BY <1>5 DEF Follows
  <2>2. \A k \in 1..Len(chain) : k # i => f[k] # f[i]
    <3> SUFFICES ASSUME NEW k \in 1..Len(chain), k # i PROVE f[k] # f[i]
      OBVIOUS
    <3>1. k < i \/ i < k
      BY <1>3
    <3>2. f[k] \in Int /\ f[i] \in Int
      BY <1>5, <1>6
    <3> QED BY <1>5, <1>6, <3>1, <3>2 DEF Follows, Ascends
  <2>3. \A k \in 1..n : g[k] \in {f[l] : l \in 1..Len(chain)} /\ g[k] # i
    <3> SUFFICES ASSUME NEW k \in 1..n
                 PROVE  g[k] \in {f[l] : l \in 1..Len(chain)} /\ g[k] # i
      OBVIOUS
    <3>1. PICK kk \in 1..Len(chain) : g[k] = f[kk] /\ kk = IF k < i THEN k ELSE k + 1
      BY <1>9, <1>10
    <3>2. kk # i
      BY <1>3, <3>1
    <3>3. f[i] = i
      BY <1>3, <1>6
    <3> QED BY <2>2, <3>1, <3>2, <3>3
  <2>4. ASSUME NEW l \in 1..Len(chain), f[l] # i PROVE \E k \in 1..n : g[k] = f[l]
    <3>1. l # i
      BY <1>3, <1>6, <2>4
    <3>2. CASE l < i
      <4>1. l \in 1..n /\ g[l] = f[l]
        BY <1>3, <1>6, <1>10, <3>2
      <4> QED BY <4>1
    <3>3. CASE i < l
      <4>1. l - 1 \in 1..n /\ ~(l - 1 < i) /\ (l - 1) + 1 = l
        BY <1>3, <1>6, <3>3
      <4>2. g[l - 1] = f[l]
        BY <1>10, <4>1
      <4> QED BY <4>1, <4>2
    <3> QED BY <1>3, <3>1, <3>2, <3>3
  <2>5. {g[k] : k \in 1..n} = {f[l] : l \in 1..Len(chain)} \ {i}
    BY <2>3, <2>4
  <2> QED BY <2>1, <2>5
<1>16. asked'[p] = asked[p] /\ todo[p] \ {i} \subseteq asked[p]
  BY <1>2, <1>5 DEF Follows
<1>17. Follows(p, g)'
  BY <1>8, <1>11, <1>12, <1>13, <1>14, <1>15, <1>16 DEF Follows
<1> QED BY <1>4, <1>8, <1>10, <1>14, <1>17

\* fixiptables.sh, as long as it runs alone, has at every command deleted the
\* rules at those requested lines it has dealt with and no other rule, whatever
\* lines were ticked and however long the chain is.
THEOREM ExactDeletion == Spec => []DeletesExactlyThose
<1>1. Init => ExactInv
  BY DEF Init, ExactInv
<1>2. Inv /\ ExactInv /\ [Next]_vars => ExactInv'
  <2> SUFFICES ASSUME Inv, ExactInv, [Next]_vars PROVE ExactInv'
    OBVIOUS
  <2>1. CASE UNCHANGED vars
    BY <2>1 DEF vars, ExactInv, Follows, chain
  <2>2. ASSUME NEW p \in Procs, NEW lines \in SUBSET (1..Len(chain)), FixRules(p, lines)
        PROVE  ExactInv'
    BY <2>2, FixRulesExact
  <2>3. ASSUME NEW p \in Procs, DeleteLargest(p) PROVE ExactInv'
    BY <2>3, DeleteLargestExact
  <2>4. ASSUME NEW p \in Procs,
               (\E m \in Macs, a \in Actions : UpdateMac(p, m, a)) \/ (\E r \in Extra : AddRule(p, r))
        PROVE  ExactInv'
    <3>1. pc[p] = "idle" /\ \A q \in Procs : alone'[q] => q = p
      BY <2>4 DEF UpdateMac, AddRule, Arrives
    <3>2. pc'[p] # "fix"
      BY <2>4, <3>1 DEF UpdateMac, AddRule, Goto, Inv, Types
    <3> QED BY <3>1, <3>2 DEF ExactInv
  <2>5. ASSUME NEW p \in Procs, DeleteAccept(p) \/ DeleteDrop(p) \/ InsertAction(p) \/ ListAgain(p)
        PROVE  ExactInv'
    <3>1. alone' = alone /\ pc[p] # "idle" /\ pc'[p] # "fix"
      BY <2>5 DEF DeleteAccept, DeleteDrop, InsertAction, ListAgain, Goto, Inv, Types
    <3>2. \A q \in Procs : alone[q] => q = p
      BY <3>1 DEF Inv, AloneOK
    <3> QED BY <3>1, <3>2 DEF ExactInv
  <2> QED BY <2>1, <2>2, <2>3, <2>4, <2>5 DEF Next
<1>3. Inv /\ ExactInv => DeletesExactlyThose
  <2> SUFFICES ASSUME Inv, ExactInv, NEW p \in Procs, pc[p] = "fix", alone[p]
               PROVE  chain = Without(start[p], asked[p] \ todo[p])
    BY DEF DeletesExactlyThose
  <2>1. PICK f \in [1..Len(chain) -> 1..Len(start[p])] : Follows(p, f)
    BY DEF ExactInv
  <2>2. chain \in Seq(Rules) /\ start[p] \in Seq(Rules)
    BY ChainSeq DEF Inv, Types
  <2>3. /\ Ascends(f, Len(chain))
        /\ \A k \in 1..Len(chain) : chain[k] = start[p][f[k]]
        /\ (1..Len(start[p])) \ (asked[p] \ todo[p]) = {f[k] : k \in 1..Len(chain)}
    BY <2>1 DEF Follows
  <2> QED BY <2>2, <2>3, WithoutOthers
<1> QED BY <1>1, <1>2, <1>3, InvInit, InvNext, PTL DEF Spec
=============================================================================
