------------------------------ MODULE Iptables ------------------------------
(***************************************************************************)
(* The netfilter "filter" table as the shell scripts of this repository    *)
(* use it (external: iptables and the kernel are not part of the source).  *)
(* A table t has t.known, the chains that exist, and t.rules, the rules of *)
(* every chain in order.  A rule has a match (one matched value, or        *)
(* AnyMatch) and a target: a verdict, or the name of a user chain.  Every  *)
(* operator below is the table one iptables command leaves; a command that *)
(* iptables refuses leaves the table as it was.                            *)
(***************************************************************************)
EXTENDS Integers, Sequences, SequencesExt

CONSTANT AnyMatch       \* the match of a rule that names no value

Verdicts == {"ACCEPT", "DROP", "RETURN"}

\* Targets that end no packet's walk: LOG, and a rule without -j.
PassThrough == {"LOG", "none"}

Rule(match, target) == [match |-> match, target |-> target]

EmptyTable(builtins, chains) ==
  [known |-> builtins, rules |-> [c \in chains |-> <<>>]]

\* iptables refuses a jump to a chain that does not exist.
TargetExists(t, r) == r.target \in Verdicts \cup PassThrough \cup t.known

\* iptables -N c
NewChain(t, c) == [t EXCEPT !.known = @ \cup {c}]

\* iptables -A c r
AppendRule(t, c, r) ==
  IF c \in t.known /\ TargetExists(t, r)
  THEN [t EXCEPT !.rules[c] = Append(@, r)] ELSE t

\* iptables -I c r (and -I c 1 r)
InsertRule(t, c, r) ==
  IF c \in t.known /\ TargetExists(t, r)
  THEN [t EXCEPT !.rules[c] = <<r>> \o @] ELSE t

\* iptables -C c r
HasRule(t, c, r) ==
  c \in t.known /\ TargetExists(t, r) /\ \E k \in DOMAIN t.rules[c] : t.rules[c][k] = r

\* iptables -D c n: succeeds only on a line number of the chain.
HasLine(t, c, n) == c \in t.known /\ n \in 1..Len(t.rules[c])

DeleteLine(t, c, n) ==
  IF HasLine(t, c, n) THEN [t EXCEPT !.rules[c] = RemoveAt(@, n)] ELSE t

\* The first of a chain's rules equal to r.
FirstEqual(s, r) ==
  CHOOSE k \in DOMAIN s : s[k] = r /\ \A j \in DOMAIN s : s[j] = r => k <= j

\* iptables -D c r: the first rule equal to r only.
DeleteRule(t, c, r) ==
  IF HasRule(t, c, r) THEN DeleteLine(t, c, FirstEqual(t.rules[c], r)) ELSE t

\* iptables -F c
FlushChain(t, c) == IF c \in t.known THEN [t EXCEPT !.rules[c] = <<>>] ELSE t

\* iptables -X c: refused while c has rules or a rule of another chain jumps to it.
Referenced(t, c) ==
  \E b \in t.known : \E k \in DOMAIN t.rules[b] : t.rules[b][k].target = c

DeleteChain(t, c) ==
  IF c \in t.known /\ t.rules[c] = <<>> /\ ~Referenced(t, c)
  THEN [t EXCEPT !.known = @ \ {c}] ELSE t

(***************************************************************************)
(* What the kernel does with a packet carrying the value v.                *)
(***************************************************************************)
Hits(s, v) == {k \in DOMAIN s : s[k].match \in {v, AnyMatch}}

\* The verdict of the rules s, none of which jumps: the first rule that
\* matches decides, and a packet no rule matches returns to the caller.
ChainVerdict(s, v) ==
  IF Hits(s, v) = {} THEN "RETURN"
  ELSE s[CHOOSE k \in Hits(s, v) : \A j \in Hits(s, v) : k <= j].target
=============================================================================
