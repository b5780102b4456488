----------------------------- MODULE MCQueryLog -----------------------------
(* Small instances of QueryLog for TLC. *)
EXTENDS QueryLog, TLC

CONSTANTS f1, f2

TwoFlushers == {f1, f2}

Scenario(ops, ioFails, fileEnabled, memSize) ==
  [ops |-> ops, ioFails |-> ioFails, fileEnabled |-> fileEnabled, memSize |-> memSize]

\* Failures without searches, searches without and with failures, a buffer that
\* no search reads, and a log that is kept in memory only.
MCScenarios ==
  { Scenario(Operations \ {"search"}, TRUE, TRUE, 2),
    Scenario(Operations \ {"shutdown"}, FALSE, TRUE, 2),
    Scenario({"clear", "rotate", "search"}, TRUE, TRUE, 2),
    Scenario({"rotate", "search", "shutdown", "kill"}, FALSE, TRUE, 0),
    Scenario(Operations, FALSE, FALSE, 2) }

Running == Scenario({"clear", "rotate"}, FALSE, TRUE, 2)
OnlyRunning == {Running}

Symmetric == Permutations(TwoFlushers)
=============================================================================
