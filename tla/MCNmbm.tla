------------------------------- MODULE MCNmbm -------------------------------
EXTENDS Nmbm
Budget(b, f, c) == [factoryBad |-> b, faults |-> f, crashes |-> c]
MCBudgets == {Budget({}, 2, 1), Budget({1}, 2, 1), Budget({6}, 2, 2),
              Budget({7}, 4, 0), Budget(3..6, 2, 1)}
SharedBudgets == {Budget({8}, 2, 1)}
=============================================================================
