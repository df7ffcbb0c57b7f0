------------------------------ MODULE MCRunsv ------------------------------
EXTENDS Runsv, TLC

PidSymmetry == Permutations(Pids)
=============================================================================
