------------------------------ MODULE MCPasswd ------------------------------
(* Instances of Passwd for TLC.  Threads and blocks are interchangeable.    *)
EXTENDS Passwd, TLC

MCSymmetry == Permutations(Threads) \cup Permutations(Blocks)
MCReentrant == Reentrant
MCAllFunctions == AllFunctions
=============================================================================
