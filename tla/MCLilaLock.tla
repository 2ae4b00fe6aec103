------------------------------ MODULE MCLilaLock ------------------------------
(* Small instances of the lock file.  Writers are interchangeable.             *)
EXTENDS LilaLock, TLC

CONSTANTS w1, w2, w3
TwoWriters == {w1, w2}
ThreeWriters == {w1, w2, w3}
Interchangeable == Permutations(Writers)
=============================================================================
