------------------------------- MODULE FileMutex -------------------------------
(* What `${file}.lock` is for (packages/engine/src/project-fs/lilaFile.ts): at *)
(* most one writer at a time works on a .lila file.                            *)
CONSTANTS Writers, Nobody

VARIABLE holder

Init == holder = Nobody
Acquire(w) == holder = Nobody /\ holder' = w
Release(w) == holder = w /\ holder' = Nobody

Next == \E w \in Writers : Acquire(w) \/ Release(w)
Spec == Init /\ [][Next]_holder
=============================================================================
