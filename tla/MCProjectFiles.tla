---------------------------- MODULE MCProjectFiles ----------------------------
(*****************************************************************************)
(* Values for ProjectFiles: two writers of a lock; two agents with two tries  *)
(* and a window that saves twice; a folder of version 1 and a repository,     *)
(* each saved twice; an open project of two files with two writes by others,  *)
(* an edit and a save; a session file with four changes over two sessions.    *)
(*****************************************************************************)
EXTENDS ProjectFiles, TLC

CONSTANTS w1, w2, a1, a2, d1
TwoWriters == {w1, w2}
TwoAgents == {a1, a2}
OneDesktop == {d1}

Absent(S) == [p \in S |-> 0]

\* A version 1 folder that is saved as a repository of one process
Converted ==
    [order |-> <<"p/model", "p/scenario", "p/run", "manifest", "model", "scenario">>,
     runs |-> {"p/run"}, retired |-> {"model", "scenario"},
     before |-> "manifest" :> 2 @@ "model" :> 3 @@ "scenario" :> 4
                @@ Absent({"p/model", "p/scenario", "p/run"}),
     wasRepository |-> FALSE, oldFiles |-> {"model"}, newFiles |-> {"p/model"}]

\* A repository of one process that is saved again, with a scenario and a run more
Repository ==
    [order |-> <<"p/model", "p/scenario", "p/run", "manifest">>,
     runs |-> {"p/run"}, retired |-> {},
     before |-> "manifest" :> 2 @@ "p/model" :> 3 @@ Absent({"p/scenario", "p/run"}),
     wasRepository |-> TRUE, oldFiles |-> {"p/model"}, newFiles |-> {"p/model"}]

TwoFolders == {Converted, Repository}

\* Where nothing happens to the folder, one of the two is enough.
MCInit == FilesInit /\ (atWork # "folder" => folder = Converted)
MCSpec == MCInit /\ [][FilesNext]_allVars /\ FilesFairness
=============================================================================
