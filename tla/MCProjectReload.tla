--------------------------- MODULE MCProjectReload ---------------------------
(* A project of one or two files, to check ProjectReload with.                *)
EXTENDS ProjectReload
=============================================================================
