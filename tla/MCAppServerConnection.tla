------------------------ MODULE MCAppServerConnection -----------------------
(* Small instances of AppServerConnection for TLC.                         *)
EXTENDS AppServerConnection, TLC

Symmetry == Permutations(Callers)
=============================================================================
