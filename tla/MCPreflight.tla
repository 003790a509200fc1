----------------------------- MODULE MCPreflight -----------------------------
(* Preflight with two models, three cursors and a budget of three pages.   *)
EXTENDS Preflight

Pinned == [present |-> TRUE, regular |-> TRUE, runnable |-> TRUE, size |-> 1, read |-> 1,
           header |-> "native", digest |-> "pinned"]

\* The pinned release, and one file for each check it can fail.
MCFiles ==
  {Pinned, [Pinned EXCEPT !.digest = "other"], [Pinned EXCEPT !.present = FALSE],
   [Pinned EXCEPT !.regular = FALSE], [Pinned EXCEPT !.runnable = FALSE],
   [Pinned EXCEPT !.header = "script"], [Pinned EXCEPT !.size = 3], [Pinned EXCEPT !.read = 3]}

Env(codex, config, xdg, homeDir) ==
  [codex |-> codex, config |-> config, xdg |-> xdg, home |-> homeDir]

MCEnvironments ==
  {Env("unset", "unset", "", "absolute"), Env("absolute", "relative", "unset", "absolute"),
   Env("unset", "absolute", "unset", "unset")}

MCConfigured == <<"m1", "m2">>
=============================================================================
