----------------------------- MODULE MCLauncher -----------------------------
(* A launch with two catalogues and two releases of Claude Code.           *)
EXTENDS Launcher

Path(version) == [absolute |-> TRUE, resolves |-> TRUE, printable |-> TRUE, version |-> version]
Old == <<1, 0, 0>>
New == <<1, 0, 1>>
MCReleases == {Path(Old), Path(New)}

\* The digest of a release is its version.
Binary(release) ==
  [present |-> TRUE, regular |-> TRUE, runnable |-> TRUE, size |-> 1, header |-> "native",
   digest |-> release, release |-> release, prints |-> release]
MCBinaries == {Binary(Old), Binary(New)}

Reply(version) ==
  [status |-> 200, announced |-> {}, chunks |-> <<1, 1>>,
   manifest |-> [parses |-> TRUE, version |-> version, artifact |-> "claude", size |-> 1,
                 checksum |-> [wellFormed |-> TRUE, digest |-> version]]]
MCReplies == {Reply(Old), Reply(New), [Reply(Old) EXCEPT !.status = 302]}

File(overrides, hooksDisabled) ==
  [present |-> TRUE, readable |-> TRUE, size |-> 1, parses |-> TRUE,
   overrides |-> overrides, hooksDisabled |-> hooksDisabled]
MCSettingsFiles == {File(FALSE, FALSE), File(TRUE, FALSE), File(FALSE, TRUE),
                    [File(FALSE, FALSE) EXCEPT !.present = FALSE]}

Input(source, names) == [size |-> 1, parses |-> TRUE, source |-> source, names |-> names]
MCHookInputs ==
  {Input("user_settings", TRUE), Input("local_settings", FALSE), Input("managed", TRUE)}
=============================================================================
