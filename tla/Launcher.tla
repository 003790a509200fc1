------------------------------ MODULE Launcher ------------------------------
(***************************************************************************)
(* scripts/model-rocket: one launch of Claude Code behind the bridge, with *)
(* the life of the bridge process (main.rs: serve, shutdown_signal) and    *)
(* the guard of Claude's settings (claude_settings.rs).                    *)
(*                                                                         *)
(* A step is a command of the script.  Files the user owns may be edited   *)
(* between any two steps, signals may arrive at any moment, and how long   *)
(* anything takes is left open: the script's waits end in time or not.     *)
(* Of Claude Code, which is external, only what the script and the guard   *)
(* rely on is assumed: see the section on its settings.                    *)
(***************************************************************************)
EXTENDS Executables, FiniteSets

CONSTANTS
  Catalogues,       \* contents of the user's catalogue file
  Acceptable,       \* those that ModelCatalogue accepts
  Scopes,           \* Claude's lower-precedence settings: user, project, local
  SettingsFiles,    \* contents of the file of a scope
  MaxSettings,      \* MAX_SETTINGS_BYTES
  HookInputs,       \* what Claude hands to its ConfigChange hook
  Releases,         \* what the configured path of Claude Code may resolve to
  Replies,          \* answers of the release origin
  Binaries,         \* what may lie there
  StartupAttempts   \* BRIDGE_STARTUP_ATTEMPTS

None == "none"

ASSUME LauncherAssumption ==
  /\ None \notin Catalogues /\ Acceptable \subseteq Catalogues
  /\ MaxSettings \in Nat /\ StartupAttempts \in Nat

\* The digest a manifest publishes for a version is that of this version's file.
ASSUME OriginAssumption ==
  \A reply \in Replies, file \in Binaries :
    file.digest = reply.manifest.checksum.digest => file.release = reply.manifest.version

VARIABLES
  pc,          \* the command about to be run
  attempts,    \* rounds left in the readiness poll
  files,       \* launch-scoped files that exist
  known,       \* what the script's variables name: files, and the bridge's process
  pending,     \* has a signal arrived while a foreground command runs?
  bridge,      \* the bridge process
  address,     \* has the listener's address been written to the ready file?
  home,        \* the isolated Codex home of the bridge
  exchange,    \* does some connection to the bridge have a request in flight?
  claude,      \* Claude Code
  vetted,      \* the settings files that validate-settings has read, by scope, until the start
  applied,     \* those that Claude Code works with, by scope, if it runs
  granted,     \* changes of a scope that the hook let through, not yet acted on
  basis,       \* history: have only files come into use that a check had read as they are?
  config,      \* the user's catalogue
  resolves, binary,      \* what the path of Claude Code in use resolves to, its content
  snapshot,    \* content of the catalogue snapshot
  validated,   \* the contract of the first validate-claude, once it is there
  told,        \* history: which catalogue each user of the snapshot has read
  started,     \* the binary that runs as Claude Code, if it runs
  edits,       \* history: what was changed after it was looked at for the last time
  lapses       \* history: signals and errors at moments the script is not prepared for

scriptVars == <<attempts, files, known, pending, snapshot, validated>>
bridgeVars == <<bridge, address, home, exchange>>
guardVars  == <<vetted, applied, granted, basis>>
claudeVars == <<claude, guardVars, started>>
userVars   == <<config, resolves, binary>>
history    == <<told, edits, lapses>>
vars == <<pc, scriptVars, bridgeVars, claudeVars, userVars, history>>

Goto(step) == pc' = step

\* Foreground commands without a time limit: bash runs a trap when they are over.
Waiting == {"version", "preflight", "running"}
Unprepared == {"ready file", "workspace", "traps"}
CleanupSteps == {"interrupt", "terminate", "kill", "reap", "remove ready", "remove settings",
                 "remove snapshot", "remove workspace"}

BridgeGone == bridge \in {"absent", "exited", "killed"}

Init ==
  /\ pc = "ready file" /\ attempts = 0
  /\ files = {} /\ known = {} /\ pending = "none"
  /\ bridge = "absent" /\ address = None /\ home = "absent" /\ exchange = "closed"
  /\ claude = "absent" /\ started = {}
  /\ vetted = <<>> /\ applied = <<>> /\ granted = {} /\ basis = "checked"
  /\ config \in Catalogues
  /\ resolves \in Releases /\ binary \in Binaries
  /\ snapshot = None /\ validated = {}
  /\ told = [contract |-> None, checked |-> None, served |-> None, offered |-> None]
  /\ edits = {} /\ lapses = {}

-----------------------------------------------------------------------------
(* claude_settings.rs.                                                     *)

\* Mutant: a file without overrides is not looked at any further.
SafeFileOverrides(file) ==
  file.present => /\ file.readable /\ file.size <= MaxSettings /\ file.parses
                  /\ ~file.overrides

\* validate_file.
SafeFile(file) ==
  file.present => /\ file.readable /\ file.size <= MaxSettings /\ file.parses
                  /\ ~file.overrides /\ ~file.hooksDisabled

\* guard_config_change: does the hook let the change through?
GuardAllows(input, file) ==
  /\ input.size <= MaxSettings
  /\ input.parses
  /\ input.source \in {"user_settings", "project_settings", "local_settings"}
  /\ input.names
  /\ SafeFile(file)

-----------------------------------------------------------------------------
(* The script up to the start of the bridge.                               *)

\* The script ends before its traps are installed.
Die == Goto("ended") /\ lapses' = lapses \cup {"no trap yet"}

\* exit, with the trap on EXIT.
Exit == Goto("interrupt")

CreateReadyFile ==
  /\ pc = "ready file"
  /\ \/ files' = {"ready"} /\ known' = {"ready"} /\ Goto("workspace") /\ UNCHANGED lapses
     \/ Die /\ UNCHANGED <<files, known>>
  /\ UNCHANGED <<attempts, pending, snapshot, validated, bridgeVars, claudeVars, userVars,
                 told, edits>>

\* MODEL_ROCKET_CWD may name a directory of the caller's.
CreateWorkspace ==
  /\ pc = "workspace"
  /\ \/ \E own \in {{}, {"workspace"}} : files' = files \cup own /\ known' = known \cup own
        /\ Goto("traps") /\ UNCHANGED lapses
     \/ Die /\ UNCHANGED <<files, known>>
  /\ UNCHANGED <<attempts, pending, snapshot, validated, bridgeVars, claudeVars, userVars,
                 told, edits>>

InstallTraps ==
  /\ pc = "traps"
  /\ Goto("snapshot")
  /\ UNCHANGED <<scriptVars, bridgeVars, claudeVars, userVars, history>>

\* Mutant: the file is created, and its name assigned once it is filled.
CreateSnapshotUnnamed ==
  /\ pc = "snapshot"
  /\ \/ files' = files \cup {"snapshot"} /\ Goto("copy")
     \/ Exit /\ UNCHANGED files
  /\ UNCHANGED <<attempts, known, pending, snapshot, validated, bridgeVars, claudeVars,
                 userVars, history>>

\* After the checks of the bridge's path and the catalogue's.
CreateSnapshot ==
  /\ pc = "snapshot"
  /\ \/ files' = files \cup {"snapshot"} /\ known' = known \cup {"snapshot"} /\ Goto("copy")
     \/ Exit /\ UNCHANGED <<files, known>>
  /\ UNCHANGED <<attempts, pending, snapshot, validated, bridgeVars, claudeVars, userVars,
                 history>>

CopyCatalogue ==
  /\ pc = "copy"
  /\ \/ snapshot' = config /\ Goto("contract")
     \/ Exit /\ UNCHANGED snapshot
  /\ UNCHANGED <<attempts, files, known, pending, validated, bridgeVars, claudeVars, userVars,
                 history>>

\* launcher-contract; it may be refused, or not be what the script expects.
ReadContract ==
  /\ pc = "contract"
  /\ \/ /\ snapshot \in Acceptable
        /\ told' = [told EXCEPT !.contract = snapshot]
        /\ Goto("settings")
     \/ Exit /\ UNCHANGED told
  /\ UNCHANGED <<scriptVars, bridgeVars, claudeVars, userVars, edits, lapses>>

\* validate-settings, on the files of all scopes.
ValidateSettings ==
  /\ pc = "settings"
  /\ \E found \in [Scopes -> SettingsFiles] :
       IF \A s \in Scopes : SafeFile(found[s])
       THEN vetted' = found /\ Goto("claude")
       ELSE UNCHANGED vetted /\ Exit
  /\ UNCHANGED <<scriptVars, bridgeVars, claude, applied, granted, basis, started, userVars,
                 history>>

\* validate-claude; from here on the script uses the canonical path it printed.
ValidateClaude ==
  /\ pc = "claude"
  /\ \E reply \in Replies :
       IF OfficialClaude(resolves, reply, binary)
       THEN validated' = {resolves} /\ Goto("version")
       ELSE UNCHANGED validated /\ Exit
  /\ UNCHANGED <<attempts, files, known, pending, snapshot, bridgeVars, claudeVars, userVars,
                 history>>

\* The next command, or the trap that waited for this one.
Resume(step) == Goto(IF pending = "signal" THEN "interrupt" ELSE step)

\* `claude --version`, after the checks of the path of Codex.
ProbeVersion ==
  /\ pc = "version"
  /\ IF ExecutableFile(binary) /\ \A release \in validated : binary.prints = release.version
     THEN Resume("preflight") ELSE Exit
  /\ UNCHANGED <<scriptVars, bridgeVars, claudeVars, userVars, history>>

\* `model-rocket-bridge preflight` (module Preflight) has a verdict.
RunPreflight ==
  /\ pc = "preflight"
  /\ \/ Resume("serve") /\ told' = [told EXCEPT !.checked = snapshot]
     \/ Exit /\ UNCHANGED told
  /\ UNCHANGED <<scriptVars, bridgeVars, claudeVars, userVars, edits, lapses>>

-----------------------------------------------------------------------------
(* The script from the start of the bridge to the end of Claude Code.      *)

StartBridge ==
  /\ pc = "serve"
  /\ bridge' = "starting"
  /\ Goto("pid")
  /\ UNCHANGED <<scriptVars, address, home, exchange, claudeVars, userVars, history>>

NotePid ==
  /\ pc = "pid"
  /\ known' = known \cup {"bridge"}
  /\ attempts' = StartupAttempts
  /\ Goto("poll")
  /\ UNCHANGED <<files, pending, snapshot, validated, bridgeVars, claudeVars, userVars, history>>

\* One round of the readiness poll, or its end.
Poll ==
  /\ pc = "poll"
  /\ IF attempts > 0 /\ ~BridgeGone /\ address = None
     THEN attempts' = attempts - 1 /\ UNCHANGED pc
     ELSE IF attempts > 0 /\ BridgeGone THEN Exit /\ UNCHANGED attempts
     ELSE Goto("published") /\ UNCHANGED attempts
  /\ UNCHANGED <<files, known, pending, snapshot, validated, bridgeVars, claudeVars, userVars,
                 history>>

CheckPublished ==
  /\ pc = "published"
  /\ IF address = "written" THEN Goto("health") ELSE Exit
  /\ UNCHANGED <<scriptVars, bridgeVars, claudeVars, userVars, history>>

\* curl has an answer within its time, or not; then NO_PROXY is checked.
CheckHealth ==
  /\ pc = "health"
  /\ \/ bridge \in {"published", "serving"} /\ Goto("create settings")
     \/ Exit
  /\ UNCHANGED <<scriptVars, bridgeVars, claudeVars, userVars, history>>

CreateSettings ==
  /\ pc = "create settings"
  /\ \/ files' = files \cup {"settings"} /\ known' = known \cup {"settings"} /\ Goto("write")
     \/ Exit /\ UNCHANGED <<files, known>>
  /\ UNCHANGED <<attempts, pending, snapshot, validated, bridgeVars, claudeVars, userVars,
                 history>>

\* Mutant: the catalogue the user has now.
WriteCurrentSettings ==
  /\ pc = "write"
  /\ \/ Goto("revalidate") /\ told' = [told EXCEPT !.offered = config]
     \/ Exit /\ UNCHANGED told
  /\ UNCHANGED <<scriptVars, bridgeVars, claudeVars, userVars, edits, lapses>>

\* launcher-settings writes the routes of the snapshot.
WriteSettings ==
  /\ pc = "write"
  /\ \/ Goto("revalidate") /\ told' = [told EXCEPT !.offered = snapshot]
     \/ Exit /\ UNCHANGED told
  /\ UNCHANGED <<scriptVars, bridgeVars, claudeVars, userVars, edits, lapses>>

\* Mutant: that the executable is official again is enough.
RevalidateAny ==
  /\ pc = "revalidate"
  /\ \E reply \in Replies :
       IF OfficialClaude(resolves, reply, binary) THEN Goto("launch") ELSE Exit
  /\ UNCHANGED <<scriptVars, bridgeVars, claudeVars, userVars, history>>

\* The second validate-claude must print what the first one did.
RevalidateClaude ==
  /\ pc = "revalidate"
  /\ \E reply \in Replies :
       IF OfficialClaude(resolves, reply, binary) /\ validated = {resolves}
       THEN Goto("launch") ELSE Exit
  /\ UNCHANGED <<scriptVars, bridgeVars, claudeVars, userVars, history>>

\* Claude Code reads the files of all scopes.
ReadSettings ==
  /\ applied' \in [Scopes -> SettingsFiles]
  /\ basis' = IF applied' = vetted THEN "checked" ELSE "unchecked"
  /\ vetted' = <<>> /\ UNCHANGED granted

StartClaude ==
  /\ pc = "launch"
  /\ IF ExecutableFile(binary)
     THEN Goto("running") /\ claude' = "running" /\ started' = {binary} /\ ReadSettings
     ELSE Exit /\ UNCHANGED claudeVars
  /\ UNCHANGED <<scriptVars, bridgeVars, userVars, history>>

\* Claude Code ends; its status is the script's.
ClaudeEnds ==
  /\ pc = "running"
  /\ claude' = "exited" /\ started' = {}
  /\ applied' = <<>> /\ granted' = {} /\ basis' = "checked" /\ UNCHANGED vetted
  /\ Exit
  /\ UNCHANGED <<scriptVars, bridgeVars, userVars, history>>

-----------------------------------------------------------------------------
(* cleanup.  Between its steps the script waits about a second for the     *)
(* bridge to go.                                                           *)

\* kill -INT, when there is a process to send it to.  A background command of
\* a script ignores it until the bridge has installed its handler.
Interrupt ==
  /\ pc = "interrupt"
  /\ IF "bridge" \in known
     THEN Goto("terminate") /\ bridge' = IF bridge = "serving" THEN "draining" ELSE bridge
     ELSE Goto("remove ready") /\ UNCHANGED bridge
  /\ UNCHANGED <<scriptVars, address, home, exchange, claudeVars, userVars, history>>

\* kill -TERM, whose default action ends a bridge without handler.
Terminate ==
  /\ pc = "terminate"
  /\ bridge' = CASE bridge \in {"starting", "published"} -> "killed"
                 [] bridge = "serving"                   -> "draining"
                 [] OTHER                                -> bridge
  /\ Goto("kill")
  /\ UNCHANGED <<scriptVars, address, home, exchange, claudeVars, userVars, history>>

\* Mutant: two signals are thought to be enough.
KillNothing ==
  /\ pc = "kill"
  /\ Goto("reap")
  /\ UNCHANGED <<scriptVars, bridgeVars, claudeVars, userVars, history>>

\* kill -KILL: a bridge that is still draining ends without its destructors.
Kill ==
  /\ pc = "kill"
  /\ bridge' = IF BridgeGone THEN bridge ELSE "killed"
  /\ Goto("reap")
  /\ UNCHANGED <<scriptVars, address, home, exchange, claudeVars, userVars, history>>

Reap ==
  /\ pc = "reap"
  /\ BridgeGone
  /\ Goto("remove ready")
  /\ UNCHANGED <<scriptVars, bridgeVars, claudeVars, userVars, history>>

Remove(step, file, next) ==
  /\ pc = step
  /\ files' = IF file \in known THEN files \ {file} ELSE files
  /\ Goto(next)
  /\ UNCHANGED <<attempts, known, pending, snapshot, validated, bridgeVars, claudeVars,
                 userVars, history>>

RemoveFiles ==
  \/ Remove("remove ready", "ready", "remove settings")
  \/ Remove("remove settings", "settings", "remove snapshot")
  \/ Remove("remove snapshot", "snapshot", "remove workspace")
  \/ Remove("remove workspace", "workspace", "ended")

\* INT or TERM arrives, from the terminal also at the bridge.  Before the traps
\* it ends the script at once; in the cleanup, which is itself a trap, the exit
\* of the new one cuts the rest off.
Signal ==
  /\ pc # "ended"
  /\ \E group \in BOOLEAN :
       bridge' = IF group /\ bridge = "serving" THEN "draining" ELSE bridge
  /\ pending' = IF pc \in Waiting THEN "signal" ELSE pending
  /\ pc' = CASE pc \in Unprepared \cup CleanupSteps -> "ended"
             [] pc \in Waiting -> pc
             [] OTHER -> "interrupt"
  /\ lapses' = lapses \cup (CASE pc \in Unprepared   -> {"no trap yet"}
                              [] pc = "pid"          -> {"pid unknown"}
                              [] pc \in CleanupSteps -> {"in cleanup"}
                              [] OTHER               -> {})
  /\ UNCHANGED <<attempts, files, known, snapshot, validated, address, home, exchange,
                 claudeVars, userVars, told, edits>>

-----------------------------------------------------------------------------
(* The bridge.                                                             *)

\* Config::from_env, the listener, the ready file; any of them may fail.
BridgePublishes ==
  /\ bridge = "starting"
  /\ \/ /\ "snapshot" \in files /\ snapshot \in Acceptable
        /\ bridge' = "published" /\ address' = "written" /\ files' = files \cup {"ready"}
        /\ told' = [told EXCEPT !.served = snapshot]
     \/ bridge' = "exited" /\ UNCHANGED <<address, files, told>>
  /\ UNCHANGED <<pc, attempts, known, pending, snapshot, validated, home, exchange, claudeVars,
                 userVars, edits, lapses>>

\* axum polls shutdown_signal for the first time.
BridgeListens ==
  /\ bridge = "published"
  /\ bridge' = "serving"
  /\ UNCHANGED <<pc, scriptVars, address, home, exchange, claudeVars, userVars, history>>

\* A request of Claude's; the first one for a GPT route starts the App Server
\* in its isolated home.
BeginExchange ==
  /\ bridge = "serving" /\ claude = "running"
  /\ exchange' = "open"
  /\ UNCHANGED <<pc, scriptVars, bridge, address, home, claudeVars, userVars, history>>

LaunchAppServer ==
  /\ bridge \in {"serving", "draining"} /\ exchange = "open"
  /\ home' = "present"
  /\ UNCHANGED <<pc, scriptVars, bridge, address, exchange, claudeVars, userVars, history>>

EndExchange ==
  /\ exchange = "open"
  /\ exchange' = "closed"
  /\ UNCHANGED <<pc, scriptVars, bridge, address, home, claudeVars, userVars, history>>

\* The graceful shutdown is over when no exchange is; main returns.
BridgeDrained ==
  /\ bridge = "draining" /\ exchange = "closed"
  /\ bridge' = "exited" /\ home' = "absent"
  /\ UNCHANGED <<pc, scriptVars, address, exchange, claudeVars, userVars, history>>

BridgeCrashes ==
  /\ ~BridgeGone
  /\ bridge' = "killed"
  /\ UNCHANGED <<pc, scriptVars, address, home, exchange, claudeVars, userVars, history>>

-----------------------------------------------------------------------------
(* The user's files, and Claude Code.                                      *)

BeforeClaude == claude = "absent" /\ pc # "ended"

\* Nobody reads the catalogue or the executable once Claude Code runs.
EditCatalogue ==
  /\ BeforeClaude
  /\ config' \in Catalogues
  /\ UNCHANGED <<pc, scriptVars, bridgeVars, claudeVars, resolves, binary, history>>

ReplaceClaude ==
  /\ BeforeClaude
  /\ resolves' \in Releases /\ binary' \in Binaries
  /\ edits' = IF pc = "launch" THEN edits \cup {"claude"} ELSE edits
  /\ UNCHANGED <<pc, scriptVars, bridgeVars, claudeVars, config, told, lapses>>

-----------------------------------------------------------------------------
(* The settings of a running Claude Code.  A file may have been edited     *)
(* before each time it is read, so what a read finds is left open.  It is  *)
(* assumed that Claude Code works with the last it has read of each scope, *)
(* runs the hook when it has noticed a change unless hooks are disabled,   *)
(* and does not act on a change that was blocked.  Whether it reads the    *)
(* other scopes again with a change that was let through, and what it does *)
(* when the hook gives no decision, is left open.                          *)

\* A file that does not parse has no effect on Claude Code.
RedirectsModels(file) == file.present /\ file.parses /\ file.overrides
DisablesHooks(file)   == file.present /\ file.parses /\ file.hooksDisabled

HooksDisabled == \E s \in Scopes : DisablesHooks(applied[s])

\* The hook looks at the file it is told of and at no other.  A change that it
\* blocks has no effect.  A bound: one change of a scope at a time waits to be
\* acted on.
GuardChange ==
  /\ claude = "running" /\ ~HooksDisabled
  /\ \E s \in Scopes, input \in HookInputs, file \in SettingsFiles :
       /\ \A change \in granted : change.scope # s
       /\ GuardAllows(input, file)
       /\ granted' = granted \cup {[scope |-> s, file |-> file]}
  /\ UNCHANGED <<pc, scriptVars, bridgeVars, claude, vetted, applied, basis, started,
                 userVars, history>>

\* Are the settings that are read with a change the file that the hook had looked
\* at, and for the other scopes what was in use already?
AsChecked(change, found) ==
  /\ found[change.scope] = change.file
  /\ \A s \in Scopes \ {change.scope} : found[s] = applied[s]

\* Claude Code acts on a change, some time after the hook has let it through.
ApplyChange ==
  /\ claude = "running"
  /\ \E change \in granted, found \in [Scopes -> SettingsFiles] :
       /\ applied' = found
       /\ granted' = granted \ {change}
       /\ basis' = IF AsChecked(change, found) THEN basis ELSE "unchecked"
  /\ UNCHANGED <<pc, scriptVars, bridgeVars, claude, vetted, started, userVars, history>>

\* The hook is not done after its 5 seconds or cannot write that it blocks, and
\* Claude Code acts on the change nevertheless.
ApplyUndecided ==
  /\ claude = "running" /\ ~HooksDisabled
  /\ applied' \in [Scopes -> SettingsFiles]
  /\ basis' = "unchecked"
  /\ UNCHANGED <<pc, scriptVars, bridgeVars, claude, vetted, granted, started, userVars, history>>

\* Nobody is asked once hooks are disabled.
ApplyUnguarded ==
  /\ claude = "running" /\ HooksDisabled
  /\ applied' \in [Scopes -> SettingsFiles]
  /\ UNCHANGED <<pc, scriptVars, bridgeVars, claude, vetted, granted, basis, started, userVars,
                 history>>

Ended == pc = "ended" /\ BridgeGone /\ UNCHANGED vars

PrepareStep == CreateReadyFile \/ CreateWorkspace \/ InstallTraps \/ CreateSnapshot \/ CopyCatalogue
               \/ ReadContract \/ ValidateSettings \/ ValidateClaude
LaunchStep  == StartBridge \/ NotePid \/ Poll \/ CheckPublished \/ CheckHealth \/ CreateSettings
               \/ WriteSettings \/ RevalidateClaude \/ StartClaude
CleanupStep == Interrupt \/ Terminate \/ Kill \/ Reap \/ RemoveFiles
ScriptStep  == PrepareStep \/ LaunchStep \/ CleanupStep
WaitingStep == ProbeVersion \/ RunPreflight \/ ClaudeEnds
BridgeStep  == BridgePublishes \/ BridgeListens \/ BeginExchange \/ LaunchAppServer
               \/ EndExchange \/ BridgeDrained \/ BridgeCrashes
ReloadStep  == GuardChange \/ ApplyChange \/ ApplyUndecided \/ ApplyUnguarded
UserStep    == EditCatalogue \/ ReplaceClaude \/ ReloadStep \/ Signal

Next == ScriptStep \/ WaitingStep \/ BridgeStep \/ UserStep \/ Ended

Spec == Init /\ [][Next]_vars

\* The script goes on by itself.  Nothing is assumed of the bridge, which may
\* drain for ever, of Claude Code or of the commands without a time limit.
FairSpec == Spec /\ WF_vars(ScriptStep)

-----------------------------------------------------------------------------
(* Properties.                                                             *)

BeforeBridge   == {"snapshot", "copy", "contract", "settings", "claude", "version", "preflight",
                   "serve"}
BridgeCommands == {"pid", "poll", "published", "health", "create settings", "write", "revalidate",
                   "launch", "running"}

\* Every variable has its type.
ScriptTypes ==
  /\ pc \in Unprepared \cup BeforeBridge \cup BridgeCommands \cup CleanupSteps \cup {"ended"}
  /\ attempts \in Nat
  /\ files \subseteq {"ready", "workspace", "snapshot", "settings"}
  /\ known \subseteq {"ready", "workspace", "snapshot", "settings", "bridge"}
  /\ pending \in {None, "signal"}

ProcessTypes ==
  /\ bridge \in {"absent", "starting", "published", "serving", "draining", "exited", "killed"}
  /\ address \in {None, "written"} /\ home \in {"absent", "present"}
  /\ exchange \in {"closed", "open"}
  /\ claude \in {"absent", "running", "exited"}

ContentTypes ==
  /\ started \subseteq Binaries
  /\ config \in Catalogues
  /\ resolves \in Releases /\ binary \in Binaries
  /\ snapshot \in Catalogues \cup {None} /\ validated \subseteq Releases
  /\ told \in [contract : Catalogues \cup {None}, checked : Catalogues \cup {None},
               served : Catalogues \cup {None}, offered : Catalogues \cup {None}]
  /\ edits \subseteq {"claude"}
  /\ lapses \subseteq {"no trap yet", "pid unknown", "in cleanup"}

GuardTypes ==
  /\ vetted \in {<<>>} \cup [Scopes -> SettingsFiles]
  /\ applied \in {<<>>} \cup [Scopes -> SettingsFiles]
  /\ granted \subseteq [scope : Scopes, file : SettingsFiles]
  /\ basis \in {"checked", "unchecked"}

TypeOK == ScriptTypes /\ ProcessTypes /\ ContentTypes /\ GuardTypes

\* Claude Code is only told of routes that the bridge serves and that were
\* checked against the account, although the catalogue may be edited at any
\* time during the launch: contract, preflight, bridge and routing settings
\* all come from one accepted snapshot.
OneCatalogue ==
  claude = "running" =>
    /\ told.contract \in Acceptable
    /\ {told.checked, told.served, told.offered} = {told.contract}

\* What runs as Claude Code is the release whose version was probed, byte for
\* byte, unless it was replaced after its second validation.
OnlyOfficialClaude ==
  claude = "running" =>
    \/ "claude" \in edits
    \/ \A file \in started, release \in validated :
         file.header = "native" /\ file.release = release.version

\* As long as Claude Code has only come to use settings that validate-settings or
\* the hook had read as they are, none of them redirects models or disables the
\* hook, in no scope and after any number of changes, acted on in any order and
\* any time after they were let through.  A file that was edited after it was
\* validated or after the hook had looked at it, that is read along with the
\* change of another scope, or on which the hook gave no decision is "unchecked":
\* from then on nothing is claimed.
SettingsStaySafe ==
  claude = "running" /\ basis = "checked" =>
    \A s \in Scopes : ~RedirectsModels(applied[s]) /\ ~DisablesHooks(applied[s])

\* Whatever ends a launch, its files are gone and so is the bridge, except
\* when a signal or an error came before the traps were there, between the
\* start of the bridge and the assignment of its pid, or during the cleanup.
\* The isolated Codex home is only left behind by a bridge that was killed.
NothingOutlivesTheLaunch ==
  pc = "ended" /\ lapses = {} =>
    files = {} /\ BridgeGone /\ (home = "present" => bridge = "killed")

\* A launch ends, however long the bridge drains, unless a command that has no
\* time limit never ends.
EveryLaunchEnds == <>(pc = "ended") \/ <>[](pc \in Waiting)

\* REQ-018: the routing settings and the catalogue snapshot are removed when
\* Claude Code exits.  Not so when a signal interrupts the cleanup.
FilesAreRemovedAfterClaude ==
  pc = "ended" /\ claude = "exited" => files \cap {"settings", "snapshot"} = {}
=============================================================================
