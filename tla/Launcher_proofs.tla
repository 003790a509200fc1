---------------------------- MODULE Launcher_proofs ----------------------------
(***************************************************************************)
(* The safety properties of Launcher, for any catalogues, settings files,  *)
(* releases of Claude Code and answers of the release origin, and any      *)
(* number of rounds of the readiness poll.                                 *)
(***************************************************************************)
EXTENDS Launcher, TLAPS

\* Commands by what has happened before them.
Offered    == {"revalidate", "launch", "running"}
Published  == {"health", "create settings", "write"} \cup Offered
Checked    == {"serve", "pid", "poll", "published"} \cup Published
Contracted == {"settings", "claude", "version", "preflight"} \cup Checked
Over       == CleanupSteps \cup {"ended"}
Removing   == {"remove ready", "remove settings", "remove snapshot", "remove workspace", "ended"}

\* Each user of the snapshot has read the same one, once it has read it.
CatalogueInv ==
  /\ pc \in Contracted => told.contract = snapshot /\ snapshot \in Acceptable
  /\ pc \in Checked => told.checked = snapshot
  /\ address = "written" => bridge # "absent" /\ told.served = snapshot
  /\ pc \in Published => address = "written"
  /\ pc \in Offered => told.offered = snapshot
  /\ bridge # "absent" => pc \in BridgeCommands \cup Over

\* Claude Code runs exactly while the script waits for it.
ClaudeInv ==
  /\ claude = "running" <=> pc = "running"
  /\ claude # "absent" => pc \in {"running"} \cup Over

Official(file) == \A release \in validated : file.header = "native" /\ file.release = release.version

\* From the second validation on, nothing but a late replacement can start
\* another file.
ReleaseInv ==
  /\ pc = "launch" => "claude" \in edits \/ Official(binary)
  /\ pc = "running" => "claude" \in edits \/ \A file \in started : Official(file)

Harmless(file) == ~RedirectsModels(file) /\ ~DisablesHooks(file)

\* Commands between validate-settings and the start of Claude Code.
Vetted == Contracted \ {"settings", "running"}

\* What validate-settings has read is harmless, and so is each change that the
\* hook has let through, however long Claude Code takes to act on it; what rests
\* on these alone is harmless, too.
SettingsInv ==
  /\ pc \in Vetted => vetted \in [Scopes -> SettingsFiles] /\ \A s \in Scopes : Harmless(vetted[s])
  /\ \A change \in granted : Harmless(change.file)
  /\ pc = "running" =>
       /\ applied \in [Scopes -> SettingsFiles]
       /\ basis = "checked" => \A s \in Scopes : Harmless(applied[s])

\* The script's variables name what there is, and each file goes in its turn.
FilesInv ==
  lapses = {} =>
    /\ files \subseteq known
    /\ pc # "ready file" => "ready" \in known
    /\ bridge # "absent" /\ pc # "pid" => "bridge" \in known
    /\ pc \in Removing => BridgeGone
    /\ pc \in Removing \ {"remove ready"} => "ready" \notin files
    /\ pc \in {"remove snapshot", "remove workspace", "ended"} => "settings" \notin files
    /\ pc \in {"remove workspace", "ended"} => "snapshot" \notin files
    /\ pc = "ended" => "workspace" \notin files

\* Only a bridge that is at work or was killed has a home.
HomeInv == home = "present" => bridge \in {"serving", "draining", "killed"}

IInv == TypeOK /\ CatalogueInv /\ ClaudeInv /\ ReleaseInv /\ SettingsInv /\ FilesInv /\ HomeInv

-----------------------------------------------------------------------------
\* One round of the poll less is still a number of rounds.
LEMMA RoundsLeft ==
  ASSUME NEW n \in Nat, NEW left, left \in {n, n - 1}, n > 0 \/ left = n
  PROVE  left \in Nat
OBVIOUS

\* Steps keep the types of the script's state.
LEMMA ScriptTypesKept ==
  ASSUME ScriptTypes, [Next]_vars
  PROVE  ScriptTypes'
<1> USE LauncherAssumption
       DEF ScriptTypes, Goto, Exit,
           scriptVars, bridgeVars, claudeVars, guardVars, userVars, history,
           Unprepared, BeforeBridge, BridgeCommands, CleanupSteps, None
<1>1. CASE CreateReadyFile \/ CreateWorkspace \/ InstallTraps
  BY <1>1 DEF CreateReadyFile, CreateWorkspace, InstallTraps, Die
<1>2. CASE CreateSnapshot \/ CopyCatalogue \/ ReadContract \/ ValidateSettings
  BY <1>2 DEF CreateSnapshot, CopyCatalogue, ReadContract, ValidateSettings
<1>3. CASE ValidateClaude \/ WaitingStep
  BY <1>3 DEF ValidateClaude, WaitingStep, ProbeVersion, RunPreflight, ClaudeEnds, Resume
<1>4. CASE StartBridge \/ NotePid \/ Poll \/ CheckPublished \/ CheckHealth
  <2>1. CASE StartBridge \/ CheckPublished \/ CheckHealth
    BY <2>1 DEF StartBridge, CheckPublished, CheckHealth
  <2>2. CASE NotePid
    BY <2>2 DEF NotePid
  <2>3. CASE Poll
    <3>1. attempts' \in {attempts, attempts - 1} /\ (attempts > 0 \/ attempts' = attempts)
      BY <2>3 DEF Poll
    <3>2. attempts' \in Nat
      BY <3>1, RoundsLeft DEF ScriptTypes
    <3>3. pc' \in {"poll", "published", "interrupt"}
      BY <2>3 DEF Poll
    <3> QED  BY <2>3, <3>2, <3>3 DEF Poll
  <2> QED  BY <1>4, <2>1, <2>2, <2>3
<1>5. CASE CreateSettings \/ WriteSettings \/ RevalidateClaude \/ StartClaude
  BY <1>5 DEF CreateSettings, WriteSettings, RevalidateClaude, StartClaude,
     ReadSettings
<1>6. CASE CleanupStep
  BY <1>6 DEF CleanupStep, Interrupt, Terminate, Kill, Reap, RemoveFiles, Remove, BridgeGone
<1>7. CASE BridgeStep
  BY <1>7 DEF BridgeStep, BridgePublishes, BridgeListens, BeginExchange, LaunchAppServer,
     EndExchange, BridgeDrained, BridgeCrashes, BridgeGone
<1>8. CASE Signal
  BY <1>8 DEF Signal, Waiting
<1>9. CASE EditCatalogue \/ ReplaceClaude \/ ReloadStep
  BY <1>9 DEF EditCatalogue, ReplaceClaude, ReloadStep, GuardChange, ApplyChange, ApplyUndecided,
     ApplyUnguarded, BeforeClaude
<1>10. CASE Ended \/ UNCHANGED vars
  BY <1>10 DEF Ended, vars
<1> QED
  BY <1>1, <1>2, <1>3, <1>4, <1>5, <1>6, <1>7, <1>8, <1>9, <1>10
     DEF Next, ScriptStep, PrepareStep, LaunchStep, UserStep

\* Steps keep the types of the processes' state.
LEMMA ProcessTypesKept ==
  ASSUME ProcessTypes, [Next]_vars
  PROVE  ProcessTypes'
<1> USE DEF ProcessTypes, Goto, Exit,
           scriptVars, bridgeVars, claudeVars, guardVars, userVars, history, None
<1>1. CASE CreateReadyFile \/ CreateWorkspace \/ InstallTraps
  BY <1>1 DEF CreateReadyFile, CreateWorkspace, InstallTraps, Die
<1>2. CASE CreateSnapshot \/ CopyCatalogue \/ ReadContract \/ ValidateSettings
  BY <1>2 DEF CreateSnapshot, CopyCatalogue, ReadContract, ValidateSettings
<1>3. CASE ValidateClaude \/ WaitingStep
  BY <1>3 DEF ValidateClaude, WaitingStep, ProbeVersion, RunPreflight, ClaudeEnds, Resume
<1>4. CASE StartBridge \/ NotePid \/ Poll \/ CheckPublished \/ CheckHealth
  BY <1>4 DEF StartBridge, NotePid, Poll, CheckPublished, CheckHealth
<1>5. CASE CreateSettings \/ WriteSettings \/ RevalidateClaude \/ StartClaude
  BY <1>5 DEF CreateSettings, WriteSettings, RevalidateClaude, StartClaude,
     ReadSettings
<1>6. CASE CleanupStep
  BY <1>6 DEF CleanupStep, Interrupt, Terminate, Kill, Reap, RemoveFiles, Remove, BridgeGone
<1>7. CASE BridgeStep
  BY <1>7 DEF BridgeStep, BridgePublishes, BridgeListens, BeginExchange, LaunchAppServer,
     EndExchange, BridgeDrained, BridgeCrashes, BridgeGone
<1>8. CASE Signal
  BY <1>8 DEF Signal, Waiting
<1>9. CASE EditCatalogue \/ ReplaceClaude \/ ReloadStep
  BY <1>9 DEF EditCatalogue, ReplaceClaude, ReloadStep, GuardChange, ApplyChange, ApplyUndecided,
     ApplyUnguarded, BeforeClaude
<1>10. CASE Ended \/ UNCHANGED vars
  BY <1>10 DEF Ended, vars
<1> QED
  BY <1>1, <1>2, <1>3, <1>4, <1>5, <1>6, <1>7, <1>8, <1>9, <1>10
     DEF Next, ScriptStep, PrepareStep, LaunchStep, UserStep

\* Steps keep the types of the contents of files and of the history.
LEMMA ContentTypesKept ==
  ASSUME ContentTypes, [Next]_vars
  PROVE  ContentTypes'
<1> USE LauncherAssumption
       DEF ContentTypes, Goto, Exit,
           scriptVars, bridgeVars, claudeVars, guardVars, userVars, history
<1>1. CASE CreateReadyFile \/ CreateWorkspace \/ InstallTraps
  BY <1>1 DEF CreateReadyFile, CreateWorkspace, InstallTraps, Die
<1>2. CASE CreateSnapshot \/ CopyCatalogue \/ ReadContract \/ ValidateSettings
  BY <1>2 DEF CreateSnapshot, CopyCatalogue, ReadContract, ValidateSettings
<1>3. CASE ValidateClaude \/ WaitingStep
  BY <1>3 DEF ValidateClaude, WaitingStep, ProbeVersion, RunPreflight, ClaudeEnds, Resume
<1>4. CASE StartBridge \/ NotePid \/ Poll \/ CheckPublished \/ CheckHealth
  BY <1>4 DEF StartBridge, NotePid, Poll, CheckPublished, CheckHealth
<1>5. CASE CreateSettings \/ WriteSettings \/ RevalidateClaude \/ StartClaude
  BY <1>5 DEF CreateSettings, WriteSettings, RevalidateClaude, StartClaude,
     ReadSettings
<1>6. CASE CleanupStep
  BY <1>6 DEF CleanupStep, Interrupt, Terminate, Kill, Reap, RemoveFiles, Remove, BridgeGone
<1>7. CASE BridgeStep
  BY <1>7 DEF BridgeStep, BridgePublishes, BridgeListens, BeginExchange, LaunchAppServer,
     EndExchange, BridgeDrained, BridgeCrashes, BridgeGone
<1>8. CASE Signal
  BY <1>8 DEF Signal, Waiting
<1>9. CASE EditCatalogue \/ ReplaceClaude \/ ReloadStep
  BY <1>9 DEF EditCatalogue, ReplaceClaude, ReloadStep, GuardChange, ApplyChange, ApplyUndecided,
     ApplyUnguarded, BeforeClaude
<1>10. CASE Ended \/ UNCHANGED vars
  BY <1>10 DEF Ended, vars
<1> QED
  BY <1>1, <1>2, <1>3, <1>4, <1>5, <1>6, <1>7, <1>8, <1>9, <1>10
     DEF Next, ScriptStep, PrepareStep, LaunchStep, UserStep

\* What the users of the snapshot were told stays what it is.
LEMMA CatalogueKept ==
  ASSUME ScriptTypes, ContentTypes, CatalogueInv, [Next]_vars
  PROVE  CatalogueInv'
<1> USE DEF ScriptTypes, ContentTypes, CatalogueInv, Goto, Exit,
           scriptVars, bridgeVars, claudeVars, guardVars, userVars, history,
           Unprepared, BeforeBridge, BridgeCommands, CleanupSteps,
           Offered, Published, Checked, Contracted, Over
<1>1. CASE CreateReadyFile \/ CreateWorkspace \/ InstallTraps
  BY <1>1 DEF CreateReadyFile, CreateWorkspace, InstallTraps, Die
<1>2. CASE CreateSnapshot \/ CopyCatalogue \/ ReadContract \/ ValidateSettings
  BY <1>2 DEF CreateSnapshot, CopyCatalogue, ReadContract, ValidateSettings
<1>3. CASE ValidateClaude \/ WaitingStep
  BY <1>3 DEF ValidateClaude, WaitingStep, ProbeVersion, RunPreflight, ClaudeEnds, Resume
<1>4. CASE StartBridge \/ NotePid \/ Poll \/ CheckPublished \/ CheckHealth
  BY <1>4 DEF StartBridge, NotePid, Poll, CheckPublished, CheckHealth
<1>5. CASE CreateSettings \/ WriteSettings \/ RevalidateClaude \/ StartClaude
  BY <1>5 DEF CreateSettings, WriteSettings, RevalidateClaude, StartClaude,
     ReadSettings
<1>6. CASE CleanupStep
  BY <1>6 DEF CleanupStep, Interrupt, Terminate, Kill, Reap, RemoveFiles, Remove, BridgeGone
<1>7. CASE BridgeStep
  BY <1>7 DEF BridgeStep, BridgePublishes, BridgeListens, BeginExchange, LaunchAppServer,
     EndExchange, BridgeDrained, BridgeCrashes, BridgeGone
<1>8. CASE Signal
  BY <1>8 DEF Signal, Waiting
<1>9. CASE EditCatalogue \/ ReplaceClaude \/ ReloadStep
  BY <1>9 DEF EditCatalogue, ReplaceClaude, ReloadStep, GuardChange, ApplyChange, ApplyUndecided,
     ApplyUnguarded, BeforeClaude
<1>10. CASE Ended \/ UNCHANGED vars
  BY <1>10 DEF Ended, vars
<1> QED
  BY <1>1, <1>2, <1>3, <1>4, <1>5, <1>6, <1>7, <1>8, <1>9, <1>10
     DEF Next, ScriptStep, PrepareStep, LaunchStep, UserStep

\* Claude Code runs while the script waits for it.
LEMMA ClaudeKept ==
  ASSUME ScriptTypes, ProcessTypes, ClaudeInv, [Next]_vars
  PROVE  ClaudeInv'
<1> USE DEF ScriptTypes, ProcessTypes, ClaudeInv, Goto, Exit,
           scriptVars, bridgeVars, claudeVars, guardVars, userVars, history,
           Unprepared, BeforeBridge, BridgeCommands, CleanupSteps, Over
<1>1. CASE CreateReadyFile \/ CreateWorkspace \/ InstallTraps
  BY <1>1 DEF CreateReadyFile, CreateWorkspace, InstallTraps, Die
<1>2. CASE CreateSnapshot \/ CopyCatalogue \/ ReadContract \/ ValidateSettings
  BY <1>2 DEF CreateSnapshot, CopyCatalogue, ReadContract, ValidateSettings
<1>3. CASE ValidateClaude \/ WaitingStep
  BY <1>3 DEF ValidateClaude, WaitingStep, ProbeVersion, RunPreflight, ClaudeEnds, Resume
<1>4. CASE StartBridge \/ NotePid \/ Poll \/ CheckPublished \/ CheckHealth
  BY <1>4 DEF StartBridge, NotePid, Poll, CheckPublished, CheckHealth
<1>5. CASE CreateSettings \/ WriteSettings \/ RevalidateClaude \/ StartClaude
  BY <1>5 DEF CreateSettings, WriteSettings, RevalidateClaude, StartClaude,
     ReadSettings
<1>6. CASE CleanupStep
  BY <1>6 DEF CleanupStep, Interrupt, Terminate, Kill, Reap, RemoveFiles, Remove, BridgeGone
<1>7. CASE BridgeStep
  BY <1>7 DEF BridgeStep, BridgePublishes, BridgeListens, BeginExchange, LaunchAppServer,
     EndExchange, BridgeDrained, BridgeCrashes, BridgeGone
<1>8. CASE Signal
  BY <1>8 DEF Signal, Waiting
<1>9. CASE EditCatalogue \/ ReplaceClaude \/ ReloadStep
  BY <1>9 DEF EditCatalogue, ReplaceClaude, ReloadStep, GuardChange, ApplyChange, ApplyUndecided,
     ApplyUnguarded, BeforeClaude
<1>10. CASE Ended \/ UNCHANGED vars
  BY <1>10 DEF Ended, vars
<1> QED
  BY <1>1, <1>2, <1>3, <1>4, <1>5, <1>6, <1>7, <1>8, <1>9, <1>10
     DEF Next, ScriptStep, PrepareStep, LaunchStep, UserStep

-----------------------------------------------------------------------------
\* The second validation vouches for the file that lies there, and for what it is.
LEMMA RevalidationVouches ==
  ASSUME ContentTypes, RevalidateClaude, pc' = "launch"
  PROVE  Official(binary)
<1>1. PICK reply \in Replies : OfficialClaude(resolves, reply, binary) /\ validated = {resolves}
  BY DEF RevalidateClaude, Goto, Exit
<1>2. /\ binary.header = "native"
      /\ binary.digest = reply.manifest.checksum.digest
      /\ reply.manifest.version = resolves.version
  BY <1>1 DEF OfficialClaude, NativeHeader, DescribesRelease
<1>3. binary.release = resolves.version
  BY <1>2, OriginAssumption DEF ContentTypes
<1> QED  BY <1>1, <1>2, <1>3 DEF Official

\* Only a replacement after the second validation starts another file.
LEMMA ReleaseKept ==
  ASSUME ScriptTypes, ContentTypes, ClaudeInv, ReleaseInv, [Next]_vars
  PROVE  ReleaseInv'
<1> USE DEF ScriptTypes, ContentTypes, ClaudeInv, ReleaseInv, Official, Goto, Exit,
           scriptVars, bridgeVars, claudeVars, guardVars, userVars, history,
           Unprepared, BeforeBridge, BridgeCommands, CleanupSteps, Over
<1>1. CASE CreateReadyFile \/ CreateWorkspace \/ InstallTraps
  BY <1>1 DEF CreateReadyFile, CreateWorkspace, InstallTraps, Die
<1>2. CASE CreateSnapshot \/ CopyCatalogue \/ ReadContract \/ ValidateSettings
  BY <1>2 DEF CreateSnapshot, CopyCatalogue, ReadContract, ValidateSettings
<1>3. CASE ValidateClaude \/ WaitingStep
  BY <1>3 DEF ValidateClaude, WaitingStep, ProbeVersion, RunPreflight, ClaudeEnds, Resume
<1>4. CASE StartBridge \/ NotePid \/ Poll \/ CheckPublished \/ CheckHealth
  BY <1>4 DEF StartBridge, NotePid, Poll, CheckPublished, CheckHealth
<1>5. CASE CreateSettings \/ WriteSettings \/ RevalidateClaude \/ StartClaude
  <2>1. CASE RevalidateClaude
    <3>1. pc' = "launch" => Official(binary)
      BY <2>1, RevalidationVouches
    <3> QED  BY <2>1, <3>1 DEF RevalidateClaude
  <2>2. CASE CreateSettings \/ WriteSettings
    BY <2>2 DEF CreateSettings, WriteSettings
  <2>3. CASE StartClaude
    BY <2>3 DEF StartClaude
  <2> QED  BY <1>5, <2>1, <2>2, <2>3
<1>6. CASE CleanupStep
  BY <1>6 DEF CleanupStep, Interrupt, Terminate, Kill, Reap, RemoveFiles, Remove, BridgeGone
<1>7. CASE BridgeStep
  BY <1>7 DEF BridgeStep, BridgePublishes, BridgeListens, BeginExchange, LaunchAppServer,
     EndExchange, BridgeDrained, BridgeCrashes, BridgeGone
<1>8. CASE Signal
  BY <1>8 DEF Signal, Waiting
<1>9. CASE EditCatalogue \/ ReplaceClaude \/ ReloadStep
  BY <1>9 DEF EditCatalogue, ReplaceClaude, ReloadStep, GuardChange, ApplyChange, ApplyUndecided,
     ApplyUnguarded, BeforeClaude
<1>10. CASE Ended \/ UNCHANGED vars
  BY <1>10 DEF Ended, vars
<1> QED
  BY <1>1, <1>2, <1>3, <1>4, <1>5, <1>6, <1>7, <1>8, <1>9, <1>10
     DEF Next, ScriptStep, PrepareStep, LaunchStep, UserStep

-----------------------------------------------------------------------------
\* A file that validate_file accepts has no effect it should not have.
LEMMA SafeIsHarmless ==
  ASSUME NEW file, SafeFile(file)
  PROVE  Harmless(file)
BY Zenon DEF SafeFile, Harmless, RedirectsModels, DisablesHooks

\* What the hook lets through is harmless.
LEMMA GrantedIsHarmless ==
  ASSUME GuardChange, \A change \in granted : Harmless(change.file)
  PROVE  \A change \in granted' : Harmless(change.file)
<1>1. PICK s \in Scopes, input \in HookInputs, file \in SettingsFiles :
        GuardAllows(input, file) /\ granted' = granted \cup {[scope |-> s, file |-> file]}
  BY DEF GuardChange
<1>2. Harmless(file)
  BY <1>1, SafeIsHarmless DEF GuardAllows
<1> QED  BY <1>1, <1>2

\* With such a change Claude Code goes from harmless settings to harmless ones, if
\* nothing has been edited and nothing is read besides.
LEMMA AppliedIsHarmless ==
  ASSUME GuardTypes, ApplyChange, \A change \in granted : Harmless(change.file),
         basis = "checked" => \A s \in Scopes : Harmless(applied[s])
  PROVE  /\ applied' \in [Scopes -> SettingsFiles]
         /\ granted' \subseteq granted
         /\ basis' = "checked" => \A s \in Scopes : Harmless(applied'[s])
<1>1. PICK change \in granted, found \in [Scopes -> SettingsFiles] :
        /\ applied' = found
        /\ granted' = granted \ {change}
        /\ basis' = IF AsChecked(change, found) THEN basis ELSE "unchecked"
  BY DEF ApplyChange
<1>2. ASSUME basis' = "checked", NEW s \in Scopes  PROVE Harmless(found[s])
  <2>1. AsChecked(change, found) /\ basis = "checked"
    BY <1>1, <1>2
  <2>2. CASE s = change.scope
    BY <2>1, <2>2 DEF AsChecked
  <2>3. CASE s # change.scope
    BY <2>1, <2>3 DEF AsChecked
  <2> QED  BY <2>2, <2>3
<1> QED  BY <1>1, <1>2

\* Steps keep the types of what Claude Code has read.
LEMMA GuardTypesKept ==
  ASSUME GuardTypes, [Next]_vars
  PROVE  GuardTypes'
<1> USE DEF GuardTypes, Goto, Exit,
           scriptVars, bridgeVars, claudeVars, guardVars, userVars, history
<1>1. CASE CreateReadyFile \/ CreateWorkspace \/ InstallTraps
  BY <1>1 DEF CreateReadyFile, CreateWorkspace, InstallTraps, Die
<1>2. CASE CreateSnapshot \/ CopyCatalogue \/ ReadContract \/ ValidateSettings
  BY <1>2 DEF CreateSnapshot, CopyCatalogue, ReadContract, ValidateSettings
<1>3. CASE ValidateClaude \/ WaitingStep
  BY <1>3 DEF ValidateClaude, WaitingStep, ProbeVersion, RunPreflight, ClaudeEnds, Resume
<1>4. CASE StartBridge \/ NotePid \/ Poll \/ CheckPublished \/ CheckHealth
  BY <1>4 DEF StartBridge, NotePid, Poll, CheckPublished, CheckHealth
<1>5. CASE CreateSettings \/ WriteSettings \/ RevalidateClaude \/ StartClaude
  BY <1>5 DEF CreateSettings, WriteSettings, RevalidateClaude, StartClaude,
     ReadSettings
<1>6. CASE CleanupStep
  BY <1>6 DEF CleanupStep, Interrupt, Terminate, Kill, Reap, RemoveFiles, Remove, BridgeGone
<1>7. CASE BridgeStep
  BY <1>7 DEF BridgeStep, BridgePublishes, BridgeListens, BeginExchange, LaunchAppServer,
     EndExchange, BridgeDrained, BridgeCrashes, BridgeGone
<1>8. CASE Signal
  BY <1>8 DEF Signal, Waiting
<1>9. CASE EditCatalogue \/ ReplaceClaude \/ ReloadStep
  BY <1>9 DEF EditCatalogue, ReplaceClaude, ReloadStep, GuardChange, ApplyChange, ApplyUndecided,
     ApplyUnguarded, BeforeClaude
<1>10. CASE Ended \/ UNCHANGED vars
  BY <1>10 DEF Ended, vars
<1> QED
  BY <1>1, <1>2, <1>3, <1>4, <1>5, <1>6, <1>7, <1>8, <1>9, <1>10
     DEF Next, ScriptStep, PrepareStep, LaunchStep, UserStep

\* Neither time nor the order of changes makes checked settings harmful.
LEMMA SettingsKept ==
  ASSUME ScriptTypes, GuardTypes, ClaudeInv, SettingsInv, [Next]_vars
  PROVE  SettingsInv'
<1> USE DEF ScriptTypes, GuardTypes, ClaudeInv, SettingsInv, Goto, Exit, scriptVars, bridgeVars,
           claudeVars, guardVars, userVars, history, Unprepared, BeforeBridge, BridgeCommands,
           CleanupSteps, Offered, Published, Checked, Contracted, Vetted, Over
<1>1. CASE CreateReadyFile \/ CreateWorkspace \/ InstallTraps
  BY <1>1 DEF CreateReadyFile, CreateWorkspace, InstallTraps, Die
<1>2. CASE CreateSnapshot \/ CopyCatalogue \/ ReadContract \/ ValidateSettings
  <2>1. CASE ValidateSettings
    BY <2>1, SafeIsHarmless DEF ValidateSettings
  <2>2. CASE CreateSnapshot \/ CopyCatalogue \/ ReadContract
    BY <2>2 DEF CreateSnapshot, CopyCatalogue, ReadContract
  <2> QED  BY <1>2, <2>1, <2>2
<1>3. CASE ValidateClaude \/ WaitingStep
  BY <1>3 DEF ValidateClaude, WaitingStep, ProbeVersion, RunPreflight, ClaudeEnds, Resume
<1>4. CASE StartBridge \/ NotePid \/ Poll \/ CheckPublished \/ CheckHealth
  BY <1>4 DEF StartBridge, NotePid, Poll, CheckPublished, CheckHealth
<1>5. CASE CreateSettings \/ WriteSettings \/ RevalidateClaude \/ StartClaude
  <2>1. CASE StartClaude
    BY <2>1 DEF StartClaude, ReadSettings
  <2>2. CASE CreateSettings \/ WriteSettings \/ RevalidateClaude
    BY <2>2 DEF CreateSettings, WriteSettings, RevalidateClaude
  <2> QED  BY <1>5, <2>1, <2>2
<1>6. CASE CleanupStep
  BY <1>6 DEF CleanupStep, Interrupt, Terminate, Kill, Reap, RemoveFiles, Remove, BridgeGone
<1>7. CASE BridgeStep
  BY <1>7 DEF BridgeStep, BridgePublishes, BridgeListens, BeginExchange, LaunchAppServer,
     EndExchange, BridgeDrained, BridgeCrashes, BridgeGone
<1>8. CASE Signal
  BY <1>8 DEF Signal, Waiting
<1>9. CASE EditCatalogue \/ ReplaceClaude \/ ReloadStep
  <2>1. CASE GuardChange
    BY <2>1, GrantedIsHarmless DEF GuardChange
  <2>2. CASE ApplyChange
    BY <2>2, AppliedIsHarmless DEF ApplyChange
  <2>3. CASE ApplyUndecided \/ ApplyUnguarded
    <3>1. pc = "running"
      BY <2>3 DEF ApplyUndecided, ApplyUnguarded
    <3>2. CASE ApplyUndecided
      BY <3>1, <3>2 DEF ApplyUndecided
    <3>3. CASE ApplyUnguarded
      <4>1. basis # "checked"
        BY <3>1, <3>3 DEF ApplyUnguarded, HooksDisabled, Harmless
      <4> QED  BY <3>1, <3>3, <4>1 DEF ApplyUnguarded
    <3> QED  BY <2>3, <3>2, <3>3
  <2>4. CASE EditCatalogue \/ ReplaceClaude
    BY <2>4 DEF EditCatalogue, ReplaceClaude, BeforeClaude
  <2> QED  BY <1>9, <2>1, <2>2, <2>3, <2>4 DEF ReloadStep
<1>10. CASE Ended \/ UNCHANGED vars
  BY <1>10 DEF Ended, vars
<1> QED
  BY <1>1, <1>2, <1>3, <1>4, <1>5, <1>6, <1>7, <1>8, <1>9, <1>10
     DEF Next, ScriptStep, PrepareStep, LaunchStep, UserStep

-----------------------------------------------------------------------------
\* Files and processes stay accounted for.
LEMMA FilesKept ==
  ASSUME ScriptTypes, ProcessTypes, CatalogueInv, FilesInv, [Next]_vars
  PROVE  FilesInv'
<1> USE DEF ScriptTypes, ProcessTypes, CatalogueInv, FilesInv, BridgeGone, Goto, Exit,
           scriptVars, bridgeVars, claudeVars, guardVars, userVars, history,
           Unprepared, BeforeBridge, BridgeCommands, CleanupSteps, Over, Removing
<1>1. CASE CreateReadyFile \/ CreateWorkspace \/ InstallTraps
  BY <1>1 DEF CreateReadyFile, CreateWorkspace, InstallTraps, Die
<1>2. CASE CreateSnapshot \/ CopyCatalogue \/ ReadContract \/ ValidateSettings
  BY <1>2 DEF CreateSnapshot, CopyCatalogue, ReadContract, ValidateSettings
<1>3. CASE ValidateClaude \/ WaitingStep
  BY <1>3 DEF ValidateClaude, WaitingStep, ProbeVersion, RunPreflight, ClaudeEnds, Resume
<1>4. CASE StartBridge \/ NotePid \/ Poll \/ CheckPublished \/ CheckHealth
  <2>1. CASE StartBridge \/ NotePid
    BY <2>1 DEF StartBridge, NotePid
  <2>2. CASE Poll \/ CheckPublished \/ CheckHealth
    BY <2>2 DEF Poll, CheckPublished, CheckHealth
  <2> QED  BY <1>4, <2>1, <2>2
<1>5. CASE CreateSettings \/ WriteSettings \/ RevalidateClaude \/ StartClaude
  BY <1>5 DEF CreateSettings, WriteSettings, RevalidateClaude, StartClaude,
     ReadSettings
<1>6. CASE CleanupStep
  <2>1. CASE Interrupt \/ Terminate
    BY <2>1 DEF Interrupt, Terminate
  <2>2. CASE Kill \/ Reap
    BY <2>2 DEF Kill, Reap
  <2>3. CASE Remove("remove ready", "ready", "remove settings")
    BY <2>3 DEF Remove
  <2>4. CASE Remove("remove settings", "settings", "remove snapshot")
    BY <2>4 DEF Remove
  <2>5. CASE Remove("remove snapshot", "snapshot", "remove workspace")
    BY <2>5 DEF Remove
  <2>6. CASE Remove("remove workspace", "workspace", "ended")
    BY <2>6 DEF Remove
  <2> QED  BY <1>6, <2>1, <2>2, <2>3, <2>4, <2>5, <2>6 DEF CleanupStep, RemoveFiles
<1>7. CASE BridgeStep
  <2>1. CASE BridgePublishes
    BY <2>1 DEF BridgePublishes
  <2>2. CASE BridgeListens \/ BeginExchange \/ LaunchAppServer \/ EndExchange
    BY <2>2 DEF BridgeListens, BeginExchange, LaunchAppServer, EndExchange
  <2>3. CASE BridgeDrained \/ BridgeCrashes
    BY <2>3 DEF BridgeDrained, BridgeCrashes
  <2> QED  BY <1>7, <2>1, <2>2, <2>3 DEF BridgeStep
<1>8. CASE Signal
  <2>1. CASE pc \in Unprepared \cup CleanupSteps \cup {"pid"}
    BY <1>8, <2>1 DEF Signal, Waiting
  <2>2. CASE pc \in Waiting
    BY <1>8, <2>2 DEF Signal, Waiting
  <2>3. CASE pc \notin Unprepared \cup CleanupSteps \cup {"pid"} \cup Waiting
    BY <1>8, <2>3 DEF Signal, Waiting
  <2> QED  BY <2>1, <2>2, <2>3
<1>9. CASE EditCatalogue \/ ReplaceClaude \/ ReloadStep
  BY <1>9 DEF EditCatalogue, ReplaceClaude, ReloadStep, GuardChange, ApplyChange, ApplyUndecided,
     ApplyUnguarded, BeforeClaude
<1>10. CASE Ended \/ UNCHANGED vars
  BY <1>10 DEF Ended, vars
<1> QED
  BY <1>1, <1>2, <1>3, <1>4, <1>5, <1>6, <1>7, <1>8, <1>9, <1>10
     DEF Next, ScriptStep, PrepareStep, LaunchStep, UserStep

\* The home goes with the bridge's destructors.
LEMMA HomeKept ==
  ASSUME ProcessTypes, CatalogueInv, HomeInv, [Next]_vars
  PROVE  HomeInv'
<1> USE DEF ProcessTypes, CatalogueInv, HomeInv, Goto, Exit,
           scriptVars, bridgeVars, claudeVars, guardVars,
           userVars, history, BridgeCommands, CleanupSteps, Over
<1>1. CASE CreateReadyFile \/ CreateWorkspace \/ InstallTraps
  BY <1>1 DEF CreateReadyFile, CreateWorkspace, InstallTraps, Die
<1>2. CASE CreateSnapshot \/ CopyCatalogue \/ ReadContract \/ ValidateSettings
  BY <1>2 DEF CreateSnapshot, CopyCatalogue, ReadContract, ValidateSettings
<1>3. CASE ValidateClaude \/ WaitingStep
  BY <1>3 DEF ValidateClaude, WaitingStep, ProbeVersion, RunPreflight, ClaudeEnds, Resume
<1>4. CASE StartBridge \/ NotePid \/ Poll \/ CheckPublished \/ CheckHealth
  BY <1>4 DEF StartBridge, NotePid, Poll, CheckPublished, CheckHealth
<1>5. CASE CreateSettings \/ WriteSettings \/ RevalidateClaude \/ StartClaude
  BY <1>5 DEF CreateSettings, WriteSettings, RevalidateClaude, StartClaude,
     ReadSettings
<1>6. CASE CleanupStep
  BY <1>6 DEF CleanupStep, Interrupt, Terminate, Kill, Reap, RemoveFiles, Remove, BridgeGone
<1>7. CASE BridgeStep
  BY <1>7 DEF BridgeStep, BridgePublishes, BridgeListens, BeginExchange, LaunchAppServer,
     EndExchange, BridgeDrained, BridgeCrashes, BridgeGone
<1>8. CASE Signal
  BY <1>8 DEF Signal, Waiting
<1>9. CASE EditCatalogue \/ ReplaceClaude \/ ReloadStep
  BY <1>9 DEF EditCatalogue, ReplaceClaude, ReloadStep, GuardChange, ApplyChange, ApplyUndecided,
     ApplyUnguarded, BeforeClaude
<1>10. CASE Ended \/ UNCHANGED vars
  BY <1>10 DEF Ended, vars
<1> QED
  BY <1>1, <1>2, <1>3, <1>4, <1>5, <1>6, <1>7, <1>8, <1>9, <1>10
     DEF Next, ScriptStep, PrepareStep, LaunchStep, UserStep

-----------------------------------------------------------------------------
LEMMA InitHolds == Init => IInv
<1> SUFFICES ASSUME Init PROVE IInv
  OBVIOUS
<1> USE LauncherAssumption DEF Init, None, BridgeGone, Unprepared, BeforeBridge, BridgeCommands,
           CleanupSteps, Offered, Published, Checked, Contracted, Over, Removing
<1>1. ScriptTypes
  BY DEF ScriptTypes
<1>2. ProcessTypes
  BY DEF ProcessTypes
<1>3. ContentTypes
  BY DEF ContentTypes
<1>4. CatalogueInv /\ ClaudeInv /\ ReleaseInv
  BY DEF CatalogueInv, ClaudeInv, ReleaseInv
<1>5. GuardTypes /\ SettingsInv
  BY DEF GuardTypes, SettingsInv, Vetted
<1>6. FilesInv /\ HomeInv
  BY DEF FilesInv, HomeInv
<1> QED  BY <1>1, <1>2, <1>3, <1>4, <1>5, <1>6 DEF IInv, TypeOK

\* Launcher keeps its inductive invariant, for any constants.
THEOREM Invariant == Spec => []IInv
<1>1. IInv /\ [Next]_vars => IInv'
  BY ScriptTypesKept, ProcessTypesKept, ContentTypesKept, GuardTypesKept, CatalogueKept,
     ClaudeKept, ReleaseKept, SettingsKept, FilesKept, HomeKept DEF IInv, TypeOK
<1> QED  BY <1>1, InitHolds, PTL DEF Spec

\* The state has its types.
THEOREM TypeCorrect == Spec => []TypeOK
<1>1. IInv => TypeOK
  BY DEF IInv
<1> QED  BY <1>1, Invariant, PTL

\* The catalogue is read once (scripts/model-rocket: the snapshot and its four users).
THEOREM CatalogueIsReadOnce == Spec => []OneCatalogue
<1>1. IInv => OneCatalogue
  BY DEF IInv, CatalogueInv, ClaudeInv, OneCatalogue, Offered, Published, Checked, Contracted
<1> QED  BY <1>1, Invariant, PTL

\* Only a replacement after the second validate-claude starts another file.
THEOREM ClaudeIsOfficial == Spec => []OnlyOfficialClaude
<1>1. IInv => OnlyOfficialClaude
  BY DEF IInv, ClaudeInv, ReleaseInv, Official, OnlyOfficialClaude
<1> QED  BY <1>1, Invariant, PTL

\* What the start-up check and the hook have read as it comes into use is harmless
\* (claude_settings.rs).
THEOREM SettingsAreHarmless == Spec => []SettingsStaySafe
<1>1. IInv => SettingsStaySafe
  BY DEF IInv, ClaudeInv, SettingsInv, Harmless, SettingsStaySafe
<1> QED  BY <1>1, Invariant, PTL

\* The cleanup of the script leaves no file and no bridge behind.
THEOREM CleanupIsComplete == Spec => []NothingOutlivesTheLaunch
<1>1. IInv => NothingOutlivesTheLaunch
  BY DEF IInv, TypeOK, ScriptTypes, FilesInv, HomeInv, BridgeGone, Removing,
     NothingOutlivesTheLaunch
<1> QED  BY <1>1, Invariant, PTL
=============================================================================
