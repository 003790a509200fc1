------------------------------ MODULE Preflight ------------------------------
(***************************************************************************)
(* `model-rocket-bridge preflight`: configuration, the discovery launch of *)
(* the App Server, and CodexRuntime::preflight (adapters/outbound/codex/   *)
(* runtime.rs), which reads the account and then the paged model list.     *)
(*                                                                         *)
(* The App Server is external: its replies are arbitrary, except that it   *)
(* lists what the account is entitled to or, when it was started with a    *)
(* generated catalogue, what that catalogue names.  The executable may be  *)
(* replaced on disk at any time.                                           *)
(***************************************************************************)
EXTENDS Executables, FiniteSets

CONSTANTS
  Environments,   \* environment variables the process may be started with
  Files,          \* what may lie at the path of the Codex executable
  Models,         \* model identifiers
  Configured,     \* the identifiers of the catalogue's models, in order
  Accounts,       \* account types
  Cursors,        \* page cursors of model/list
  MaxPages        \* MAX_MODEL_LIST_PAGES

None == "none"
Optional(S) == S \cup {None}

ASSUME PreflightAssumption ==
  /\ MaxPages \in Nat \ {0}
  /\ None \notin Cursors \cup Models \cup Accounts
  /\ Configured \in Seq(Models)

VARIABLES
  pc,          \* the step about to be taken
  outcome,     \* "none", "report", or the error the command ends with
  file,        \* what is at the executable's path
  home,        \* what the isolated Codex home has come to
  owner,       \* the value whose drop removes the home
  warned,      \* has a failed removal of the home been warned about?
  child,       \* the App Server: its state, which file was started, what it lists
  entitled,    \* models the account may use
  remaining, cursor, seen, available,   \* locals of preflight
  told         \* history: what the App Server has been asked and has answered

vars == <<pc, outcome, file, home, owner, warned, child, entitled,
          remaining, cursor, seen, available, told>>

launchVars == <<home, owner, warned, child>>
listVars   == <<remaining, cursor, seen, available>>

-----------------------------------------------------------------------------
(* config.rs: codex_binary_path and model_catalogue_path.                  *)

\* A path built on a directory is absolute when the directory is.
Absolute(path) == path = "absolute"

CodexPath(env) == IF env.codex # "unset" THEN env.codex ELSE env.home
CataloguePath(env) ==
  CASE env.config # "unset"            -> env.config
    [] env.xdg \notin {"unset", ""}    -> env.xdg
    [] OTHER                           -> env.home

Usable(env) == Absolute(CodexPath(env)) /\ Absolute(CataloguePath(env))

-----------------------------------------------------------------------------
(* The replies of account/read and model/list.                             *)

\* account_type.
AccountIsNamed(account) == account # None
Managed(account) == account = "chatgpt"

\* model_page: every entry has an id and a model, and they agree.
WellFormed(entries) == \A e \in entries : e.model # None /\ e.id = e.model
PageModels(entries) == {e.model : e \in entries}

\* What the external App Server may list.
Listable == IF child.lists = "account" THEN entitled ELSE {Configured[i] : i \in DOMAIN Configured}
Pages == {entries \in SUBSET [id : Optional(Models), model : Optional(Models)] :
            \A e \in entries : e.id = e.model => e.id \in Listable}

-----------------------------------------------------------------------------
NoChild == [state |-> "absent", file |-> "other", lists |-> "account"]

Init ==
  /\ pc = "environment" /\ outcome = None
  /\ file \in Files
  /\ home = "absent" /\ owner = None /\ warned = FALSE /\ child = NoChild
  /\ entitled \in SUBSET Models
  /\ remaining = MaxPages /\ cursor = None /\ seen = {} /\ available = {}
  /\ told = [account |-> None, asked |-> <<>>, offers |-> <<>>, models |-> {}, list |-> "open",
             replaced |-> "in time"]

\* IsolatedCodexHome::drop, by the value that owns the home: a removal that fails
\* is only warned about.
DropHome ==
  \/ home' = "absent" /\ UNCHANGED warned
  \/ warned' = TRUE /\ UNCHANGED home

\* The command ends with all its values dropped.  A child that runs is sent its
\* kill, and nobody waits for it; the home is removed behind that.
End(result) ==
  /\ pc' = "ended"
  /\ outcome' = result
  /\ child' = [child EXCEPT !.state = IF @ = "running" THEN "killed" ELSE @]
  /\ IF owner # None THEN DropHome ELSE UNCHANGED <<home, warned>>
  /\ owner' = None

\* The kill takes effect in its own time, also after the command has ended.
ChildDies ==
  /\ child.state = "killed"
  /\ child' = [child EXCEPT !.state = "absent"]
  /\ UNCHANGED <<pc, outcome, file, home, owner, warned, entitled, listVars, told>>

Proceed(step) == pc' = step /\ UNCHANGED outcome

\* An update replaces the executable; once it runs nobody looks at the file.
Replace ==
  /\ pc \notin {"initialize", "account", "list", "compare", "ended"}
  /\ \E f \in Files : file' = f
  /\ told' = [told EXCEPT !.replaced = IF pc = "spawn" THEN "late" ELSE @]
  /\ UNCHANGED <<pc, outcome, entitled, launchVars, listVars>>

\* PreflightConfig::from_env; the catalogue itself may also be refused.
ReadEnvironment ==
  /\ pc = "environment"
  /\ \E env \in Environments, accepted \in BOOLEAN :
       IF Usable(env) /\ PinnedCodex(file) /\ accepted
       THEN Proceed("revalidate") /\ UNCHANGED launchVars
       ELSE End("configuration")
  /\ UNCHANGED <<file, entitled, listVars, told>>

\* validate_native in the configuration, revalidate at the start of launch.
Revalidate ==
  /\ pc = "revalidate"
  /\ IF PinnedCodex(file) THEN Proceed("version") /\ UNCHANGED launchVars
                          ELSE End("configuration")
  /\ UNCHANGED <<file, entitled, listVars, told>>

\* verify_codex_version: another file may well print the expected version.
CheckVersion ==
  /\ pc = "version"
  /\ \/ Proceed("home") /\ UNCHANGED launchVars
     \/ End("configuration")
  /\ UNCHANGED <<file, entitled, listVars, told>>

\* Mutant: the directory is created, and no value owns it yet.
CreateHomeUnowned ==
  /\ pc = "home"
  /\ \/ home' = "directory" /\ Proceed("fill") /\ UNCHANGED <<owner, warned, child>>
     \/ End("configuration")
  /\ UNCHANGED <<file, entitled, listVars, told>>

\* IsolatedCodexHome::create up to the value that owns the directory.
CreateHome ==
  /\ pc = "home"
  /\ \/ home' = "directory" /\ owner' = "connection" /\ Proceed("fill")
        /\ UNCHANGED <<warned, child>>
     \/ End("configuration")
  /\ UNCHANGED <<file, entitled, listVars, told>>

\* Its permissions, the link to the credentials, the configuration: each may
\* fail.  A discovery launch writes no model catalogue.
HomeSteps == {<<"directory", "owner only">>, <<"owner only", "credentials">>,
              <<"credentials", "whole">>}
Homes     == {"absent", "directory", "owner only", "credentials", "whole"}

FillHome ==
  /\ pc = "fill"
  /\ \/ \E h \in Homes : <<home, h>> \in HomeSteps /\ home' = h
        /\ UNCHANGED <<pc, outcome, owner, warned, child>>
     \/ home # "whole" /\ End("configuration")
     \/ home = "whole" /\ Proceed("recheck") /\ UNCHANGED launchVars
  /\ UNCHANGED <<file, entitled, listVars, told>>

\* Mutant: the validation at the start of the launch is taken for this one.
RecheckSkipped ==
  /\ pc = "recheck"
  /\ Proceed("spawn")
  /\ UNCHANGED <<file, entitled, launchVars, listVars, told>>

\* The revalidation immediately before the process is started.
Recheck ==
  /\ pc = "recheck"
  /\ IF PinnedCodex(file) THEN Proceed("spawn") /\ UNCHANGED launchVars
                          ELSE End("configuration")
  /\ UNCHANGED <<file, entitled, listVars, told>>

Launched(lists) ==
  [state |-> "running",
   file  |-> IF PinnedCodex(file) THEN "pinned" ELSE "other",
   lists |-> lists]

\* Mutant: the launch of `serve`, with the catalogue under test.
SpawnServing ==
  /\ pc = "spawn"
  /\ \/ child' = Launched("catalogue") /\ Proceed("initialize") /\ UNCHANGED <<home, owner, warned>>
     \/ End("unavailable")
  /\ UNCHANGED <<file, entitled, listVars, told>>

\* launch_discovery starts the process without a generated catalogue.
Spawn ==
  /\ pc = "spawn"
  /\ \/ child' = Launched("account") /\ Proceed("initialize") /\ UNCHANGED <<home, owner, warned>>
     \/ End("unavailable")
  /\ UNCHANGED <<file, entitled, listVars, told>>

\* Mutant: only the handshake is given up after a while.
RpcHangs ==
  /\ pc = "initialize"
  /\ End("unavailable")
  /\ UNCHANGED <<file, entitled, listVars, told>>

\* A request that is refused, times out or loses its connection ends the command.
RpcFails ==
  /\ pc \in {"initialize", "account", "list"}
  /\ pc = "list" => remaining > 0
  /\ End("unavailable")
  /\ told' = IF pc = "list" THEN [told EXCEPT !.asked = Append(@, cursor)] ELSE told
  /\ UNCHANGED <<file, entitled, listVars>>

Initialize ==
  /\ pc = "initialize"
  /\ Proceed("account")
  /\ UNCHANGED <<file, entitled, launchVars, listVars, told>>

ReadAccount ==
  /\ pc = "account"
  /\ \E account \in Optional(Accounts) :
       /\ told' = [told EXCEPT !.account = account]
       /\ CASE ~AccountIsNamed(account) -> End("protocol")
            [] AccountIsNamed(account) /\ ~Managed(account) -> End("wrong account")
            [] Managed(account) -> Proceed("list") /\ UNCHANGED launchVars
  /\ UNCHANGED <<file, entitled, listVars>>

\* The bound is looked at before a page is asked for.
PageLimit ==
  /\ pc = "list"
  /\ remaining = 0
  /\ End("page limit")
  /\ UNCHANGED <<file, entitled, listVars, told>>

\* One round of the loop that ends in another page or in the comparison.
Advance(next) ==
  IF next = None THEN Proceed("compare") /\ UNCHANGED <<launchVars, cursor, seen>>
  ELSE IF next \in seen THEN End("repeated cursor") /\ UNCHANGED <<cursor, seen>>
  ELSE Proceed("list") /\ cursor' = next /\ seen' = seen \cup {next} /\ UNCHANGED launchVars

ReadPage ==
  /\ pc = "list"
  /\ remaining > 0
  /\ remaining' = remaining - 1
  /\ \E entries \in Pages, next \in Optional(Cursors) :
       /\ WellFormed(entries)
       /\ available' = available \cup PageModels(entries)
       /\ Advance(next)
       /\ told' = [told EXCEPT !.asked = Append(@, cursor), !.models = @ \cup PageModels(entries),
                               !.offers = IF next = None THEN @ ELSE Append(@, next),
                               !.list = IF next = None THEN "read" ELSE @]
  /\ UNCHANGED <<file, entitled>>

\* No data array, a cursor that is no string, an entry without a name or with two.
ReadBadPage ==
  /\ pc = "list"
  /\ remaining > 0
  /\ \E entries \in Pages, readable \in BOOLEAN : ~(readable /\ WellFormed(entries))
  /\ remaining' = remaining - 1
  /\ End("protocol")
  /\ told' = [told EXCEPT !.asked = Append(@, cursor)]
  /\ UNCHANGED <<file, entitled, cursor, seen, available>>

Compare ==
  /\ pc = "compare"
  /\ IF \A i \in DOMAIN Configured : Configured[i] \in available
     THEN End("report") ELSE End("unavailable model")
  /\ UNCHANGED <<file, entitled, listVars, told>>

Ended == pc = "ended" /\ UNCHANGED vars

LocalLaunch == Revalidate \/ CreateHome \/ FillHome \/ Recheck \/ Spawn
LocalStep   == ReadEnvironment \/ LocalLaunch \/ PageLimit \/ Compare
ReplyStep   == CheckVersion \/ Initialize \/ ReadAccount \/ ReadPage \/ ReadBadPage

Next == LocalStep \/ ReplyStep \/ RpcFails \/ ChildDies \/ Replace \/ Ended

Spec == Init /\ [][Next]_vars

\* The program goes on by itself, and RPC_TIMEOUT ends the wait for an answer.
\* Nothing ends the wait for `codex --version`.
Fairness == WF_vars(LocalStep) /\ WF_vars(RpcFails)
FairSpec == Spec /\ Fairness

-----------------------------------------------------------------------------
(* Properties.                                                             *)

Children == [state : {"absent", "running", "killed"}, file : {"pinned", "other"},
             lists : {"account", "catalogue"}]
History  == [account : Optional(Accounts), asked : Seq(Optional(Cursors)), offers : Seq(Cursors),
             models : SUBSET Models, list : {"open", "read"}, replaced : {"in time", "late"}]

\* The command's state has its types; the page budget is never exceeded.
TypeOK ==
  /\ pc \in {"environment", "revalidate", "version", "home", "fill", "recheck", "spawn",
             "initialize", "account", "list", "compare", "ended"}
  /\ outcome \in {"none", "report", "configuration", "unavailable", "protocol", "wrong account",
                  "page limit", "repeated cursor", "unavailable model"}
  /\ file \in Files
  /\ home \in Homes
  /\ owner \in {"none", "connection"}
  /\ warned \in BOOLEAN
  /\ child \in Children
  /\ entitled \subseteq Models
  /\ remaining \in 0..MaxPages
  /\ cursor \in Optional(Cursors) /\ seen \subseteq Cursors /\ available \subseteq Models
  /\ told \in History

Distinct(s) == \A i, j \in DOMAIN s : s[i] = s[j] => i = j
Everything == {Configured[i] : i \in DOMAIN Configured}

ReportIsEarned ==
  outcome = "report" =>
    /\ Managed(told.account)
    /\ told.list = "read"
    /\ Everything \subseteq entitled
    /\ Len(told.asked) <= MaxPages /\ Distinct(told.asked)

RefusalIsJustified ==
  /\ outcome = "page limit" =>
       Len(told.asked) = MaxPages /\ Len(told.offers) = MaxPages /\ Distinct(told.offers)
  /\ outcome = "repeated cursor" => ~Distinct(told.offers)
  /\ outcome = "unavailable model" => told.list = "read" /\ ~(Everything \subseteq told.models)

\* The verdict of runtime.rs preflight is right.  A report is only written for
\* a managed account that may itself use every configured model, after the
\* list was read to its end, each page once and no more than MaxPages of them.
\* The refusals of the list have their reasons: the budget was used to its
\* last page while new cursors kept coming, a cursor came back, or the whole
\* list lacks a configured model.
VerdictIsJustified == ReportIsEarned /\ RefusalIsJustified

\* However the command ends, at whichever step, its child has been sent its kill
\* if one was started, and the isolated home is gone unless its removal failed,
\* which was warned about.  That the killed child has ended by then is not
\* claimed: nobody awaits it.
NothingLeftBehind ==
  pc = "ended" =>
    /\ child.state # "running"
    /\ home # "absent" => warned

\* A file that is not the pinned release only becomes the App Server when it
\* was put there after the last revalidation.
PinnedUnlessReplacedLate ==
  child.state # "absent" => child.file = "pinned" \/ told.replaced = "late"

\* The command ends, whatever the App Server does, unless `codex --version` hangs.
EveryPreflightEnds == <>(pc = "ended") \/ <>[](pc = "version")
=============================================================================
