------------------------------ MODULE Catalogue ------------------------------
(***************************************************************************)
(* The model catalogue: what `decode` (config/model_catalogue.rs) and      *)
(* ModelCatalogue::new (domain/catalogue.rs) accept, and the four views    *)
(* the program derives from an accepted catalogue: the settings given to   *)
(* Claude Code, the launcher's contract, the subagent definition, and the  *)
(* model list given to the serving Codex process.                          *)
(*                                                                         *)
(* An identifier is a namespace and a name; the name "?" stands for one    *)
(* with a character outside the allowed set or longer than the limit, and  *)
(* the label "?" for one that is empty, too long or holds a control        *)
(* character.                                                              *)
(***************************************************************************)
EXTENDS Naturals, SequencesExt

CONSTANTS
  MaxModels,    \* MAX_MODELS
  MaxRoutes,    \* MAX_ROUTES
  MaxContext    \* MAX_CONTEXT_TOKENS

ASSUME CatalogueAssumption == {MaxModels, MaxRoutes, MaxContext} \subseteq Nat \ {0}

Gpt == "gpt-"
Claude == "claude-"
RouteNamespace == "anthropic-model-rocket-"
Id(space, name) == [space |-> space, name |-> name]

SchemaVersion == 1

-----------------------------------------------------------------------------
\* The entries a catalogue file can hold (ModelDocument, RouteDocument).
Identifiers == [space : STRING, name : STRING]
ModelValues == [id : Identifiers, label : STRING, context : Nat]
RouteValues == [id : Identifiers, label : STRING, model : Identifiers]

(* Loading.  Every error is a configuration error that stops the process.  *)

ValidIdentifier(id, space) == id.space = space /\ id.name # "?"
ValidLabel(label) == label # "?"

\* ModelDefinition::new and ContextTokens::new.
ValidModel(m) ==
  /\ ValidIdentifier(m.id, Gpt)
  /\ ValidLabel(m.label)
  /\ m.context \in 1..MaxContext

ValidRoute(r) == ValidIdentifier(r.id, RouteNamespace) /\ ValidLabel(r.label)

Ids(entries) == [i \in DOMAIN entries |-> entries[i].id]
Targets(routes) == {r.model : r \in ToSet(routes)}

\* Mutant: the routes are not checked against the models.
AcceptsDangling(d) ==
  /\ d.version = SchemaVersion
  /\ \A m \in ToSet(d.models) : ValidModel(m)
  /\ Len(d.models) \in 1..MaxModels /\ Len(d.routes) \in 1..MaxRoutes
  /\ IsInjective(Ids(d.models))
  /\ \A r \in ToSet(d.routes) : ValidRoute(r)
  /\ IsInjective(Ids(d.routes))
  /\ d.canonical \in ToSet(Ids(d.routes))

\* The checks of `decode` and ModelCatalogue::new on a document that parsed.
Accepts(d) ==
  /\ d.version = SchemaVersion
  /\ \A m \in ToSet(d.models) : ValidModel(m)
  /\ Len(d.models) \in 1..MaxModels /\ Len(d.routes) \in 1..MaxRoutes
  /\ IsInjective(Ids(d.models))
  /\ \A r \in ToSet(d.routes) : ValidRoute(r)
  /\ IsInjective(Ids(d.routes))
  /\ Targets(d.routes) = ToSet(Ids(d.models))
  /\ d.canonical \in ToSet(Ids(d.routes))

\* The entry with this id, in a sequence that has one.
Lookup(entries, id) == entries[SelectInSeq(entries, LAMBDA e : e.id = id)]

MinimumContext(models) == Min({m.context : m \in ToSet(models)})

\* The catalogue of an accepted document.
Loaded(d) ==
  [models    |-> d.models,
   routes    |-> d.routes,
   canonical |-> Lookup(d.routes, d.canonical),
   minimum   |-> MinimumContext(d.models)]

IsRoute(c, id) == id \in ToSet(Ids(c.routes))
RouteFor(c, id) == Lookup(c.routes, id)

-----------------------------------------------------------------------------
(* What other processes are told of an accepted catalogue.                 *)

\* write_routing_settings: the models Claude Code may select (its own
\* families aside), the picker's entry and the context window.
RoutingSettings(c) ==
  [available |-> ToSet(Ids(c.routes)),
   option    |-> c.canonical.id,
   context   |-> c.minimum]

\* write_launcher_contract and write_worker_config.
LauncherContract(c) == [canonical |-> c.canonical.id, context |-> c.minimum]
WorkerModel(c) == c.canonical.id

\* restricted_model_catalog: the template's model once per configured model.
RestrictedCatalog(c) ==
  {[slug |-> m.id, window |-> m.context, maxWindow |-> m.context] : m \in ToSet(c.models)}
=============================================================================
