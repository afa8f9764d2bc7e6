------------------------------ MODULE Startup ------------------------------
(***************************************************************************)
(* The start of a replica: assembly.create_app and its lifespan, with the  *)
(* steps they take in settings.py, surface.py, secret_loading.py,          *)
(* product_port.py, product_contracts.py, delivery.py and worker.py.       *)
(*                                                                         *)
(* A check that fails raises, and an exception before the replica serves   *)
(* ends the process, so a step here is what a phase does when it succeeds  *)
(* and Exit is every refusal, every failed call, every stop and every      *)
(* kill.  Several replicas start and stop at will, each with settings of   *)
(* its own as in a rolling deployment, over one database.                  *)
(*                                                                         *)
(* A product answers its two endpoints with whatever there can be.  A      *)
(* descriptor and a registry are named by their digest.                    *)
(***************************************************************************)
EXTENDS Settings

CONSTANTS
  Replica,
  Deployment,   \* settings a replica can be started with
  Descriptor,   \* digest of a descriptor |-> the declaration it carries
  Catalogue,    \* digest of a registry |-> its rows, in its order
  Path          \* the paths that requests are made for

(* A declaration: [capability, contract], the contract with its owner.     *)
(* A row: [capability, contract, sound], the last whether its fields are   *)
(* exact, well typed and agree on its version.                             *)
Declaration ==
  {Descriptor[d] : d \in DOMAIN Descriptor}
    \cup UNION {{[capability |-> row.capability, contract |-> row.contract] :
                   row \in {Catalogue[c][i] : i \in DOMAIN Catalogue[c]}} :
                c \in DOMAIN Catalogue}

None == "none"

ASSUME NamesAssumption ==
  /\ None \notin DOMAIN Descriptor
  /\ {"empty", "malformed"} \cap (DOMAIN Descriptor \cup DOMAIN Catalogue) = {}

ASSUME PathsAreSegments ==
  Path \cup {s.metrics_path : s \in Deployment} \subseteq Seq(STRING)

\* What a worker runs: the last two are _deliver_forever under its two names.
Loop == {"lease-sweep", "connector-polling", "connector-provisioning",
         "receipt-delivery", "receipt-mirror"}

Phase ==
  {"down", "settings", "boundaries", "surface", "secrets", "owner", "contracts",
   "registry", "reconcile", "worker", "serving"}

VARIABLES
  pc,           \* pc[r]: the phase replica r is to take next
  config,       \* config[r]: its settings
  asked,        \* asked[r]: references it tried to load, the assembly's own
  held,         \* held[r]: those it has the material of
  prepared,     \* prepared[r]: digest of the descriptor it read and pinned
  declared,     \* declared[r]: declarations read from the registry
  registry,     \* registry[r]: its installed capability registry
  port,         \* port[r]: "none", or whether its client "writes" or "mirrors"
  loops,        \* loops[r]: the tasks of its worker
  destination   \* the destination row in the database, a descriptor's digest

vars == <<pc, config, asked, held, prepared, declared, registry, port, loops, destination>>

process == <<config, asked, held, prepared, declared, registry, port, loops>>

---------------------------------------------------------------------------
(* What is accepted from a product.                                        *)

Answer(Digest) ==
  [form : {"refused", "no_json", "inexact", "exact"}, facts : Digest, claims : Digest]

Mut_TrustedUnpinned(answer, pin) ==
  answer.form = "exact" /\ answer.claims = answer.facts

\* Its digest covers its facts, and is the one an operator approved.
Trusted(answer, pin) ==
  /\ answer.form = "exact"
  /\ answer.claims = answer.facts
  /\ answer.facts = pin

\* The rows are as many as they have to be, sound, and strictly in order.
WellFormed(rows, count) ==
  /\ Len(rows) = count
  /\ \A i \in DOMAIN rows : rows[i].sound
  /\ \A i, j \in DOMAIN rows : i < j => rows[i].capability < rows[j].capability

DeclarationsOf(rows) ==
  {[capability |-> rows[i].capability, contract |-> rows[i].contract] : i \in DOMAIN rows}

\* Of two declarations of one capability the library refuses the second or
\* keeps either; a refusal is Exit.
Merges(declarations) ==
  {kept \in SUBSET declarations :
     \A d \in declarations :
       \E e \in kept : {f \in kept : f.capability = d.capability} = {e}}

Prepares(s) == s.port \/ s.prepare

---------------------------------------------------------------------------
Init ==
  /\ pc = [r \in Replica |-> "down"]
  /\ config \in [Replica -> Deployment]
  /\ asked = [r \in Replica |-> {}]
  /\ held = [r \in Replica |-> {}]
  /\ prepared = [r \in Replica |-> None]
  /\ declared = [r \in Replica |-> {}]
  /\ registry = [r \in Replica |-> {}]
  /\ port = [r \in Replica |-> None]
  /\ loops = [r \in Replica |-> {}]
  /\ destination = None

At(r, phase) == pc[r] = phase

Goto(r, phase) == pc' = [pc EXCEPT ![r] = phase]

Start(r) ==
  /\ At(r, "down") /\ Goto(r, "settings")
  /\ \E s \in Deployment : config' = [config EXCEPT ![r] = s]
  /\ UNCHANGED <<asked, held, prepared, declared, registry, port, loops, destination>>

Validate(r) ==
  /\ At(r, "settings") /\ Problems(config[r]) = {}
  /\ Goto(r, "boundaries")
  /\ UNCHANGED <<process, destination>>

\* Every installed connector declares its boundaries, or the library raises.
RequireBoundaries(r) ==
  /\ At(r, "boundaries") /\ Goto(r, "surface")
  /\ UNCHANGED <<process, destination>>

AuditSurface(r) ==
  /\ At(r, "surface") /\ CorrectSurface(config[r])
  /\ Goto(r, "secrets")
  /\ UNCHANGED <<process, destination>>

\* A reference that does not resolve is reported and tolerated.
LoadSecrets(r) ==
  /\ At(r, "secrets")
  /\ asked' = [asked EXCEPT ![r] = AssemblyReferences(config[r])]
  /\ \E found \in SUBSET AssemblyReferences(config[r]) :
       held' = [held EXCEPT ![r] = found]
  /\ Goto(r, IF Prepares(config[r]) THEN "owner"
             ELSE IF config[r].contracts THEN "contracts" ELSE "worker")
  /\ UNCHANGED <<config, prepared, declared, registry, port, loops, destination>>

\* No database session exists while the product is read.
PrepareOwner(r) ==
  /\ At(r, "owner")
  /\ config[r].port_key \in held[r]
  /\ Addressable(config[r].port_url)
  /\ \E answer \in Answer(DOMAIN Descriptor) :
       /\ Trusted(answer, config[r].port_pin)
       /\ prepared' = [prepared EXCEPT ![r] = answer.facts]
  /\ Goto(r, IF config[r].contracts THEN "contracts" ELSE "registry")
  /\ UNCHANGED <<config, asked, held, declared, registry, port, loops, destination>>

ReadContracts(r) ==
  /\ At(r, "contracts")
  /\ config[r].contracts_key \in held[r]
  /\ Addressable(config[r].contracts_url)
  /\ \E answer \in Answer(DOMAIN Catalogue) :
       /\ Trusted(answer, config[r].contracts_pin)
       /\ WellFormed(Catalogue[answer.facts], config[r].count)
       /\ declared' = [declared EXCEPT ![r] = DeclarationsOf(Catalogue[answer.facts])]
  /\ Goto(r, "registry")
  /\ UNCHANGED <<config, asked, held, prepared, registry, port, loops, destination>>

\* Only what the products declared: an installed connector mints no owner.
InstallRegistry(r) ==
  /\ At(r, "registry")
  /\ LET owner == IF prepared[r] = None THEN {} ELSE {Descriptor[prepared[r]]}
     IN \E kept \in Merges(owner \cup declared[r]) :
          registry' = [registry EXCEPT ![r] = kept]
  /\ Goto(r, IF config[r].port THEN "reconcile" ELSE "worker")
  /\ UNCHANGED <<config, asked, held, prepared, declared, port, loops, destination>>

Mut_ReconcileUnchecked(r) ==
  /\ At(r, "reconcile")
  /\ destination' = prepared[r]
  /\ port' = [port EXCEPT ![r] = IF config[r].port_mode = "write" THEN "writes" ELSE "mirrors"]
  /\ Goto(r, "worker")
  /\ UNCHANGED <<config, asked, held, prepared, declared, registry, loops>>

\* One short transaction; then the client is installed.  What the registry
\* holds for the capability has to be the contract that was prepared.
Reconcile(r) ==
  /\ At(r, "reconcile")
  /\ Descriptor[prepared[r]] \in registry[r]
  /\ destination' = prepared[r]
  /\ port' = [port EXCEPT ![r] = IF config[r].port_mode = "write" THEN "writes" ELSE "mirrors"]
  /\ Goto(r, "worker")
  /\ UNCHANGED <<config, asked, held, prepared, declared, registry, loops>>

Mut_WorkerDeliversAnyway(r) ==
  /\ At(r, "worker")
  /\ loops' = [loops EXCEPT ![r] =
       IF ~config[r].worker THEN {}
       ELSE {"lease-sweep", "connector-polling", "connector-provisioning"}
              \cup (IF port[r] = None THEN {} ELSE {"receipt-delivery"})]
  /\ Goto(r, "serving")
  /\ UNCHANGED <<config, asked, held, prepared, declared, registry, port, destination>>

StartWorker(r) ==
  /\ At(r, "worker")
  /\ loops' = [loops EXCEPT ![r] =
       IF ~config[r].worker THEN {}
       ELSE {"lease-sweep", "connector-polling", "connector-provisioning"}
              \cup (CASE port[r] = "writes" -> {"receipt-delivery"}
                      [] port[r] = "mirrors" -> {"receipt-mirror"}
                      [] OTHER -> {})]
  /\ Goto(r, "serving")
  /\ UNCHANGED <<config, asked, held, prepared, declared, registry, port, destination>>

\* Nothing of the process is left; what it committed is.
Exit(r) ==
  /\ ~At(r, "down") /\ Goto(r, "down")
  /\ asked' = [asked EXCEPT ![r] = {}]
  /\ held' = [held EXCEPT ![r] = {}]
  /\ prepared' = [prepared EXCEPT ![r] = None]
  /\ declared' = [declared EXCEPT ![r] = {}]
  /\ registry' = [registry EXCEPT ![r] = {}]
  /\ port' = [port EXCEPT ![r] = None]
  /\ loops' = [loops EXCEPT ![r] = {}]
  /\ UNCHANGED <<config, destination>>

Next ==
  \E r \in Replica :
    \/ Start(r) \/ Validate(r) \/ RequireBoundaries(r) \/ AuditSurface(r)
    \/ LoadSecrets(r) \/ PrepareOwner(r) \/ ReadContracts(r) \/ InstallRegistry(r)
    \/ Reconcile(r) \/ StartWorker(r) \/ Exit(r)

Spec == Init /\ [][Next]_vars

---------------------------------------------------------------------------
(* Properties.                                                             *)

\* Every variable has the values the code can give it.
TypeOK ==
  /\ pc \in [Replica -> Phase]
  /\ config \in [Replica -> Deployment]
  /\ asked \in [Replica -> SUBSET UNION {AssemblyReferences(s) : s \in Deployment}]
  /\ held \in [Replica -> SUBSET UNION {AssemblyReferences(s) : s \in Deployment}]
  /\ prepared \in [Replica -> DOMAIN Descriptor \cup {None}]
  /\ declared \in [Replica -> SUBSET Declaration]
  /\ registry \in [Replica -> SUBSET Declaration]
  /\ port \in [Replica -> {None, "writes", "mirrors"}]
  /\ loops \in [Replica -> SUBSET Loop]
  /\ destination \in DOMAIN Descriptor \cup {None}

\* Whatever the product's endpoint answers, the destination row becomes only a
\* descriptor whose digest an operator pinned, and only for a deployment that
\* delivers: preparing alone writes nothing (product_port._read, reconcile).
DestinationIsApproved ==
  [][destination' # destination =>
       \E r \in Replica :
         /\ config[r].port /\ ~config[r].prepare
         /\ destination' = config[r].port_pin]_vars

\* A replica with a port routes the destination's capability by the contract
\* its owner declared in the pinned descriptor and by no other, whatever the
\* product's registry declares for that capability (assembly.lifespan and
\* product_port.reconcile).
RoutesByItsOwner ==
  \A r \in Replica :
    port[r] # None =>
      LET owner == Descriptor[config[r].port_pin]
      IN {d \in registry[r] : d.capability = owner.capability} = {owner}

\* What a replica runs is what its settings stand for: receipts are settled
\* only where writing is configured, shadow evidence is collected only under an
\* exact revision to file it by, and a deployment that only prepares has pinned
\* its owner and runs nothing (settings, delivery.product_port_writes, worker).
LoopsFitTheMode ==
  \A r \in Replica :
    /\ "receipt-delivery" \in loops[r] =>
         config[r].port /\ config[r].port_mode = "write"
    /\ "receipt-mirror" \in loops[r] =>
         config[r].port /\ config[r].port_mode = "mirror" /\ config[r].revision = "exact"
    /\ At(r, "serving") /\ config[r].prepare =>
         prepared[r] = config[r].port_pin /\ port[r] = None /\ loops[r] = {}

IsScrape(s, request) ==
  s.metrics /\ request = [path |-> s.metrics_path, mutates |-> FALSE]

GuardsOfPlace(request) ==
  CASE request.path[1] = "operations" -> {{"operator"}}
    [] request.path[1] = "product" -> {{"query"}, {"provision"}}
    [] OTHER -> {{}}

\* A scrape of the configured path is never answered openly by a probe or an
\* ingress route, nor under an operator's guard: whatever METRICS_PATH names, the
\* audit and the order of mounting leave it to the scrape token, or, where a path
\* of the product's or of the framework's comes first, to that.  Every other
\* request is answered under the guard of its place, and under an operator's
\* exactly below /operations, unless METRICS_PATH has a parameter
\* (surface.require_a_correct_surface, assembly.create_app).
SurfaceIsSeparated ==
  \A r \in Replica : At(r, "serving") =>
    \A request \in [path : Path, mutates : BOOLEAN] :
      \A route \in Answering(config[r], request) :
        IF IsScrape(config[r], request)
          THEN route.guards \in {{"scrape"}, {"provision"}} \/ route \in FrameworkRoutes
          ELSE IsTemplate(config[r].metrics_path) \/ route.guards \in GuardsOfPlace(request)

\* A credential is a "REFERENCE, never a value" (settings.py): nothing a replica
\* loads at its start came from configuration as it is.  And none serves that
\* could not authenticate to the products it has to: the keys it read them with
\* are held, in production over https only to its port, and where queries are
\* answered their callers' keys were loaded with them (settings.validate_settings,
\* secret_loading.install_secrets, assembly.lifespan).
CredentialsAreInForce ==
  \A r \in Replica :
    /\ asked[r] \cap {"empty", "literal"} = {} /\ held[r] \subseteq asked[r]
    /\ At(r, "serving") =>
         /\ Prepares(config[r]) => config[r].port_key \in held[r]
         /\ Prepares(config[r]) /\ config[r].production => config[r].port_url = "https"
         /\ config[r].contracts => config[r].contracts_key \in held[r]
         /\ config[r].query => KeysOf(config[r].callers) \subseteq asked[r]

\* "Everything this deployment can authenticate with is in memory from this
\* line onward" (assembly.lifespan): at the latest when it serves, a replica
\* that mounts a route for product callers has tried to load their keys.
CallerKeysAreLoaded ==
  \A r \in Replica :
    At(r, "serving") /\ (config[r].query \/ config[r].provision) =>
      KeysOf(config[r].callers) \subseteq asked[r]

---------------------------------------------------------------------------
(* The inductive invariant: what a replica has not come to yet is not      *)
(* there, and what it has passed holds.                                    *)

EarlyIsClean ==
  \A r \in Replica :
    /\ pc[r] \in {"down", "settings", "boundaries", "surface", "secrets", "owner"} =>
         prepared[r] = None
    /\ pc[r] \notin {"reconcile", "worker", "serving"} => registry[r] = {}
    /\ pc[r] \notin {"worker", "serving"} => port[r] = None
    /\ pc[r] # "serving" => loops[r] = {}

ChecksHold ==
  \A r \in Replica :
    /\ pc[r] \notin {"down", "settings"} => Problems(config[r]) = {}
    /\ pc[r] \notin {"down", "settings", "boundaries", "surface"} => CorrectSurface(config[r])

OwnerIsPinned ==
  \A r \in Replica :
    /\ prepared[r] \in {None, config[r].port_pin}
    /\ pc[r] \in {"contracts", "registry", "reconcile", "worker", "serving"}
         /\ Prepares(config[r]) => prepared[r] # None
    /\ pc[r] = "reconcile" => config[r].port

RegistryIsUnambiguous ==
  \A r \in Replica : \A d, e \in registry[r] : d.capability = e.capability => d = e

PortIsOfTheOwner ==
  \A r \in Replica :
    port[r] # None =>
      /\ config[r].port /\ prepared[r] # None
      /\ Descriptor[prepared[r]] \in registry[r]
      /\ port[r] = "writes" <=> config[r].port_mode = "write"

LoopsFollowThePort ==
  \A r \in Replica :
    /\ "receipt-delivery" \in loops[r] => port[r] = "writes"
    /\ "receipt-mirror" \in loops[r] => port[r] = "mirrors"
    /\ loops[r] # {} => config[r].worker

LoadedIsWhatTheAssemblyNames ==
  \A r \in Replica :
    /\ asked[r] = IF pc[r] \in {"down", "settings", "boundaries", "surface", "secrets"}
                    THEN {} ELSE AssemblyReferences(config[r])
    /\ held[r] \subseteq asked[r]

KeysAreHeld ==
  \A r \in Replica :
    /\ pc[r] \in {"contracts", "registry", "reconcile", "worker", "serving"}
         /\ Prepares(config[r]) => config[r].port_key \in held[r]
    /\ pc[r] \in {"registry", "reconcile", "worker", "serving"}
         /\ config[r].contracts => config[r].contracts_key \in held[r]

IInv ==
  /\ LoadedIsWhatTheAssemblyNames /\ KeysAreHeld
  /\ TypeOK /\ EarlyIsClean /\ ChecksHold /\ OwnerIsPinned
  /\ RegistryIsUnambiguous /\ PortIsOfTheOwner /\ LoopsFollowThePort

=============================================================================
