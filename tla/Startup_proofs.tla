--------------------------- MODULE Startup_proofs ---------------------------
(***************************************************************************)
(* Theorems about Startup, for any replicas, deployments, descriptors and  *)
(* registries.                                                             *)
(***************************************************************************)
EXTENDS Startup, TLAPS

---------------------------------------------------------------------------
(* What the checks of the settings and of the surface are worth.           *)

LEMMA PortRules ==
  ASSUME NEW s, Problems(s) = {}
  PROVE  /\ s.port => ~s.prepare
         /\ s.prepare => ~s.worker
         /\ s.port => s.port_mode \in PortModes
         /\ s.port /\ s.port_mode = "mirror" => s.revision = "exact"
<1>1. PortProblems(s) = {}
  BY DEF Problems
<1>2. ~s.prepare => s.port_mode \in PortModes
  BY <1>1 DEF PortProblems
<1>3. ASSUME s.port \/ s.prepare
      PROVE  /\ ~(s.port /\ s.prepare)
             /\ ~(s.prepare /\ s.worker)
             /\ ~(s.port /\ s.port_mode = "mirror" /\ s.revision # "exact")
  <2> DEFINE rules ==
    [exclusive |-> s.port /\ s.prepare,
     prepare_with_worker |-> s.prepare /\ s.worker,
     port_url |-> ~Addressable(s.port_url),
     port_clear |-> s.production /\ s.port_url # "https",
     port_empty |-> "empty" \in {s.port_url, s.port_pin, s.port_key},
     revision |-> s.port /\ s.port_mode = "mirror" /\ s.revision # "exact",
     port_key |-> s.port_key = "literal",
     port_pin |-> s.port_pin = "malformed"]
  <2>1. {"exclusive", "prepare_with_worker", "revision"} \subseteq DOMAIN rules
    OBVIOUS
  <2>2. {rule \in DOMAIN rules : rules[rule]} = {}
    BY <1>1, <1>2, <1>3 DEF PortProblems, Broken
  <2>3. ~rules["exclusive"] /\ ~rules["prepare_with_worker"] /\ ~rules["revision"]
    BY <2>1, <2>2
  <2>4. QED
    BY <2>3
<1>4. QED
  BY <1>2, <1>3

\* The groups of routes, one by one, and which of them a request has passed.
LEMMA Groups ==
  ASSUME NEW s, NEW request, NEW route \in Answering(s, request)
  PROVE  /\ Fits(route, request)
         /\ \/ route \in FrameworkRoutes \/ route \in ProductRoutes(s)
            \/ route \in ProbeRoutes \/ route \in MetricsRoutes(s)
            \/ route \in OperatorRoutes
            \/ /\ route \in IngressRoutes(s)
               /\ \A other \in MetricsRoutes(s) : ~Fits(other, request)
<1>1. PICK i \in 1 .. 6 :
        /\ route \in Mounted(s)[i] /\ Fits(route, request)
        /\ \A j \in 1 .. (i - 1) : \A other \in Mounted(s)[j] : ~Fits(other, request)
  BY DEF Answering
<1>2. /\ Mounted(s)[1] = FrameworkRoutes /\ Mounted(s)[2] = ProductRoutes(s)
      /\ Mounted(s)[3] = ProbeRoutes /\ Mounted(s)[4] = MetricsRoutes(s)
      /\ Mounted(s)[5] = OperatorRoutes /\ Mounted(s)[6] = IngressRoutes(s)
  BY DEF Mounted
<1>3. CASE i = 6
  BY <1>1, <1>2, <1>3
<1>4. CASE i \in 1 .. 5
  BY <1>1, <1>2, <1>4
<1>5. QED
  BY <1>3, <1>4

\* Where the routes that are not configured are, and what guards them.
LEMMA OperatorPlace ==
  ASSUME NEW route \in OperatorRoutes
  PROVE  /\ route.guards = {"operator"}
         /\ 1 \in DOMAIN route.path /\ route.path[1] = "operations"
         /\ ~route.mutates => route.path \in OperatorReads
<1>1. \A path \in OperatorReads : 1 \in DOMAIN path /\ path[1] = "operations"
  BY DEF OperatorReads
<1>2. ASSUME NEW path \in OperatorActs PROVE 1 \in DOMAIN path /\ path[1] = "operations"
  <2>1. CASE path = <<"operations", "installations">>
    BY <2>1
  <2>2. CASE path = <<"operations", "secrets", "refresh">>
    BY <2>2
  <2>3. CASE path = <<"operations", "leases", "release-expired">>
    BY <2>3
  <2>4. CASE path = <<"operations", "bindings", ":binding_id", "enable">>
    BY <2>4
  <2>5. CASE path = <<"operations", "bindings", ":binding_id", "ingress-endpoint", "mint">>
    BY <2>5
  <2>6. CASE path = <<"operations", "deliveries", ":delivery_id", "replay">>
    BY <2>6
  <2>7. CASE path = <<"operations", "receipts", ":receipt_id", "replay">>
    BY <2>7
  <2>8. CASE \E name \in {"bindings", "config-revisions", "enable"} :
               path = <<"operations", "installations", ":installation_id", name>>
    BY <2>8
  <2>9. QED
    BY <2>1, <2>2, <2>3, <2>4, <2>5, <2>6, <2>7, <2>8, Zenon DEF OperatorActs
<1>3. CASE \E path \in OperatorReads : route = Route(path, FALSE, {"operator"}, FALSE)
  BY <1>1, <1>3 DEF Route
<1>4. CASE \E path \in OperatorActs : route = Route(path, TRUE, {"operator"}, TRUE)
  BY <1>2, <1>4 DEF Route
<1>5. QED
  BY <1>3, <1>4 DEF OperatorRoutes

LEMMA ProductPlace ==
  ASSUME NEW s, NEW route \in ProductRoutes(s)
  PROVE  /\ route.guards \in {{"query"}, {"provision"}}
         /\ 1 \in DOMAIN route.path /\ route.path[1] = "product"
         /\ ~route.mutates => route.guards = {"provision"}
<1> DEFINE queries == <<"product", "v1", "queries">>
           submit == <<"product", "v1", "provisions">>
           cancel == <<"product", "v1", "provisions", ":operation_id", "cancel">>
           get == <<"product", "v1", "provisions", ":operation_id">>
<1>1. /\ 1 \in DOMAIN queries /\ queries[1] = "product"
      /\ 1 \in DOMAIN submit /\ submit[1] = "product"
      /\ 1 \in DOMAIN cancel /\ cancel[1] = "product"
      /\ 1 \in DOMAIN get /\ get[1] = "product"
  OBVIOUS
<1>2. \/ route = Route(queries, TRUE, {"query"}, FALSE)
      \/ route = Route(submit, TRUE, {"provision"}, FALSE)
      \/ route = Route(cancel, TRUE, {"provision"}, FALSE)
      \/ route = Route(get, FALSE, {"provision"}, FALSE)
  BY DEF ProductRoutes
<1> HIDE DEF queries, submit, cancel, get
<1>3. QED
  BY <1>1, <1>2 DEF Route

LEMMA OpenPlace ==
  ASSUME NEW s, NEW route \in ProbeRoutes \cup IngressRoutes(s) \cup FrameworkRoutes
  PROVE  /\ route.guards = {} /\ 1 \in DOMAIN route.path
         /\ route.path[1] \in {"health", "ingress", "openapi.json", "docs", "redoc"}
<1>1. CASE route \in ProbeRoutes
  <2>1. PICK name \in {"live", "ready", "composition"} :
          route = Route(<<"health", name>>, FALSE, {}, FALSE)
    BY <1>1 DEF ProbeRoutes
  <2>2. route.path = <<"health", name>> /\ route.guards = {}
    BY <2>1 DEF Route
  <2>3. QED
    BY <2>2
<1>2. CASE route \in IngressRoutes(s)
  <2>1. route.path = <<"ingress", ":endpoint_key">>
    BY <1>2 DEF IngressRoutes, Route
  <2>2. route.guards = {}
    BY <1>2 DEF IngressRoutes, Route
  <2>3. 1 \in DOMAIN route.path /\ route.path[1] = "ingress"
    BY <2>1
  <2>4. QED
    BY <2>2, <2>3
<1>3. CASE route \in FrameworkRoutes
  <2>1. PICK path \in {<<"openapi.json">>, <<"docs">>, <<"docs", "oauth2-redirect">>, <<"redoc">>} :
          route = Route(path, FALSE, {}, FALSE)
    BY <1>3 DEF FrameworkRoutes
  <2>2. route.path = path /\ route.guards = {}
    BY <2>1 DEF Route
  <2>3. QED
    BY <2>2
<1>4. QED
  BY <1>1, <1>2, <1>3

LEMMA AuditedRoutes ==
  ASSUME NEW s
  PROVE  ProbeRoutes \cup OperatorRoutes \subseteq Routes(s)
<1>1. Mounted(s)[3] = ProbeRoutes /\ Mounted(s)[5] = OperatorRoutes
  BY DEF Mounted
<1>2. QED
  BY <1>1 DEF Routes

\* A probe and an operator's read have no parameter: what fits one asks for its
\* very path.
LEMMA LiteralRoutes ==
  ASSUME NEW request, request.path \in Seq(STRING),
         NEW route \in ProbeRoutes \cup OperatorRoutes,
         ~route.mutates, Fits(route, request)
  PROVE  route.path = request.path /\ "scrape" \notin route.guards
<1>1. \E place \in {"health", "operations"} : \E name :
        name \notin Parameter /\ route.path = <<place, name>>
  <2>1. CASE route \in ProbeRoutes
    <3>1. PICK name \in {"live", "ready", "composition"} :
            route = Route(<<"health", name>>, FALSE, {}, FALSE)
      BY <2>1 DEF ProbeRoutes
    <3>2. route.path = <<"health", name>>
      BY <3>1 DEF Route
    <3>3. name \notin Parameter
      BY <3>1 DEF Parameter
    <3>4. QED
      BY <3>2, <3>3
  <2>2. CASE route \in OperatorRoutes
    <3>1. route.path \in OperatorReads
      BY <2>2, OperatorPlace
    <3>2. PICK name \in {"connectors", "runtime-policy", "health-report", "shadow-report",
                         "secrets"} : route.path = <<"operations", name>>
      BY <3>1 DEF OperatorReads
    <3>3. name \notin Parameter
      BY <3>2 DEF Parameter
    <3>4. QED
      BY <3>2, <3>3
  <2>3. QED
    BY <2>1, <2>2
<1>2. PICK place \in {"health", "operations"} : \E name :
        name \notin Parameter /\ route.path = <<place, name>>
  BY <1>1
<1>3. PICK name : name \notin Parameter /\ route.path = <<place, name>>
  BY <1>2
<1>4. DOMAIN request.path = 1 .. 2 /\ request.path[1] = place /\ request.path[2] = name
  <2>1. place \notin Parameter
    BY DEF Parameter
  <2>2. QED
    BY <1>3, <2>1 DEF Fits
<1>5. request.path = <<place, name>>
  BY <1>4
<1>6. "scrape" \notin route.guards
  <2>1. CASE route \in ProbeRoutes
    BY <2>1 DEF ProbeRoutes, Route
  <2>2. CASE route \in OperatorRoutes
    BY <2>2, OperatorPlace
  <2>3. QED
    BY <2>1, <2>2
<1>7. QED
  BY <1>3, <1>5, <1>6

\* A scrape: the audit refuses its path to a probe and to an operator's read, and
\* the route that takes it comes before those of ingress.
LEMMA ScrapeIsGuarded ==
  ASSUME NEW s, CorrectSurface(s), NEW request, request.path \in Seq(STRING),
         IsScrape(s, request), NEW route \in Answering(s, request)
  PROVE  route.guards \in {{"scrape"}, {"provision"}} \/ route \in FrameworkRoutes
<1>1. s.metrics /\ request.path = s.metrics_path /\ ~request.mutates
  BY DEF IsScrape
<1>2. Fits(route, request) /\ ~route.mutates
  BY <1>1, Groups DEF Fits
<1>3. CASE route \in ProductRoutes(s)
  BY <1>2, <1>3, ProductPlace
<1>4. CASE route \in ProbeRoutes \cup OperatorRoutes
  <2>1. route.path = s.metrics_path /\ "scrape" \notin route.guards
    BY <1>1, <1>2, <1>4, LiteralRoutes
  <2>2. Misplaced(route, Class(route, s.metrics_path))
    BY <2>1 DEF Class, Misplaced
  <2>3. QED
    BY <1>4, <2>2, AuditedRoutes DEF CorrectSurface
<1>5. CASE route \in MetricsRoutes(s)
  BY <1>5 DEF Route, MetricsRoutes
<1>6. CASE \A other \in MetricsRoutes(s) : ~Fits(other, request)
  <2>1. Route(s.metrics_path, FALSE, {"scrape"}, FALSE) \in MetricsRoutes(s)
    BY <1>1 DEF MetricsRoutes
  <2>2. Fits(Route(s.metrics_path, FALSE, {"scrape"}, FALSE), request)
    BY <1>1 DEF Route, Fits, IsScrape
  <2>3. QED
    BY <1>6, <2>1, <2>2
<1>7. QED
  BY <1>3, <1>4, <1>5, <1>6, Groups

\* Any other request: below its first segment there is only one population.
LEMMA PlaceIsGuarded ==
  ASSUME NEW s, s.metrics_path \in Seq(STRING), ~IsTemplate(s.metrics_path),
         NEW request \in [path : Path, mutates : BOOLEAN],
         ~IsScrape(s, request), NEW route \in Answering(s, request)
  PROVE  route.guards \in GuardsOfPlace(request)
<1>1. Fits(route, request) /\ request.path \in Seq(STRING) /\ request.mutates \in BOOLEAN
  BY Groups, PathsAreSegments
<1>2. ASSUME NEW place \in {"openapi.json", "docs", "redoc", "health", "operations",
                           "product", "ingress"},
             1 \in DOMAIN route.path, route.path[1] = place
      PROVE  request.path[1] = place
  <2>1. place \notin Parameter
    BY DEF Parameter
  <2>2. QED
    BY <1>1, <1>2, <2>1 DEF Fits
<1>3. CASE route \in FrameworkRoutes \/ route \in ProbeRoutes \/ route \in IngressRoutes(s)
  BY <1>2, <1>3, OpenPlace DEF GuardsOfPlace
<1>4. CASE route \in ProductRoutes(s)
  BY <1>2, <1>4, ProductPlace DEF GuardsOfPlace
<1>5. CASE route \in OperatorRoutes
  BY <1>2, <1>5, OperatorPlace DEF GuardsOfPlace
<1>6. CASE route \in MetricsRoutes(s)
  <2>1. s.metrics /\ route.path = s.metrics_path /\ ~route.mutates
    BY <1>6 DEF Route, MetricsRoutes
  <2>2. DOMAIN s.metrics_path = DOMAIN request.path
        /\ \A i \in DOMAIN s.metrics_path : s.metrics_path[i] = request.path[i]
    BY <1>1, <2>1 DEF Fits, IsTemplate
  <2>3. request.path = s.metrics_path
    BY <1>1, <2>2
  <2>4. request = [path |-> s.metrics_path, mutates |-> FALSE]
    BY <1>1, <2>1, <2>3 DEF Fits
  <2>5. QED
    BY <2>1, <2>4 DEF IsScrape
<1>7. QED
  BY <1>3, <1>4, <1>5, <1>6, Groups

---------------------------------------------------------------------------
(* Each conjunct of the inductive invariant.                               *)

USE DEF At, Goto, process

\* What an empty list of problems tells of the credentials: each that would be
\* loaded is a reference, and the port's goes over https in production.
LEMMA CredentialRules ==
  ASSUME NEW s, Problems(s) = {}
  PROVE  /\ AssemblyReferences(s) \cap {"empty", "literal"} = {}
         /\ Prepares(s) /\ s.production => s.port_url = "https"
<1>1. PortProblems(s) = {} /\ ContractsProblems(s) = {} /\ CallerProblems(s) = {}
  BY DEF Problems
<1>2. ASSUME Prepares(s)
      PROVE  /\ s.port_key \notin {"empty", "literal"}
             /\ s.production => s.port_url = "https"
  <2> DEFINE rules ==
    [exclusive |-> s.port /\ s.prepare,
     prepare_with_worker |-> s.prepare /\ s.worker,
     port_url |-> ~Addressable(s.port_url),
     port_clear |-> s.production /\ s.port_url # "https",
     port_empty |-> "empty" \in {s.port_url, s.port_pin, s.port_key},
     revision |-> s.port /\ s.port_mode = "mirror" /\ s.revision # "exact",
     port_key |-> s.port_key = "literal",
     port_pin |-> s.port_pin = "malformed"]
  <2>1. {"port_clear", "port_empty", "port_key"} \subseteq DOMAIN rules
    OBVIOUS
  <2>2. {rule \in DOMAIN rules : rules[rule]} = {}
    BY <1>1, <1>2 DEF PortProblems, Broken, Prepares
  <2>3. ~rules["port_clear"] /\ ~rules["port_empty"] /\ ~rules["port_key"]
    BY <2>1, <2>2
  <2>4. QED
    BY <2>3
<1>3. ASSUME s.contracts
      PROVE  s.contracts_key \notin {"empty", "literal"}
  <2> DEFINE rules ==
    [contracts_empty |-> "empty" \in {s.contracts_url, s.contracts_pin, s.contracts_key},
     contracts_key |-> s.contracts_key = "literal",
     contracts_pin |-> s.contracts_pin = "malformed"]
  <2>1. {"contracts_empty", "contracts_key"} \subseteq DOMAIN rules
    OBVIOUS
  <2>2. {rule \in DOMAIN rules : rules[rule]} = {}
    BY <1>1, <1>3 DEF ContractsProblems, Broken
  <2>3. ~rules["contracts_empty"] /\ ~rules["contracts_key"]
    BY <2>1, <2>2
  <2>4. QED
    BY <2>3
<1>4. KeysOf(s.callers) \cap {"empty", "literal"} = {}
  <2> DEFINE unfit ==
    \E i \in DOMAIN s.callers :
      LET c == s.callers[i]
      IN \/ ~IsReference(c.key)
         \/ c.scopes = {} \/ ~(c.scopes \subseteq Scope)
         \/ ~c.distinct
  <2>1. ~unfit
    <3> DEFINE rules ==
      [query_callers |-> s.query /\ s.callers = << >>,
       provision_callers |-> s.provision /\ s.callers = << >>,
       query_scope |-> s.query /\ ~Grants(s.callers, "integration:query"),
       provision_scope |-> s.provision /\ ~Grants(s.callers, "integration:provision"),
       no_contracts |-> (s.query \/ s.provision) /\ ~s.contracts,
       applications |-> ~Distinct(s.callers, "application"),
       keys |-> ~Distinct(s.callers, "key"),
       callers |-> unfit]
    <3>1. "callers" \in DOMAIN rules /\ (rules["callers"] <=> unfit)
      BY Zenon
    <3>2. {rule \in DOMAIN rules : rules[rule]} = {}
      BY <1>1 DEF CallerProblems, Broken
    <3> HIDE DEF rules, unfit
    <3>3. QED
      BY <3>1, <3>2
  <2>2. QED
    BY <2>1 DEF KeysOf, IsReference
<1>5. QED
  BY <1>2, <1>3, <1>4 DEF AssemblyReferences, Prepares

LEMMA InitIsFine == Init => IInv
  BY NamesAssumption DEF Init, IInv, TypeOK, Phase, EarlyIsClean, ChecksHold, OwnerIsPinned,
     RegistryIsUnambiguous, PortIsOfTheOwner, LoopsFollowThePort, LoadedIsWhatTheAssemblyNames,
     KeysAreHeld

\* Merges keeps one declaration of a capability.
LEMMA MergesIsUnambiguous ==
  ASSUME NEW declarations, NEW kept \in Merges(declarations)
  PROVE  /\ kept \subseteq declarations
         /\ \A d, e \in kept : d.capability = e.capability => d = e
<1>1. kept \subseteq declarations
  BY DEF Merges
<1>2. ASSUME NEW d \in kept, NEW e \in kept, d.capability = e.capability
      PROVE  d = e
  <2>1. PICK f \in kept : {g \in kept : g.capability = d.capability} = {f}
    BY <1>1 DEF Merges
  <2>2. d \in {g \in kept : g.capability = d.capability}
        /\ e \in {g \in kept : g.capability = d.capability}
    BY <1>2
  <2>3. QED
    BY <2>1, <2>2
<1>3. QED
  BY <1>1, <1>2

LEMMA TypeStep ==
  ASSUME IInv, NEW r \in Replica,
         \/ Start(r) \/ Validate(r) \/ RequireBoundaries(r) \/ AuditSurface(r)
         \/ LoadSecrets(r) \/ PrepareOwner(r) \/ ReadContracts(r) \/ InstallRegistry(r)
         \/ Reconcile(r) \/ StartWorker(r) \/ Exit(r)
  PROVE  TypeOK'
<1> USE DEF TypeOK, Phase
<1>0. TypeOK
  BY DEF IInv
<1>1. CASE Start(r) \/ Validate(r) \/ RequireBoundaries(r) \/ AuditSurface(r)
  BY <1>0, <1>1 DEF Start, Validate, RequireBoundaries, AuditSurface
<1>2. CASE LoadSecrets(r)
  <2>1. AssemblyReferences(config[r]) \subseteq UNION {AssemblyReferences(s) : s \in Deployment}
    BY <1>0
  <2>2. QED
    BY <1>0, <1>2, <2>1 DEF LoadSecrets
<1>3. CASE PrepareOwner(r)
  BY <1>0, <1>3 DEF PrepareOwner, Answer
<1>4. CASE ReadContracts(r)
  <2>1. PICK answer \in Answer(DOMAIN Catalogue) :
          declared' = [declared EXCEPT ![r] = DeclarationsOf(Catalogue[answer.facts])]
    BY <1>4 DEF ReadContracts
  <2>2. DeclarationsOf(Catalogue[answer.facts]) \subseteq Declaration
    BY DEF DeclarationsOf, Declaration, Answer
  <2>3. QED
    BY <1>0, <1>4, <2>1, <2>2 DEF ReadContracts
<1>5. CASE InstallRegistry(r)
  <2> DEFINE owner == IF prepared[r] = None THEN {} ELSE {Descriptor[prepared[r]]}
  <2>1. PICK kept \in Merges(owner \cup declared[r]) : registry' = [registry EXCEPT ![r] = kept]
    BY <1>5 DEF InstallRegistry
  <2>2. owner \subseteq Declaration
    BY <1>0 DEF Declaration
  <2>3. kept \subseteq Declaration
    BY <1>0, <2>2, MergesIsUnambiguous
  <2>4. QED
    BY <1>0, <1>5, <2>1, <2>3 DEF InstallRegistry
<1>6. CASE Reconcile(r)
  BY <1>0, <1>6 DEF Reconcile, IInv, OwnerIsPinned, Prepares
<1>7. CASE StartWorker(r)
  BY <1>0, <1>7 DEF StartWorker, Loop
<1>8. CASE Exit(r)
  BY <1>0, <1>8 DEF Exit
<1>9. QED
  BY <1>1, <1>2, <1>3, <1>4, <1>5, <1>6, <1>7, <1>8

LEMMA ShapeStep ==
  ASSUME IInv, NEW r \in Replica,
         \/ Start(r) \/ Validate(r) \/ RequireBoundaries(r) \/ AuditSurface(r)
         \/ LoadSecrets(r) \/ PrepareOwner(r) \/ ReadContracts(r) \/ InstallRegistry(r)
         \/ Reconcile(r) \/ StartWorker(r) \/ Exit(r)
  PROVE  EarlyIsClean' /\ ChecksHold'
<1>0. TypeOK /\ EarlyIsClean /\ ChecksHold
  BY DEF IInv
<1>1. EarlyIsClean'
  BY <1>0 DEF TypeOK, Phase, EarlyIsClean, Start, Validate, RequireBoundaries, AuditSurface,
     LoadSecrets, PrepareOwner, ReadContracts, InstallRegistry, Reconcile, StartWorker, Exit
<1>2. ChecksHold'
  BY <1>0 DEF TypeOK, Phase, ChecksHold, Start, Validate, RequireBoundaries, AuditSurface,
     LoadSecrets, PrepareOwner, ReadContracts, InstallRegistry, Reconcile, StartWorker, Exit
<1>3. QED
  BY <1>1, <1>2

LEMMA OwnerStep ==
  ASSUME IInv, NEW r \in Replica,
         \/ Start(r) \/ Validate(r) \/ RequireBoundaries(r) \/ AuditSurface(r)
         \/ LoadSecrets(r) \/ PrepareOwner(r) \/ ReadContracts(r) \/ InstallRegistry(r)
         \/ Reconcile(r) \/ StartWorker(r) \/ Exit(r)
  PROVE  OwnerIsPinned'
<1> USE DEF OwnerIsPinned
<1>0. TypeOK /\ EarlyIsClean /\ OwnerIsPinned
  BY DEF IInv
<1>1. CASE Start(r) \/ Validate(r) \/ RequireBoundaries(r) \/ AuditSurface(r)
  BY <1>0, <1>1 DEF TypeOK, EarlyIsClean, Start, Validate, RequireBoundaries, AuditSurface
<1>2. CASE LoadSecrets(r)
  BY <1>0, <1>2 DEF TypeOK, EarlyIsClean, LoadSecrets
<1>3. CASE PrepareOwner(r)
  <2>1. PICK answer \in Answer(DOMAIN Descriptor) :
          /\ Trusted(answer, config[r].port_pin)
          /\ prepared' = [prepared EXCEPT ![r] = answer.facts]
    BY <1>3 DEF PrepareOwner
  <2>2. answer.facts = config[r].port_pin /\ answer.facts # None
    BY <2>1, NamesAssumption DEF Trusted, Answer
  <2>3. QED
    BY <1>0, <1>3, <2>1, <2>2 DEF TypeOK, PrepareOwner
<1>4. CASE ReadContracts(r) \/ InstallRegistry(r) \/ Reconcile(r) \/ StartWorker(r) \/ Exit(r)
  BY <1>0, <1>4 DEF TypeOK, ReadContracts, InstallRegistry, Reconcile, StartWorker, Exit
<1>5. QED
  BY <1>1, <1>2, <1>3, <1>4

LEMMA PortStep ==
  ASSUME IInv, NEW r \in Replica,
         \/ Start(r) \/ Validate(r) \/ RequireBoundaries(r) \/ AuditSurface(r)
         \/ LoadSecrets(r) \/ PrepareOwner(r) \/ ReadContracts(r) \/ InstallRegistry(r)
         \/ Reconcile(r) \/ StartWorker(r) \/ Exit(r)
  PROVE  RegistryIsUnambiguous' /\ PortIsOfTheOwner' /\ LoopsFollowThePort'
<1> USE DEF RegistryIsUnambiguous, PortIsOfTheOwner, LoopsFollowThePort
<1>0. /\ TypeOK /\ EarlyIsClean /\ OwnerIsPinned
      /\ RegistryIsUnambiguous /\ PortIsOfTheOwner /\ LoopsFollowThePort
  BY DEF IInv
<1>1. CASE Start(r) \/ Validate(r) \/ RequireBoundaries(r) \/ AuditSurface(r) \/ LoadSecrets(r)
  BY <1>0, <1>1 DEF TypeOK, EarlyIsClean, Start, Validate, RequireBoundaries, AuditSurface,
     LoadSecrets
<1>2. CASE PrepareOwner(r) \/ ReadContracts(r)
  BY <1>0, <1>2 DEF TypeOK, EarlyIsClean, PrepareOwner, ReadContracts
<1>3. CASE InstallRegistry(r)
  <2> DEFINE owner == IF prepared[r] = None THEN {} ELSE {Descriptor[prepared[r]]}
  <2>1. PICK kept \in Merges(owner \cup declared[r]) : registry' = [registry EXCEPT ![r] = kept]
    BY <1>3 DEF InstallRegistry
  <2>2. \A d, e \in kept : d.capability = e.capability => d = e
    BY MergesIsUnambiguous
  <2>3. RegistryIsUnambiguous'
    BY <1>0, <2>1, <2>2 DEF TypeOK
  <2>4. PortIsOfTheOwner' /\ LoopsFollowThePort'
    BY <1>0, <1>3 DEF TypeOK, EarlyIsClean, InstallRegistry
  <2>5. QED
    BY <2>3, <2>4
<1>4. CASE Reconcile(r)
  BY <1>0, <1>4 DEF TypeOK, EarlyIsClean, OwnerIsPinned, Prepares, Reconcile
<1>5. CASE StartWorker(r)
  BY <1>0, <1>5 DEF TypeOK, EarlyIsClean, StartWorker
<1>6. CASE Exit(r)
  BY <1>0, <1>6 DEF TypeOK, Exit
<1>7. QED
  BY <1>1, <1>2, <1>3, <1>4, <1>5, <1>6

LEMMA CredentialStep ==
  ASSUME IInv, NEW r \in Replica,
         \/ Start(r) \/ Validate(r) \/ RequireBoundaries(r) \/ AuditSurface(r)
         \/ LoadSecrets(r) \/ PrepareOwner(r) \/ ReadContracts(r) \/ InstallRegistry(r)
         \/ Reconcile(r) \/ StartWorker(r) \/ Exit(r)
  PROVE  LoadedIsWhatTheAssemblyNames' /\ KeysAreHeld'
<1> USE DEF LoadedIsWhatTheAssemblyNames, KeysAreHeld
<1>0. TypeOK /\ LoadedIsWhatTheAssemblyNames /\ KeysAreHeld
  BY DEF IInv
<1>1. CASE Start(r) \/ Validate(r) \/ RequireBoundaries(r) \/ AuditSurface(r)
  BY <1>0, <1>1 DEF TypeOK, Start, Validate, RequireBoundaries, AuditSurface
<1>2. CASE LoadSecrets(r)
  <2>1. PICK found \in SUBSET AssemblyReferences(config[r]) :
          held' = [held EXCEPT ![r] = found]
    BY <1>2 DEF LoadSecrets
  <2>2. LoadedIsWhatTheAssemblyNames'
    BY <1>0, <1>2, <2>1 DEF TypeOK, LoadSecrets
  <2>3. KeysAreHeld'
    BY <1>0, <1>2, <2>1 DEF TypeOK, LoadSecrets
  <2>4. QED
    BY <2>2, <2>3
<1>3. CASE PrepareOwner(r) \/ ReadContracts(r)
  BY <1>0, <1>3 DEF TypeOK, PrepareOwner, ReadContracts
<1>4. CASE InstallRegistry(r) \/ Reconcile(r) \/ StartWorker(r)
  BY <1>0, <1>4 DEF TypeOK, InstallRegistry, Reconcile, StartWorker
<1>5. CASE Exit(r)
  BY <1>0, <1>5 DEF TypeOK, Exit
<1>6. QED
  BY <1>1, <1>2, <1>3, <1>4, <1>5

LEMMA NextIsFine == IInv /\ [Next]_vars => IInv'
<1> SUFFICES ASSUME IInv, [Next]_vars PROVE IInv'
  OBVIOUS
<1>1. CASE Next
  <2>1. PICK r \in Replica :
          \/ Start(r) \/ Validate(r) \/ RequireBoundaries(r) \/ AuditSurface(r)
          \/ LoadSecrets(r) \/ PrepareOwner(r) \/ ReadContracts(r) \/ InstallRegistry(r)
          \/ Reconcile(r) \/ StartWorker(r) \/ Exit(r)
    BY <1>1 DEF Next
  <2>2. TypeOK'
    BY <2>1, TypeStep
  <2>3. EarlyIsClean' /\ ChecksHold'
    BY <2>1, ShapeStep
  <2>4. OwnerIsPinned'
    BY <2>1, OwnerStep
  <2>5. RegistryIsUnambiguous' /\ PortIsOfTheOwner' /\ LoopsFollowThePort'
    BY <2>1, PortStep
  <2>6. LoadedIsWhatTheAssemblyNames' /\ KeysAreHeld'
    BY <2>1, CredentialStep
  <2>7. QED
    BY <2>2, <2>3, <2>4, <2>5, <2>6 DEF IInv
<1>2. CASE UNCHANGED vars
  BY <1>2 DEF vars, IInv, TypeOK, EarlyIsClean, ChecksHold, OwnerIsPinned,
     RegistryIsUnambiguous, PortIsOfTheOwner, LoopsFollowThePort, LoadedIsWhatTheAssemblyNames,
     KeysAreHeld
<1>3. QED
  BY <1>1, <1>2

\* The inductive invariant holds in every state of every behaviour.
THEOREM Invariance == Spec => []IInv
  BY InitIsFine, NextIsFine, PTL DEF Spec

---------------------------------------------------------------------------
(* The properties.                                                         *)

\* The variables keep their values' types (assembly.create_app, lifespan).
THEOREM TypeCorrect == Spec => []TypeOK
<1>1. IInv => TypeOK
  BY DEF IInv
<1>2. QED
  BY <1>1, Invariance, PTL

\* The destination row becomes only what an operator pinned, for a deployment
\* that delivers (product_port._read, reconcile).
THEOREM DestinationIsApprovedHolds == Spec => DestinationIsApproved
<1>1. IInv /\ [Next]_vars =>
        [destination' # destination =>
           \E r \in Replica :
             /\ config[r].port /\ ~config[r].prepare
             /\ destination' = config[r].port_pin]_vars
  <2> SUFFICES ASSUME IInv, [Next]_vars, destination' # destination
               PROVE  \E r \in Replica :
                        /\ config[r].port /\ ~config[r].prepare
                        /\ destination' = config[r].port_pin
    OBVIOUS
  <2>1. PICK r \in Replica : Reconcile(r)
    BY DEF Next, vars, Start, Validate, RequireBoundaries, AuditSurface, LoadSecrets,
       PrepareOwner, ReadContracts, InstallRegistry, StartWorker, Exit
  <2>2. config[r].port /\ prepared[r] = config[r].port_pin
    BY <2>1 DEF Reconcile, IInv, OwnerIsPinned, Prepares
  <2>3. Problems(config[r]) = {}
    BY <2>1 DEF Reconcile, IInv, ChecksHold
  <2>4. ~config[r].prepare
    BY <2>2, <2>3, PortRules
  <2>5. QED
    BY <2>1, <2>2, <2>4 DEF Reconcile
<1>2. QED
  BY <1>1, Invariance, PTL DEF Spec, DestinationIsApproved

\* What a replica routes the destination by is its owner's declaration
\* (assembly.lifespan, product_port.reconcile).
THEOREM RoutesByItsOwnerHolds == Spec => []RoutesByItsOwner
<1>1. IInv => RoutesByItsOwner
  <2> SUFFICES ASSUME IInv, NEW r \in Replica, port[r] # None
               PROVE  {d \in registry[r] :
                         d.capability = Descriptor[config[r].port_pin].capability}
                        = {Descriptor[config[r].port_pin]}
    BY DEF RoutesByItsOwner
  <2>1. prepared[r] = config[r].port_pin /\ Descriptor[prepared[r]] \in registry[r]
    BY DEF IInv, OwnerIsPinned, PortIsOfTheOwner
  <2>2. QED
    BY <2>1 DEF IInv, RegistryIsUnambiguous
<1>2. QED
  BY <1>1, Invariance, PTL

\* What a replica runs is what its settings stand for (settings, delivery,
\* worker).
THEOREM LoopsFitTheModeHolds == Spec => []LoopsFitTheMode
<1>1. IInv => LoopsFitTheMode
  <2> SUFFICES ASSUME IInv, NEW r \in Replica
               PROVE  /\ "receipt-delivery" \in loops[r] =>
                           config[r].port /\ config[r].port_mode = "write"
                      /\ "receipt-mirror" \in loops[r] =>
                           /\ config[r].port /\ config[r].port_mode = "mirror"
                           /\ config[r].revision = "exact"
                      /\ At(r, "serving") /\ config[r].prepare =>
                           prepared[r] = config[r].port_pin /\ port[r] = None /\ loops[r] = {}
    BY DEF LoopsFitTheMode
  <2>1. loops[r] # {} => Problems(config[r]) = {}
    BY DEF IInv, EarlyIsClean, ChecksHold
  <2>2. "receipt-delivery" \in loops[r] => config[r].port /\ config[r].port_mode = "write"
    BY DEF None, IInv, LoopsFollowThePort, PortIsOfTheOwner
  <2>3. ASSUME "receipt-mirror" \in loops[r]
        PROVE  /\ config[r].port /\ config[r].port_mode = "mirror"
               /\ config[r].revision = "exact"
    <3>1. port[r] = "mirrors"
      BY <2>3 DEF IInv, LoopsFollowThePort
    <3>2. config[r].port /\ config[r].port_mode # "write"
      BY <3>1 DEF None, IInv, PortIsOfTheOwner
    <3>3. QED
      BY <2>1, <2>3, <3>2, PortRules DEF PortModes
  <2>4. ASSUME At(r, "serving"), config[r].prepare
        PROVE  prepared[r] = config[r].port_pin /\ port[r] = None /\ loops[r] = {}
    <3>1. Problems(config[r]) = {}
      BY <2>4 DEF IInv, ChecksHold
    <3>2. ~config[r].port /\ ~config[r].worker
      BY <2>4, <3>1, PortRules
    <3>3. QED
      BY <2>4, <3>2 DEF IInv, OwnerIsPinned, Prepares, PortIsOfTheOwner, LoopsFollowThePort
  <2>5. QED
    BY <2>2, <2>3, <2>4
<1>2. QED
  BY <1>1, Invariance, PTL

\* A scrape is never answered openly by a probe or by ingress, nor under an
\* operator's guard, and every other request is answered under the guard of its
\* place (surface.require_a_correct_surface, assembly.create_app).
THEOREM SurfaceIsSeparatedHolds == Spec => []SurfaceIsSeparated
<1>1. IInv => SurfaceIsSeparated
  <2> SUFFICES ASSUME IInv, NEW r \in Replica, At(r, "serving"),
                      NEW request \in [path : Path, mutates : BOOLEAN],
                      NEW route \in Answering(config[r], request)
               PROVE  IF IsScrape(config[r], request)
                        THEN \/ route.guards \in {{"scrape"}, {"provision"}}
                             \/ route \in FrameworkRoutes
                        ELSE \/ IsTemplate(config[r].metrics_path)
                             \/ route.guards \in GuardsOfPlace(request)
    BY DEF SurfaceIsSeparated
  <2>1. /\ CorrectSurface(config[r]) /\ request.path \in Seq(STRING)
        /\ config[r].metrics_path \in Seq(STRING)
    BY PathsAreSegments DEF IInv, ChecksHold, TypeOK
  <2>2. QED
    BY <2>1, ScrapeIsGuarded, PlaceIsGuarded
<1>2. QED
  BY <1>1, Invariance, PTL

\* Nothing is loaded that configuration held as it is, and no replica serves
\* without the keys of the products it reads (settings, secret_loading,
\* assembly.lifespan).
THEOREM CredentialsAreInForceHolds == Spec => []CredentialsAreInForce
<1>1. IInv => CredentialsAreInForce
  <2> SUFFICES ASSUME IInv, NEW r \in Replica
               PROVE  /\ asked[r] \cap {"empty", "literal"} = {} /\ held[r] \subseteq asked[r]
                      /\ At(r, "serving") =>
                           /\ Prepares(config[r]) => config[r].port_key \in held[r]
                           /\ Prepares(config[r]) /\ config[r].production =>
                                config[r].port_url = "https"
                           /\ config[r].contracts => config[r].contracts_key \in held[r]
                           /\ config[r].query => KeysOf(config[r].callers) \subseteq asked[r]
    BY DEF CredentialsAreInForce
  <2>1. /\ LoadedIsWhatTheAssemblyNames /\ KeysAreHeld
        /\ pc[r] \notin {"down", "settings"} => Problems(config[r]) = {}
    BY DEF IInv, ChecksHold
  <2>2. asked[r] \cap {"empty", "literal"} = {}
    BY <2>1, CredentialRules DEF LoadedIsWhatTheAssemblyNames
  <2>3. At(r, "serving") /\ config[r].query => KeysOf(config[r].callers) \subseteq asked[r]
    BY <2>1 DEF LoadedIsWhatTheAssemblyNames, AssemblyReferences
  <2>4. At(r, "serving") /\ Prepares(config[r]) /\ config[r].production =>
          config[r].port_url = "https"
    BY <2>1, CredentialRules
  <2>5. QED
    BY <2>1, <2>2, <2>3, <2>4 DEF LoadedIsWhatTheAssemblyNames, KeysAreHeld
<1>2. QED
  BY <1>1, Invariance, PTL

=============================================================================
