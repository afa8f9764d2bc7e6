------------------------------ MODULE Settings ------------------------------
(***************************************************************************)
(* The settings of a deployment, the rules that refuse them (settings.py), *)
(* and the surface a deployment mounts with the audit of it (assembly.py,  *)
(* surface.py), as pure operators.                                         *)
(*                                                                         *)
(* A URL, a digest, a reference or a path is reduced to what the rules     *)
(* tell apart.  A digest is named by the document it is the digest of.     *)
(*                                                                         *)
(* A definition named Mut_* is the one after it as a plausible bug would   *)
(* have it; nothing uses it but the mutation runs.                         *)
(***************************************************************************)
EXTENDS Naturals, Sequences, FiniteSets

\* "shouted" is a clear http URL in capitals or behind a blank; "unfit" has
\* another scheme, no host, credentials, a query or a fragment.
Url == {"empty", "https", "http", "shouted", "unfit"}

\* What urlsplit of the stripped text accepts.
Addressable(url) == url \in {"https", "http", "shouted"}

PortModes == {"mirror", "write"}

Scope == {"integration:query", "integration:provision"}

Mut_IsReference(ref) == ref # "empty"

\* A caller's reference is a literal when it is neither env:// nor file://.
IsReference(ref) == ref \notin {"empty", "literal"}

(* A deployment s is a record:                                             *)
(*   production, worker, port, prepare, query, provision, contracts,       *)
(*   ingress, metrics, metrics_token, mechanism   whether it is so         *)
(*   port_mode, port_url, port_pin, port_key, revision   of the product    *)
(*   port; a revision is "empty", "padded" or "exact"                      *)
(*   contracts_url, contracts_pin, contracts_key, count   of the registry  *)
(*   callers, a sequence; unsafe, the knobs left at a development value;   *)
(*   metrics_path                                                          *)
(* A caller is [application, key, scopes, distinct], the last whether its  *)
(* binding_ids are without repetition.                                     *)

Grants(callers, scope) ==
  \E i \in DOMAIN callers : scope \in callers[i].scopes

Distinct(callers, field) ==
  Cardinality({callers[i][field] : i \in DOMAIN callers}) = Len(callers)

Broken(rules) == {rule \in DOMAIN rules : rules[rule]}

---------------------------------------------------------------------------
(* The rules.                                                              *)

CallerProblems(s) ==
  Broken(
     [query_callers |-> s.query /\ s.callers = << >>,
      provision_callers |-> s.provision /\ s.callers = << >>,
      query_scope |-> s.query /\ ~Grants(s.callers, "integration:query"),
      provision_scope |-> s.provision /\ ~Grants(s.callers, "integration:provision"),
      no_contracts |-> (s.query \/ s.provision) /\ ~s.contracts,
      applications |-> ~Distinct(s.callers, "application"),
      keys |-> ~Distinct(s.callers, "key"),
      callers |-> \E i \in DOMAIN s.callers :
        LET c == s.callers[i]
        IN \/ ~IsReference(c.key)
           \/ c.scopes = {} \/ ~(c.scopes \subseteq Scope)
           \/ ~c.distinct])

ContractsProblems(s) ==
  IF ~s.contracts THEN {}
  ELSE Broken(
     [contracts_empty |-> "empty" \in {s.contracts_url, s.contracts_pin, s.contracts_key},
      contracts_key |-> s.contracts_key = "literal",
      contracts_pin |-> s.contracts_pin = "malformed"])

\* A mode nobody knows is told alone, and rules nothing out of a deployment
\* that only prepares.
PortProblems(s) ==
  IF ~s.prepare /\ s.port_mode \notin PortModes THEN {"port_mode"}
  ELSE IF ~(s.port \/ s.prepare) THEN {}
  ELSE Broken(
     [exclusive |-> s.port /\ s.prepare,
      prepare_with_worker |-> s.prepare /\ s.worker,
      port_url |-> ~Addressable(s.port_url),
      port_clear |-> s.production /\ s.port_url # "https",
      port_empty |-> "empty" \in {s.port_url, s.port_pin, s.port_key},
      revision |-> s.port /\ s.port_mode = "mirror" /\ s.revision # "exact",
      port_key |-> s.port_key = "literal",
      port_pin |-> s.port_pin = "malformed"])

\* The knobs that may not keep their development value in production.
Knob ==
  {"DEPLOYMENT_ID", "DATABASE_URL", "MIGRATION_DATABASE_URL", "HOST",
   "PLATFORM_ROOT_DOMAIN", "JWT_SECRET", "SECRET_FILE_ROOT"}

\* The registry's URL is compared as it was typed, so that "shouted" passes.
ProductionProblems(s) ==
  IF ~s.production THEN {}
  ELSE s.unsafe \cup Broken(
     [contracts_clear |-> s.contracts /\ s.contracts_url = "http",
      metrics_token |-> s.metrics /\ ~s.metrics_token])

Problems(s) ==
  CallerProblems(s) \cup ContractsProblems(s) \cup PortProblems(s)
    \cup ProductionProblems(s)
    \cup (IF s.mechanism THEN {} ELSE {"OPERATOR_AUTH_MECHANISM"})

---------------------------------------------------------------------------
(* What is loaded at startup.                                              *)

KeysOf(callers) == {callers[i].key : i \in DOMAIN callers}

\* Those the assembly itself names; the rest is in configuration revisions.
AssemblyReferences(s) ==
  (IF s.port \/ s.prepare THEN {s.port_key} ELSE {})
    \cup (IF s.query THEN KeysOf(s.callers) ELSE {})
    \cup (IF s.contracts THEN {s.contracts_key} ELSE {})

---------------------------------------------------------------------------
(* The surface.  A path is the sequence of its segments; a parameter,      *)
(* {name} in the code, is the segment ":name".  A route says whether it    *)
(* mutates (POST, or GET), what guards it carries, and whether it takes a  *)
(* reason.                                                                 *)

Route(path, mutates, guards, reason) ==
  [path |-> path, mutates |-> mutates, guards |-> guards, reason |-> reason]

\* ":any" stands for the parameters a configured path may have.
Parameter ==
  {":operation_id", ":installation_id", ":binding_id", ":delivery_id",
   ":receipt_id", ":endpoint_key", ":any"}

IsTemplate(path) == \E i \in DOMAIN path : path[i] \in Parameter

\* The pages that describe the API, which the framework mounts by itself.
FrameworkRoutes ==
  {Route(path, FALSE, {}, FALSE) :
     path \in {<<"openapi.json">>, <<"docs">>, <<"docs", "oauth2-redirect">>, <<"redoc">>}}

ProbeRoutes ==
  {Route(<<"health", name>>, FALSE, {}, FALSE) : name \in {"live", "ready", "composition"}}

ProductRoutes(s) ==
  (IF s.query
     THEN {Route(<<"product", "v1", "queries">>, TRUE, {"query"}, FALSE)} ELSE {})
  \cup
  (IF s.provision
     THEN {Route(<<"product", "v1", "provisions">>, TRUE, {"provision"}, FALSE),
           Route(<<"product", "v1", "provisions", ":operation_id", "cancel">>, TRUE,
                 {"provision"}, FALSE),
           Route(<<"product", "v1", "provisions", ":operation_id">>, FALSE,
                 {"provision"}, FALSE)}
     ELSE {})

OperatorReads ==
  {<<"operations", name>> :
     name \in {"connectors", "runtime-policy", "health-report", "shadow-report", "secrets"}}

OperatorActs ==
  {<<"operations", "installations">>,
   <<"operations", "secrets", "refresh">>,
   <<"operations", "leases", "release-expired">>,
   <<"operations", "bindings", ":binding_id", "enable">>,
   <<"operations", "bindings", ":binding_id", "ingress-endpoint", "mint">>,
   <<"operations", "deliveries", ":delivery_id", "replay">>,
   <<"operations", "receipts", ":receipt_id", "replay">>}
  \cup {<<"operations", "installations", ":installation_id", name>> :
          name \in {"bindings", "config-revisions", "enable"}}

OperatorRoutes ==
  {Route(path, FALSE, {"operator"}, FALSE) : path \in OperatorReads}
    \cup {Route(path, TRUE, {"operator"}, TRUE) : path \in OperatorActs}

MetricsRoutes(s) ==
  IF s.metrics THEN {Route(s.metrics_path, FALSE, {"scrape"}, FALSE)} ELSE {}

\* A handshake and a delivery at one path: the provider's signature is checked
\* inside the connector.
IngressRoutes(s) ==
  IF s.ingress
    THEN {Route(<<"ingress", ":endpoint_key">>, mutates, {}, FALSE) : mutates \in BOOLEAN}
    ELSE {}

\* In the order they are mounted; no request fits two routes of one group.
Mounted(s) ==
  <<FrameworkRoutes, ProductRoutes(s), ProbeRoutes, MetricsRoutes(s), OperatorRoutes,
    IngressRoutes(s)>>

\* The routes the audit looks at: the framework's are of another kind.
Routes(s) == UNION {Mounted(s)[i] : i \in 2 .. 6}

\* A request is [path, mutates], its path without parameters.
Fits(route, request) ==
  /\ route.mutates = request.mutates
  /\ DOMAIN route.path = DOMAIN request.path
  /\ \A i \in DOMAIN route.path : route.path[i] \in Parameter \cup {request.path[i]}

\* What answers a request, as a set of at most one: the first route it fits.
Answering(s, request) ==
  {route \in UNION {Mounted(s)[i] : i \in 1 .. 6} :
     \E i \in 1 .. 6 :
       /\ route \in Mounted(s)[i] /\ Fits(route, request)
       /\ \A j \in 1 .. (i - 1) : \A other \in Mounted(s)[j] : ~Fits(other, request)}

Mut_ClassByPrefix(route, metrics_path) ==
  CASE route.path[1] = "health" -> "probe"
    [] route.path[1] = "operations" -> "operator"
    [] route.path[1] \in {"ingress", "product"} -> route.path[1]
    [] OTHER -> "scrape"

\* The text of a path is compared with the configured one before the prefixes,
\* a parameter as it is written.
Class(route, metrics_path) ==
  IF route.path = metrics_path THEN "scrape"
  ELSE CASE route.path[1] = "health" -> "probe"
         [] route.path[1] = "operations" -> "operator"
         [] route.path[1] \in {"ingress", "product"} -> route.path[1]
         [] OTHER -> "none"

\* As a segment, or within one.
LifecycleVerb == {"mint", "rotate", "revoke", "refresh"}

\* The rules a route of its class breaks.
Misplaced(route, class) ==
  \/ class = "none"
  \/ class = "operator" /\ "operator" \notin route.guards
  \/ class = "operator" /\ route.mutates /\ ~route.reason
  \/ class # "operator" /\ "operator" \in route.guards
  \/ class # "operator" /\ \E i \in DOMAIN route.path : route.path[i] \in LifecycleVerb
  \/ class \in {"probe", "scrape"} /\ route.mutates
  \/ class = "product" /\ route.guards \cap {"query", "provision"} = {}
  \/ class = "scrape" /\ "scrape" \notin route.guards

\* require_a_correct_surface passes.
CorrectSurface(s) ==
  \A route \in Routes(s) : ~Misplaced(route, Class(route, s.metrics_path))

=============================================================================
