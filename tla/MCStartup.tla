----------------------------- MODULE MCStartup -----------------------------
EXTENDS Startup, TLC

MCDescriptor ==
  ("d1" :> [capability |-> 1, contract |-> "owned"])
    @@ ("d2" :> [capability |-> 1, contract |-> "usurped"])

Row(capability, contract, sound) ==
  [capability |-> capability, contract |-> contract, sound |-> sound]

\* c1 claims the capability of the destination with d2's contract.
MCCatalogue ==
  ("c1" :> <<Row(1, "usurped", TRUE), Row(2, "query", TRUE)>>)
    @@ ("c2" :> <<Row(2, "query", TRUE), Row(3, "provision", TRUE)>>)
    @@ ("c3" :> <<Row(3, "provision", TRUE), Row(2, "query", TRUE)>>)
    @@ ("c4" :> <<Row(2, "query", TRUE), Row(3, "provision", FALSE)>>)

Caller(application, scopes) ==
  [application |-> application, key |-> application, scopes |-> scopes, distinct |-> TRUE]

\* An edge replica: no worker, no port, no product caller.
Edge ==
  [production |-> TRUE, worker |-> FALSE, port |-> FALSE, prepare |-> FALSE,
   port_mode |-> "mirror", port_url |-> "https", port_pin |-> "d1",
   port_key |-> "port-key", revision |-> "exact", query |-> FALSE,
   provision |-> FALSE, callers |-> << >>, contracts |-> FALSE,
   contracts_url |-> "https", contracts_pin |-> "c2",
   contracts_key |-> "contracts-key", count |-> 2, mechanism |-> TRUE,
   unsafe |-> {}, ingress |-> TRUE, metrics |-> TRUE, metrics_token |-> TRUE,
   metrics_path |-> <<"metrics">>]

Shadow == [Edge EXCEPT !.worker = TRUE, !.port = TRUE]

Writing == [Shadow EXCEPT !.port_mode = "write", !.revision = "empty"]

Preparing == [Edge EXCEPT !.prepare = TRUE]

Querying ==
  [Edge EXCEPT !.query = TRUE, !.contracts = TRUE,
     !.callers = <<Caller("erp", {"integration:query"})>>]

Provisioning ==
  [Edge EXCEPT !.provision = TRUE, !.contracts = TRUE, !.worker = TRUE,
     !.callers = <<Caller("sub", {"integration:provision"})>>]

\* Every rule of the port and every one of the scrape path has a deployment
\* that breaks it; the other rules have a few.
MCDeployment ==
  {Edge, [Edge EXCEPT !.worker = TRUE], Querying, Provisioning}
    \cup {[Shadow EXCEPT !.revision = revision] : revision \in {"exact", "padded"}}
    \cup {[Writing EXCEPT !.port_pin = pin, !.contracts = contracts, !.contracts_pin = "c1"] :
            pin \in {"d1", "d2"}, contracts \in BOOLEAN}
    \cup {[Writing EXCEPT !.port_mode = "both"], [Writing EXCEPT !.port_url = "shouted"]}
    \cup {Preparing, [Preparing EXCEPT !.port = TRUE, !.port_mode = "write"],
          [Preparing EXCEPT !.worker = TRUE]}
    \cup {[Querying EXCEPT !.contracts_pin = pin] : pin \in {"c3", "c4"}}
    \cup {[Querying EXCEPT !.callers = << >>],
          [Querying EXCEPT !.callers = <<[@[1] EXCEPT !.key = "literal"]>>],
          [Edge EXCEPT !.unsafe = {"HOST"}],
          [Edge EXCEPT !.mechanism = FALSE]}
    \cup {[Edge EXCEPT !.metrics_path = path] :
            path \in {<<"health", "live">>, <<"operations", "connectors">>,
                      <<"operations", "stats">>, <<"ingress", "metrics">>,
                      <<"ingress", ":endpoint_key">>, <<"refresh">>, <<"docs">>}}
    \cup {[Querying EXCEPT !.metrics_path = <<"product", "v1", "queries">>],
          [Provisioning EXCEPT !.metrics_path = <<"product", "v1", "provisions", "metrics">>]}

\* Every scrape path, and one request for each kind of the other routes.
MCPath ==
  {s.metrics_path : s \in MCDeployment}
    \cup {<<"health", "ready">>, <<"product", "v1", "provisions">>,
          <<"product", "v1", "provisions", "o1", "cancel">>, <<"operations", "secrets">>,
          <<"operations", "receipts", "r1", "replay">>, <<"ingress", "e1">>}

Symmetry == Permutations(Replica)
=============================================================================
