# The Dotmac Integrator in TLA+

The integrator (`src/src/dotmac_integrator`) is a connector control plane: it takes provider
events in, records them, and delivers each to one destination application; beside that it
polls providers, provisions resources at them and answers product queries. It is a thin
assembly. The transactional primitives it drives (claims, settles, replays, evidence,
installations) belong to the package `dotmac_integration`, whose source is not in the
repository; they are modelled from how the code here calls and describes them, and the map
in `PROJECT.json` marks them external.

## Inventory

| part | state | operations | what is hard about it |
|---|---|---|---|
| delivery pump (`delivery.py`) | inbox rows: state, attempts, lease, next attempt; the installed port | select a page, claim, call, settle; lost claims | replicas race on one inbox; leases expire in mid-call; requests land late; passes die half-way |
| product port client (`product_port.py`) | none between calls | address, send, read the answer, classify; mirror; reconcile the descriptor | an answer must never be taken for more than it says |
| shadow mirror (`delivery.py`) | evidence per receipt and revision | sample, compare, keep evidence | nothing is claimed, so replicas overlap; one bad receipt must not end the run |
| worker (`worker.py`) | four asyncio tasks, a thread each, one stopping event, the last sweep's time | start, loops, stop | cancellation against threads; failed passes; order of shutdown |
| secret material (`secret_loading.py`, `secret_resolver.py`) | the held set, the last report | install, refresh, resolve | concurrent refreshes; a reference dropped while in use |
| operator operations (`operations.py`) | installations, bindings, endpoints; audit | draft, configure, mint, enable, replay, sweep | preconditions checked in one transaction and used in another |
| ingress edge (`ingress.py`, routes in `assembly.py`) | none; units of work over the module | body cap, handshake, delivery | a batch refused half-way; acknowledgement before commit |
| polling (`polling.py`) | checkpoints, optimistic | one page of jobs a wake-up | two replicas on one job |
| provisioning (`provisioning.py`, `provision_api.py`) | operations and their steps | prepare, invoke, settle; submit, cancel | claims as in the pump; a bounded number of units a pass |
| startup (`assembly.py`, `settings.py`, `product_contracts.py`, `runtime_policy.py`, `surface.py`) | nothing after startup | validate, prepare the owner, install, start | each step needs the one before it |
| query and product authentication (`query.py`, `product_auth.py`) | none | admit, ask the provider, tell the result | what a product is told |
| telemetry, health, operator authentication | process counters | count, render, compare | not modelled |
| migrations, redaction, bootstrap | none | one-shot jobs and text conversions | not modelled |

The parts meet in three places: the database rows (the pump, ingress, operations and the
sweeps of all replicas), the process's installed material (port, registry, secrets, all
replaced as a whole), and the destination, which sees requests of every replica.

## Modules

| module | models |
|---|---|
| `ProductPort` | pure operators of the client: `Classify`, `Outcome`, `Address` |
| `ReceiptPromise` | what delivery promises, with no worker or message in it |
| `ReceiptDelivery` | the pump of several replicas over one inbox, and the destination |
| `ReceiptDelivery_proofs` | the theorems about it |
| `ShadowMirror`, `ShadowMirror_proofs` | the shadow pass of several replicas |
| `WorkerLifecycle`, `WorkerLifecycle_proofs` | the loops of one process, their threads, start and stop |
| `HeldSecrets`, `HeldSecrets_proofs` | the loads that replace a process's secret material, and the resolutions that read it |
| `Enablement`, `Enablement_proofs` | the authoring and gated enablement of installations by concurrent operators, with secrets rotated meanwhile |
| `Settings` | pure operators: the rules of the settings, the references loaded at startup, the mounted surface and its audit |
| `Startup`, `Startup_proofs` | the start of several replicas, step by step, over one destination row |
| `ProvisioningPromise` | what provisioning promises a product, with no worker, lease or transaction in it |
| `Provisioning`, `Provisioning_proofs` | the provisioning passes of several replicas, and a product's request beside them |
| `Intake`, `Intake_proofs` | the ingress connection and the polling passes, over one inbox |
| `MC*` | small instances for TLC |

### ReceiptDelivery

One action per step of `deliver_due_receipts`. `SelectPage` is `due_receipt_ids`, a hint read in
a transaction of its own; `TakeClaim` and `PassOver` are the two results of the claim's
conditional update; `Send`, `Answer`, `NoAnswer` and `RefuseUnsent` are the call, made while no
transaction is open; `Settle` and `LoseClaim` are the two results of the settle. `Abandon` ends a
pass anywhere: the process is killed, or something other than `LostClaim` is raised, which the
loop of `worker.py` survives. `Record` is the destination handling a request, at any time after
it was sent, also after its sender has given up.

`leased_until` is a number per claim (`claims`), and whether it has passed is the set `live`;
`next_attempt_at` is the set `due`. A clock would add nothing: the predicates only read those two
facts, and both may change between any two steps. The idempotency key is the receipt, because
`build_envelope` takes the durable `provider_event_id` and refuses any other.

What the state means: `Claim` records carry the attempt and the lease they were made under, as
`ReceiptClaim` does, so that a superseded worker can be told from the current one.

### ShadowMirror

`_shadow_request` builds its request with no claim, so the module has no receipt states. The page
is walked in order; an address that fails raises through `mirror_due_receipts`
(`AddressRaises`), while transport failures and unreadable reports become evidence.

### WorkerLifecycle

Tasks move at their awaits, threads independently. `Interrupted` is the CancelledError, which
passes by both handlers of the loops. Nothing waits for the threads: `Dispose` follows when every
task has ended. A pass is a page of units, whatever its loop. `StopCompletes` is about the lifespan, which
is where the module ends: the interpreter joins the threads of its executor after that, so that a stuck
one still holds up the exit of the process.

`Stuck` names the loops whose passes may never end: a provisioning target, or a database, that
does not answer. Fairness asks nothing of their threads.

### HeldSecrets

A load (`BeginLoad` to `Replace`) dereferences the references of all stored revisions, sorted, one
step each; a file takes two, `CheckRoot` and the read, because the mount may go in between. A
resolution (`Ask` to `EndLookups`) is `resolve_secrets`: one walk that collects what is missing,
and a second that looks each reference up again. Files and the stored references belong to others
and may change at any time, so a read simply finds whatever there can be; the environment is the
process's own and keeps its values. `Value` stands for material that can be held, and `Unusable` for
the three ways not to be. The replacement of the held set is the kernel's. Whether it lets one load
at a time do so cannot be told from this repository: `Serialised` is a constant, TRUE in the runs,
and only `HeldIsAsReported` depends on it.

### Enablement

A request is a thread with one database transaction. What it writes lands at its commit, in the one
step that also adds its audit record (`Records`), because `operations.py` writes both in one session;
what it read may be old by then. Requests whose reads and writes are far apart take several steps:
configuration (`ReadRevisions`, then `MintRevision`, `SelectRevision` or the `RevisionConflicts` of
the unique number), refresh (`Refresh` is in force before `RecordRefresh`), and enablement
(`ReadInstallation` to `Enable` or one of its five refusals). The session keeps the rows as it read
them, so the connector is asked about the revision that was current then.

The lifecycle rules are the module's and not in this repository. What it refuses is a choice
(`Refused`), and so is whether it takes an installation out of service (`MayDisable`); that revisions
are numbered, immutable and idempotent by digest is what `operations.py` says of it. The connector
is a choice too: it accepts, or rejects with a diagnostic that quotes any part of the material it was
given. `rotated` is a history variable: which of a request's material was replaced while it was being
validated. A load of `HeldSecrets` is one step here, `Refresh`, with any result.

### Settings and Startup

A check that fails raises, and an exception before the replica serves ends its process. So an action
of `Startup` is what a phase does when it succeeds, in the order of `create_app` and its lifespan, and
`Exit` is every refusal, every failed call, every stop and every kill. `pc[r]` is the phase a replica is
to take next. `Validate` is `validate_settings` with no problem left; `AuditSurface` is
`require_a_correct_surface`; `PrepareOwner` and `ReadContracts` read what a product answers and accept
it only by its pin; `Reconcile` is the one transaction that projects the destination. Replicas start
with settings of their own, as in a rolling deployment, and share the `destination` row.

A product answers anything: no JSON, a digest that does not cover the facts, facts nobody pinned. A
descriptor or a registry is named by its digest, so that equal digests are equal documents. The rules
of `Settings` are named after what they refuse, each with the guards under which the code adds it. 
A path is the sequence of its segments, and a segment like ":operation_id" a parameter, `{operation_id}` in
the code. The audit and the routing look at it differently, and both are modelled. `Class` compares the text
of a route's path with the scrape path, as `classify` does. `Fits` matches a request with a route, a
parameter taking any segment, and `Answering` is the first route that fits in the order of `create_app`
(`Mounted`). Matching is the framework's and external, and so are the pages it mounts before everything else,
which the audit passes over (`FrameworkRoutes`). A parameter is a whole segment: a scrape path with one inside
a segment, or with one that takes several, is not modelled.

### Provisioning

A worker's pass is `SelectPage`, then for each operation of the page `Prepare`, `Invoke` and `Settle`
until nothing is left of it or its units are used up. Each is a session of its own, as in
`provisioning.py`. `InvokeRaises`, `LoseClaim` and `PassFails` are the two handlers around one
operation, after which the page goes on; `Crash` ends the pass. A lease is the claim itself: `Expire`
frees one nobody works under, at any time, and `Outlive` one whose call is still running.

A product's request is followed from its admission to its answer, through the same code paths as the
routes take: `BeginSubmit` or `BeginOwned`, `View`, `CommitSubmit` or `CommitCancel`, and for a query
`BeginQuery` and `ExecuteQuery`. The row of the operation is read before its steps, and both before
the commit, so that workers may settle in between. `Elsewhere` is what other requests commit. Claims,
units and duplicates of a command are the engine's.

`Promise` maps all this to `ProvisioningPromise`. An operation of the promise is its plan, the number of
its settled steps, and whether it was called off; what a product was told is `ToldViews`, the view of a
request at the moment it is answered. A pass is a stutter but for its `Settle`, which may settle one step,
none, or all of an operation called off; a request is one but for its commit and its answer. An answer
need not be the latest state, but it has to be one that the operation was in.

### Intake

One connection at a time: `ReadChunk` until the body ends or breaks the cap, `Resolve` (the first unit
of work, with the two rules of eligibility), `Verify` (the connector, no session open), `RecordEvent`
and `CommitBatch` (the second unit of work). `UnitOfWork` commits on a clean exit and rolls back on an
exception. What a provider was told decides what it sends again: `known`. An event collides with one of
the same id and other content, in the inbox or in its own batch, which refuses the batch; the commit looks
again, because others have committed since. `Elsewhere` is what other connections record.

A poller's pass is `SelectJobs`, then `Fetch` and `RecordPoll`, `PollEmpty` or `PollRaises` for each
job. `position` is a checkpoint with its version: `RecordPoll` needs it as it was read, and writes
events and checkpoint in one unit of work.

## Runs

| run | instance | shows |
|---|---|---|
| `pump` | 1 receipt, 2 replicas, 2 attempts, 1 replay, 1 fault | `NoTwoLiveLeases`, `ProcessedIsHeld`, `AttemptsAreBounded`, `OutcomeOfCurrentClaim`, `SettledStays`, the refinement `KeepsPromise` |
| `pump_liveness` | 3 receipts, 1 replica, pages of 2, 2 attempts | `EveryReceiptSettles` |
| `pump_stranded` | 1 receipt, 1 replica, 1 fault | `ExpiredLeaseIsReclaimed` fails |
| `worker` | pages of 2; provisioning and polling passes may be stuck | `LoopsSurvive`, `OnePassPerLoop`, `StopCompletes`, and `LoopsComeBack` for the other loops |
| `worker_shutdown` | pages of 1 | `IdleWhenDisposed` fails |
| `shadow` | 3 receipts, 2 replicas, pages of 2 | `TerminalIsReported` |
| `secrets` | 3 references, 2 of them files, 2 loads, 1 resolver | `ResolvedIsComplete`, `HeldIsAsReported` |
| `enable` | 1 installation, 2 contents, 2 references, 2 values, 5 requests | `TrailNamesTheValidated`, `OneClaimsEachRevision`, `EvidenceOrNothing`, `WrittenOnlyAfterRotation` |
| `startup` | 2 replicas, 30 deployments, 16 paths, 2 descriptors, 4 registries | `DestinationIsApproved`, `RoutesByItsOwner`, `LoopsFitTheMode`, `SurfaceIsSeparated`, `CredentialsAreInForce` |
| `startup_unheld` | the same | `CallerKeysAreLoaded` fails |
| `provision` | 2 workers, an operation that never ends and one a product asks about, 2 plans of 2 steps, 1 unit a pass, 1 fault | `AcceptedIsDurable`, `TerminalViewIsWhole`, `UnitsAreExclusive`, `HealthyOperationsEnd`, the refinement `KeepsPromise` |
| `intake` | 3 batches of 5 events, a limit of 3 in chunks of 2, 2 pollers, 2 jobs, 1 fault | `AcknowledgedIsRecorded`, `BatchesAreWhole`, `BodyIsCapped`, `CheckpointIsBacked`, `OneContentPerEvent`, `EventsArrive` |

Bounds. Two replicas are enough for every race on one row, since a row has at most one current
claim and the properties speak of pairs; two attempts and one replay give a claim its attempt
number twice, which is what a settle fenced by the attempt would confuse. They also reach the bound of
`AttemptsAreBounded`, three attempts of one receipt where the policy has two. The theorems lift all
of these bounds. The invariant of types is among the checked ones but in `provision`, `intake` and
`startup`, where it is left to the theorems.

Two loads, the start's and a refresh, are enough for a resolution to see the set replaced in its
midst; one resolver, because resolutions write nothing that another reads; three references, so
that a load may hold some of one resolution's and not others.

Five requests draft an installation, configure it twice and leave two to race: two enablements, an
enablement with a rotation, or a third configuration. One of the two contents names a reference more
than the other, so that a record with the wrong revision is told from the right one. Requests and
values are symmetric.

The deployments of `startup` are the shapes a replica can have (an edge, a worker, shadow, writing,
preparing, querying, provisioning), and for every rule of the port and every way to misplace the scrape path
one that breaks it; among the scrape paths that pass are three which another route or page takes
(`/product/v1/provisions/metrics`, `/docs`) or would take if it were mounted first (`/ingress/metrics`). The
requests are for every scrape path and for one path of each kind of the other routes, by both methods. Two
replicas are what it takes for one to project the destination another has routed by. One unit a pass and a
page of two let an endless operation stand before the one that is to end. The page holds every operation
there is, so that none is left off it: which ones a full page leaves off is the engine's choice and unknown
here. Two plans let a submission find the other's. Nothing tells the plans apart but that they differ, so
that `MCFairSpec` begins with one of them stored and loses no behaviour but for their names. In `intake` two
batches disagree about one event and the third is too large; the limit is no multiple of the chunk, so that
it is broken in mid-chunk. One of the jobs has a connector that raises, and the other's log is two pages
long.

Fairness. `FairSpec` of the pump asks that a loop goes on while its process does (`_deliver_forever`
catches everything), that a call ends (every request has a timeout), and that time passes. It asks
nothing of the destination, the provider or an operator. `FairSpec` of the worker asks
that the event loop serves what is ready and that passes advance, but for those of `Stuck` loops.
The first presumes that the handlers of requests return: the ingress handlers are `async` and use
the database on the event loop itself, so a database that never answers stops every loop, which is
outside the module.

`FairSpec` of provisioning asks that a worker's loop goes on and its calls return (the loop of
`worker.py` never ends, and a call has its timeout), and that a lease nobody works under runs out. A
fault may still end any pass. `FairSpec` of the intake asks more of others, because what arrives is
theirs to send: a provider repeats its handshake and what was not acknowledged, an operator enables a
confirmed binding. Of the code it asks that what was begun goes on and that the polling loop comes
back. `Disable` and every failure are faults, of which there are finitely many.

## Findings

1. `pump_stranded`: a receipt in `processing` whose lease ran out is never offered by
   `due_receipt_ids`, although the comment above it says that the claim recovers it; nor may an
   operator replay it. The timed sweep is documented for deliveries (`in_flight`) only.
2. `worker_shutdown`: the pool is disposed while threads of cancelled passes still run, against
   the order in `docs/RUNBOOK.md`.
3. `startup_unheld`: `install_secrets` loads the product callers' keys only where queries are enabled.
   A deployment with provisioning alone passes validation, mounts its routes and answers every call 401.

Five disagreements with documentation were met while modelling and are kept here without a run. The
modules do what the code does in each case, and the runs' properties hold with it.

* A receipt that cannot be addressed, or no envelope made of, ends the shadow pass (`AddressRaises`),
  where `delivery.py:363-365` wants the rest of the page covered.
* A mount that vanishes after the look at its root makes a file reference merely missing, and the
  refresh drops what was held, where `docs/RUNBOOK.md` says that it fails.
* One secret file that is no UTF-8 text raises out of the load and refuses the start, where
  `secret_loading.py` promises to omit the one reference.
* A diagnostic that quotes a credential rotated away during its validation is taken for clean and
  committed, where `docs/RUNBOOK.md` says that it is not recorded (`WrittenOnlyAfterRotation` is as much
  as holds). It takes a plugin whose text reaches the assembly.
* `surface.py:22-33` gives each population paths of its own, with `METRICS_PATH` for the scrape. The audit
  compares texts, so that `METRICS_PATH=/product/v1/provisions/metrics` passes although the product's GET
  of `/product/v1/provisions/{operation_id}` is mounted first and answers it, and `METRICS_PATH=/docs`
  although the framework's page does. One with a parameter passes and may take requests that are not
  scrapes. `SurfaceIsSeparated` is what holds beside these: a scrape is never answered by a probe, by
  ingress or under an operator's guard, and every other request is answered under the guard of its place.

## Proofs

`ReceiptDelivery_proofs` proves, for any receipts, workers, answers, destinations and limits: `TypeCorrect`,
`NoTwoLiveLeasesHolds`, `ProcessedIsHeldHolds`, `AttemptsAreBoundedHolds`, `OutcomeIsOfCurrentClaim`,
`SettledReceiptsStay` and the refinement `PromiseIsKept`. All follow from `Invariance`, that `IInv` holds;
none of the invariants is inductive alone, that of types included. `NoTwoLiveLeases` needs that a live lease
is its row's own (`LeasesAreCurrent`) and that no two workers hold one claim (`ClaimsAreDistinct`), which
needs that no worker holds a claim number the row has not given out (`HoldersAreKnown`). `ProcessedIsHeld`
needs that a request a worker waits for is still on the wire or recognised at the destination
(`RequestsAreTraced`), and the refinement that nothing is sent for a receipt never received
(`RequestsAreReceived`).

`AttemptsAreBounded` is counted. A receipt in `processing` is on no new page, so a takeover, which counts
an attempt no settle has judged, is paid for by a replica that crosses the receipt off an older one
(`Naming`): attempts made and pages left to name it stay below the limit and the number of replicas
together (`AttemptsAreLeft`). A settle offers the receipt again only with attempts left. The property
shows the other side of finding 1: if the selector offered expired leases, as its comment has it, takeovers
would have no such bound.

The assumptions are those of `ReceiptDelivery`: receipts are natural numbers, workers finite, answers and
destinations of their types, the limits natural and that of attempts not zero.

`WorkerLifecycle_proofs`: `TypeCorrect`, `LoopsSurviveHolds` and `OnePassPerLoopHolds`, for pages of any
length. `IInv` adds that nothing runs before the start
(`NothingYet`), that no task is cancelled or ended while the process serves (`Undisturbed`), and that a
result which no task has read yet is of a pass that ended (`ResultsAreOfEndedPasses`): without the last,
a task could wait for a pass that never began.

`ShadowMirror_proofs`: `TypeCorrect` and `TerminalIsReportedHolds`, for any fleet. The property speaks
of evidence, and the step that keeps evidence reads a verdict computed earlier: `VerdictIsReported` says
that this verdict already rests on a report about the very receipt.

`HeldSecrets_proofs`: `TypeCorrect`, `ResolvedIsCompleteHolds` and `HeldIsAsReportedHolds`, for any
references, loads and callers. The first property needs `WalkedIsGot` (all that the second walk has
passed is in what it returns) and nothing of the loads, so that overlap cannot hurt it. The second needs
`ReportRunsAhead`: between `EndLoad` and `Replace` the report tells of a set not held yet, which is
harmless only if no other load is there.

`Enablement_proofs`: `TypeCorrect`, `TrailHolds`, `OneClaimsEachRevisionHolds`, `EvidenceHolds` and
`RedactionHolds`, for any number of installations, requests, contents and references.
`TrailNamesTheValidated` needs that the revision a request in the gate speaks of exists
(`RevisionsExist`), that what was resolved is whole (`GivenIsWhole`), and that an acceptance is
remembered (`AcceptedIsKnown`); `EvidenceOrNothing` that answers come at the end (`AnsweredAtTheEnd`);
`WrittenOnlyAfterRotation` that all a request was given and that was not rotated is still held
(`RestIsHeld`). The assumptions are those of `Enablement`: contents name references, and "none" is no
material. `OneClaimsEachRevision` needs that the trail configures minted revisions only
(`ConfiguredIsMinted`): then the number that a step mints is on no record yet, and the record of that
step is the first to claim it (`ClaimStep`).

`Startup_proofs`: `TypeCorrect`, `DestinationIsApprovedHolds`, `RoutesByItsOwnerHolds`,
`LoopsFitTheModeHolds`, `SurfaceIsSeparatedHolds` and `CredentialsAreInForceHolds`, for any replicas,
deployments, descriptors, registries and paths. Some lemmas say what the checks are worth. `PortRules` and
`CredentialRules` tell what an empty list of problems means for a port and for the references to be loaded.
`ScrapeIsGuarded` rests on the audit where a probe or an operator's read could answer a scrape, since these
have no parameter and fit a scrape only as its very path (`LiteralRoutes`), and on the order of mounting
where ingress could (`Groups`). `PlaceIsGuarded` rests on first segments: no route but the scrape's may
leave the place it is mounted at. The invariant says that what a replica has not come to is not there (`EarlyIsClean`), that what it
passed holds (`ChecksHold`), and that what it prepared is what is pinned (`OwnerIsPinned`).
`RoutesByItsOwner` then rests on a registry with one declaration of a capability
(`RegistryIsUnambiguous`) that has the owner's in it (`PortIsOfTheOwner`). `CredentialsAreInForce` is
what is left of the promise that finding 3 refutes: it needs that what was asked for is what the
assembly names (`LoadedIsWhatTheAssemblyNames`), and that a key once read with stays held
(`KeysAreHeld`). Assumed is only that "none" and the two marks of a bad pin are no digests, and that paths
are sequences of strings.

`Provisioning_proofs`: `TypeCorrect`, `AcceptedIsDurableHolds`, `TerminalViewIsWholeHolds`,
`UnitsAreExclusiveHolds` and the refinement `PromiseIsKept`, for any finite set of workers and any
commands and plans. The types alone need that only an open operation has a claim and a step left
(`OperationsAreWhole`), and that a worker in a call has units left (`PassIsBounded`). A view is whole
because a state is read before the steps and "done" is final (`ReadingsStay`). `UnitsAreExclusive` is
counted: who works without holding the claim is astray, each of them for a lease that ran out under a
call (`StraysAreFaults`), and at most one more holds the claim. The refinement needs that what a request
shows has been settled (`ShownIsSettled`): it was read some steps ago, and stays true because no step of
anybody's takes a plan, a settled step, an end or a cancellation back (`NothingIsUndone`).
`AnswersAreTrue` draws from it that an answer tells a state the operation was in, `ToldStays` that
nothing else changes what was told, and `PromiseStep` goes through the actions.

`Intake_proofs`: `TypeCorrect`, `AcknowledgedIsRecordedHolds`, `BatchesAreWholeHolds`,
`BodyIsCappedHolds`, `CheckpointIsBackedHolds` and `OneContentPerEventHolds`, for any batches, sizes,
chunks, logs and pollers. The inbox only grows (`InboxGrows`), which carries what was once recorded;
`CheckpointIsBacked` needs that what a poller fetched lies in its log (`PollIsInLog`) and, in the step
that advances it, that the checkpoint is the one that was read; `OneContentPerEvent` that what an open
unit of work has written does not collide with itself (`WrittenIsConsistent`), and that sets may be
joined which do not collide (`JoinIsConsistent`). Assumed are the types of the constants, and that a
stream has chunks.

Only model-checked: every liveness property (`EveryReceiptSettles`, `StopCompletes`, `LoopsComeBack`,
`HealthyOperationsEnd`, `EventsArrive`), because liveness under fairness and `ENABLED` are out of the
proof system's reach, as is induction over data. Every other property of a passing run has a theorem. No
module uses a recursive operator.

## Plan

What the plan of the project still has, in this order:

| module | would model | aimed at |
|---|---|---|
| a composition of `Intake` and `ReceiptDelivery` | an event from its delivery to its consequence: `CommitBatch` as the `Receive` of the pump | every acknowledged event has one consequence or a dead letter |
| `Enablement`, extended | the lease sweep and the replay of deliveries (`operations.py`) | a swept delivery is attempted again, and once |
| `Telemetry` | the predicates behind the gauges | what alerts count is what the pump could take |

## Not modelled, and why

* Migrations: a one-shot job whose order is Alembic's.
* Redaction: text substitution, which no property tells apart.
* Operator bootstrap and the report of `runtime_policy.py`: declarations inspected once, with no
  behaviour after.
* Operator authentication: a comparison of a credential with a table, without state. Of product
  authentication, the comparison itself.
* Telemetry: counters and gauges by which nothing is decided; its wording and layout are most of it.
* Health: one query, which nothing reads back.
* How settings are read from the environment, and how a registry's row is parsed, field by field.
* The construction of the envelope, field by field, beyond its key and its destination.
* The inside of `dotmac_integration` and of the kernel: only what this repository's code relies on.
