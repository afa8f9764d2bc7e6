----------------------------- MODULE Enablement -----------------------------
(***************************************************************************)
(* The operators' authoring of installations (operations.py): drafts,      *)
(* configuration revisions, bindings, endpoints, the gated enablement, and *)
(* the refresh of secret material that may land in the middle of it.       *)
(*                                                                         *)
(* A request is a thread of one process with one database transaction.     *)
(* Everything it writes lands at its commit, in one step with the audit    *)
(* record; what it read may be old by then.  What the lifecycle module     *)
(* refuses of its own accord is a choice: its source is elsewhere.         *)
(*                                                                         *)
(* A definition named Mut_* is the one after it as a plausible bug would   *)
(* have it; nothing uses it but the mutation runs.                         *)
(***************************************************************************)
EXTENDS Naturals, Sequences

CONSTANTS
  Installation,   \* connector key and name: what an installation is unique by
  NoInstallation, \* the entity of a record that is about none
  Request,        \* operators' requests
  Content,        \* what a configuration revision can say, up to its digest
  Reference,      \* references to secret material
  References,     \* References[c]: those content c names
  Value           \* material that can be held

ASSUME NoInstallationIsNone == NoInstallation \notin Installation
ASSUME ContentNamesReferences == References \in [Content -> SUBSET Reference]
ASSUME ValuesAreSomething == "none" \notin Value

VARIABLES
  drafted,  \* installations drafted
  minted,   \* minted[i]: the configuration revisions of i, in order
  current,  \* current[i]: its current revision, or 0
  enabled,  \* installations enabled
  binding,  \* binding[i]: "none", "disabled" or "enabled"
  endpoint, \* installations with an ingress endpoint minted
  written,  \* written[q]: material quoted by the state reason and detail q left
  trail,    \* the audit records
  held,     \* held[r]: the material held for r, or "none"
  accepted, \* what connectors validated: installation, revision, material
  pc,       \* pc[q]: where request q is
  inst,     \* inst[q]: the installation it is about
  rev,      \* rev[q]: the revision it read, or the number of those it saw
  wish,     \* wish[q]: the contents it is to put
  given,    \* given[q]: the material it resolved
  rotated,  \* rotated[q]: what of it was replaced during its validation (a history)
  quoted,   \* quoted[q]: the material quoted by the connector's diagnostic
  answer    \* answer[q]: how it ended

bindings == <<binding, endpoint>>
rows == <<drafted, minted, current, enabled, bindings, written>>
local == <<inst, rev, wish, given, quoted>>
control == <<pc, answer>>
vars == <<rows, trail, held, accepted, rotated, local, control>>

---------------------------------------------------------------------------

Material == [Reference -> Value \cup {"none"}]

Nothing == [r \in Reference |-> "none"]

Action == {"drafted", "configured", "bound", "endpoint_minted", "binding_enabled",
           "refreshed", "enable_refused", "enabled"}

Record == [by : Request, action : Action, inst : Installation \cup {NoInstallation},
           rev : Nat, new : BOOLEAN]

\* Answers of requests that changed a row, or whose refusal is evidence.
Evidenced == {"done", "not_held", "not_valid", "not_installed"}

Answer == Evidenced \cup {"none", "refused", "leaking", "failed"}

TypeOK ==
  /\ drafted \subseteq Installation
  /\ minted \in [Installation -> Seq(Content)]
  /\ current \in [Installation -> Nat]
  /\ \A i \in Installation : current[i] \in 0 .. Len(minted[i])
  /\ enabled \subseteq Installation
  /\ binding \in [Installation -> {"none", "disabled", "enabled"}]
  /\ endpoint \subseteq Installation
  /\ written \in [Request -> SUBSET Value]
  /\ trail \subseteq Record
  /\ held \in Material
  /\ accepted \subseteq Installation \X Nat \X Material
  /\ pc \in [Request -> {"idle", "putting", "refreshed", "checking", "resolving",
                         "validating", "accepted", "rejected", "clean", "ended"}]
  /\ inst \in [Request -> Installation \cup {NoInstallation}]
  /\ rev \in [Request -> Nat]
  /\ wish \in [Request -> SUBSET Content]
  /\ given \in [Request -> Material]
  /\ rotated \in [Request -> SUBSET Value]
  /\ quoted \in [Request -> SUBSET Value]
  /\ answer \in [Request -> Answer]

Init ==
  /\ drafted = {}
  /\ minted = [i \in Installation |-> << >>]
  /\ current = [i \in Installation |-> 0]
  /\ enabled = {}
  /\ binding = [i \in Installation |-> "none"]
  /\ endpoint = {}
  /\ written = [q \in Request |-> {}]
  /\ trail = {}
  /\ held \in Material
  /\ accepted = {}
  /\ pc = [q \in Request |-> "idle"]
  /\ inst = [q \in Request |-> NoInstallation]
  /\ rev = [q \in Request |-> 0]
  /\ wish = [q \in Request |-> {}]
  /\ given = [q \in Request |-> Nothing]
  /\ rotated = [q \in Request |-> {}]
  /\ quoted = [q \in Request |-> {}]
  /\ answer = [q \in Request |-> "none"]

---------------------------------------------------------------------------

Goes(q, to) == pc' = [pc EXCEPT ![q] = to] /\ UNCHANGED answer

Ends(q, how) ==
  /\ pc' = [pc EXCEPT ![q] = "ended"]
  /\ answer' = [answer EXCEPT ![q] = how]

\* _record: one audit event, in the transaction of what it is about.
Records(q, action, i, n, new) ==
  trail' = trail \cup
    {[by |-> q, action |-> action, inst |-> i, rev |-> n, new |-> new]}

\* The lifecycle module may take an installation out of service when it is
\* reconfigured, or when its validation fails.
MayDisable(i) == enabled' \in {enabled, enabled \ {i}}

\* Identifiers that name nothing, and whatever the module refuses: no evidence.
Refused(q) ==
  /\ pc[q] = "idle"
  /\ Ends(q, "refused")
  /\ UNCHANGED <<rows, trail, held, accepted, rotated, local>>

\* An exception nobody converts, or a lost database: the session rolls back.
Fails(q) ==
  /\ pc[q] \notin {"idle", "ended"}
  /\ Ends(q, "failed")
  /\ UNCHANGED <<rows, trail, held, accepted, rotated, local>>

---------------------------------------------------------------------------
(* Authoring.                                                              *)

\* A name taken meanwhile is the IntegrityError that becomes a 409 (Refused).
CreateInstallation(q, i) ==
  /\ pc[q] = "idle" /\ i \notin drafted
  /\ drafted' = drafted \cup {i}
  /\ Records(q, "drafted", i, 0, TRUE)
  /\ Ends(q, "done")
  /\ UNCHANGED <<minted, current, enabled, bindings, written, held, accepted,
                 rotated, local>>

\* The module reads the revisions there are before it puts one.
ReadRevisions(q, i, c) ==
  /\ pc[q] = "idle" /\ i \in drafted
  /\ inst' = [inst EXCEPT ![q] = i]
  /\ rev' = [rev EXCEPT ![q] = Len(minted[i])]
  /\ wish' = [wish EXCEPT ![q] = {c}]
  /\ Goes(q, "putting")
  /\ UNCHANGED <<rows, trail, held, accepted, rotated, given, quoted>>

Seen(q) == 1 .. rev[q]

Mut_IsNew(q, c) == TRUE

\* Revisions are idempotent by digest.
IsNew(q, c) == \A n \in Seen(q) : minted[inst[q]][n] # c

\* The number of a new revision was taken by a concurrent request: a 409.
RevisionConflicts(q, c) ==
  /\ pc[q] = "putting" /\ c \in wish[q]
  /\ \A n \in Seen(q) : minted[inst[q]][n] # c
  /\ Len(minted[inst[q]]) # rev[q]
  /\ Ends(q, "refused")
  /\ UNCHANGED <<rows, trail, held, accepted, rotated, local>>

MintRevision(q, c) ==
  /\ pc[q] = "putting" /\ c \in wish[q]
  /\ \A n \in Seen(q) : minted[inst[q]][n] # c
  /\ Len(minted[inst[q]]) = rev[q]
  /\ minted' = [minted EXCEPT ![inst[q]] = Append(@, c)]
  /\ current' = [current EXCEPT ![inst[q]] = rev[q] + 1]
  /\ MayDisable(inst[q])
  /\ Records(q, "configured", inst[q], rev[q] + 1, IsNew(q, c))
  /\ Ends(q, "done")
  /\ UNCHANGED <<drafted, bindings, written, held, accepted, rotated, local>>

SelectRevision(q, c) ==
  /\ pc[q] = "putting" /\ c \in wish[q]
  /\ \E n \in Seen(q) :
       /\ minted[inst[q]][n] = c
       /\ current' = [current EXCEPT ![inst[q]] = n]
       /\ Records(q, "configured", inst[q], n, IsNew(q, c))
  /\ MayDisable(inst[q])
  /\ Ends(q, "done")
  /\ UNCHANGED <<drafted, minted, bindings, written, held, accepted, rotated, local>>

\* The one binding of the declared capability is created, or updated.
ConfigureBinding(q, i) ==
  /\ pc[q] = "idle" /\ i \in drafted
  /\ binding' = [binding EXCEPT ![i] = IF @ = "none" THEN "disabled" ELSE @]
  /\ Records(q, "bound", i, 0, FALSE)
  /\ Ends(q, "done")
  /\ UNCHANGED <<drafted, minted, current, enabled, endpoint, written, held,
                 accepted, rotated, local>>

MintEndpoint(q, i) ==
  /\ pc[q] = "idle" /\ binding[i] # "none"
  /\ endpoint' = endpoint \cup {i}
  /\ Records(q, "endpoint_minted", i, 0, FALSE)
  /\ Ends(q, "done")
  /\ UNCHANGED <<drafted, minted, current, enabled, binding, written, held,
                 accepted, rotated, local>>

EnableBinding(q, i) ==
  /\ pc[q] = "idle" /\ binding[i] # "none"
  /\ binding' = [binding EXCEPT ![i] = "enabled"]
  /\ Records(q, "binding_enabled", i, 0, FALSE)
  /\ Ends(q, "done")
  /\ UNCHANGED <<drafted, minted, current, enabled, endpoint, written, held,
                 accepted, rotated, local>>

---------------------------------------------------------------------------
(* refresh_secret_material: the new material is in force before the record. *)

Refresh(q, material) ==
  /\ pc[q] = "idle"
  /\ held' = material
  /\ rotated' = [p \in Request |->
       IF pc[p] \in {"validating", "rejected"}
         THEN rotated[p] \cup {v \in Value : \E r \in Reference :
                                 given[p][r] = v /\ material[r] # v}
         ELSE rotated[p]]
  /\ Goes(q, "refreshed")
  /\ UNCHANGED <<rows, trail, accepted, local>>

RecordRefresh(q) ==
  /\ pc[q] = "refreshed"
  /\ Records(q, "refreshed", NoInstallation, 0, FALSE)
  /\ Ends(q, "done")
  /\ UNCHANGED <<rows, held, accepted, rotated, local>>

---------------------------------------------------------------------------
(* enable_installation.                                                    *)

\* The installation and its current revision are read once.
ReadInstallation(q, i) ==
  /\ pc[q] = "idle" /\ i \in drafted /\ current[i] # 0
  /\ inst' = [inst EXCEPT ![q] = i]
  /\ rev' = [rev EXCEPT ![q] = current[i]]
  /\ Goes(q, "checking")
  /\ UNCHANGED <<rows, trail, held, accepted, rotated, wish, given, quoted>>

\* Revisions are immutable: the one read is the one there is.
SecretRefs(q) == References[minted[inst[q]][rev[q]]]

AllHeld(q) == \A r \in SecretRefs(q) : held[r] # "none"

Mut_Evidence(q) == Records(q, "enablement_refused", inst[q], rev[q], FALSE)

\* Only actions the manifest declares may be recorded.
Evidence(q) == Records(q, "enable_refused", inst[q], rev[q], FALSE)

Mut_RefuseMaterial(q) ==
  /\ pc[q] = "checking" /\ ~AllHeld(q)
  /\ Ends(q, "not_held")
  /\ UNCHANGED <<rows, trail, held, accepted, rotated, local>>

\* Committed before the 409 is raised, or the record would be rolled back.
RefuseMaterial(q) ==
  /\ pc[q] = "checking" /\ ~AllHeld(q)
  /\ Evidence(q)
  /\ Ends(q, "not_held")
  /\ UNCHANGED <<rows, held, accepted, rotated, local>>

CheckMaterial(q) ==
  /\ pc[q] = "checking" /\ AllHeld(q)
  /\ Goes(q, "resolving")
  /\ UNCHANGED <<rows, trail, held, accepted, rotated, local>>

\* SecretsNotHeld, which nothing here converts, is Fails.
ResolveSecrets(q) ==
  /\ pc[q] = "resolving" /\ AllHeld(q)
  /\ given' = [given EXCEPT ![q] =
       [r \in Reference |-> IF r \in SecretRefs(q) THEN held[r] ELSE "none"]]
  /\ Goes(q, "validating")
  /\ UNCHANGED <<rows, trail, held, accepted, rotated, inst, rev, wish, quoted>>

\* The connector's live check of the connection takes the material. The session
\* keeps the row as it was read, so it is about the revision that was.
Accept(q) ==
  /\ pc[q] = "validating"
  /\ accepted' = accepted \cup {<<inst[q], rev[q], given[q]>>}
  /\ Goes(q, "accepted")
  /\ UNCHANGED <<rows, trail, held, rotated, local>>

Given(q) == {given[q][r] : r \in Reference} \ {"none"}

\* Its diagnostic may quote some of it, which it ought not.
Reject(q, text) ==
  /\ pc[q] = "validating" /\ text \subseteq Given(q)
  /\ quoted' = [quoted EXCEPT ![q] = text]
  /\ Goes(q, "rejected")
  /\ UNCHANGED <<rows, trail, held, accepted, rotated, inst, rev, wish, given>>

\* No installed distribution declares the connector.
RefuseUninstalled(q) ==
  /\ pc[q] = "validating"
  /\ Evidence(q)
  /\ Ends(q, "not_installed")
  /\ UNCHANGED <<rows, held, accepted, rotated, local>>

Mut_Redactable(q) == FALSE

\* redact knows what is held by the time it looks.
Redactable(q) == \E r \in Reference : held[r] \in quoted[q]

RollBack(q) ==
  /\ pc[q] = "rejected" /\ Redactable(q)
  /\ Ends(q, "leaking")
  /\ UNCHANGED <<rows, trail, held, accepted, rotated, local>>

FindClean(q) ==
  /\ pc[q] = "rejected" /\ ~Redactable(q)
  /\ Goes(q, "clean")
  /\ UNCHANGED <<rows, trail, held, accepted, rotated, local>>

\* The module's state reason and the detail of the record hold the diagnostic.
RefuseInvalid(q) ==
  /\ pc[q] = "clean"
  /\ written' = [written EXCEPT ![q] = quoted[q]]
  /\ MayDisable(inst[q])
  /\ Evidence(q)
  /\ Ends(q, "not_valid")
  /\ UNCHANGED <<drafted, minted, current, bindings, held, accepted, rotated, local>>

Mut_RevisionOf(q) == current[inst[q]]

\* The record names the revision that was read, not the one current by now.
RevisionOf(q) == rev[q]

Enable(q) ==
  /\ pc[q] = "accepted"
  /\ enabled' = enabled \cup {inst[q]}
  /\ Records(q, "enabled", inst[q], RevisionOf(q), FALSE)
  /\ Ends(q, "done")
  /\ UNCHANGED <<drafted, minted, current, bindings, written, held, accepted,
                 rotated, local>>

---------------------------------------------------------------------------

Author(q) ==
  \/ Refused(q) \/ Fails(q)
  \/ \E i \in Installation :
       \/ CreateInstallation(q, i) \/ ConfigureBinding(q, i)
       \/ MintEndpoint(q, i) \/ EnableBinding(q, i)
       \/ \E c \in Content : ReadRevisions(q, i, c)
  \/ \E c \in Content :
       RevisionConflicts(q, c) \/ MintRevision(q, c) \/ SelectRevision(q, c)

Rotate(q) == RecordRefresh(q) \/ \E material \in Material : Refresh(q, material)

Gate(q) ==
  \/ \E i \in Installation : ReadInstallation(q, i)
  \/ RefuseMaterial(q) \/ CheckMaterial(q) \/ ResolveSecrets(q)
  \/ Accept(q) \/ RefuseUninstalled(q)
  \/ \E text \in SUBSET Value : Reject(q, text)
  \/ RollBack(q) \/ FindClean(q) \/ RefuseInvalid(q) \/ Enable(q)

Next == \E q \in Request : Author(q) \/ Rotate(q) \/ Gate(q)

Spec == Init /\ [][Next]_vars

---------------------------------------------------------------------------
(* What the properties rest on.                                            *)

InGate(q) ==
  pc[q] \in {"checking", "resolving", "validating", "accepted", "rejected", "clean"}

\* A request speaks of a revision that exists, and of no more than exist.
RevisionsExist ==
  \A q \in Request :
    /\ InGate(q) => inst[q] \in Installation /\ rev[q] \in 1 .. Len(minted[inst[q]])
    /\ pc[q] = "putting" => inst[q] \in Installation /\ rev[q] <= Len(minted[inst[q]])

\* Whoever resolved has material for every reference of its revision.
GivenIsWhole ==
  \A q \in Request :
    pc[q] \in {"validating", "accepted", "rejected", "clean"} =>
      \A r \in SecretRefs(q) : given[q][r] # "none"

AcceptedIsKnown ==
  \A q \in Request : pc[q] = "accepted" => <<inst[q], rev[q], given[q]>> \in accepted

\* An answer is given at the end, and only then.
AnsweredAtTheEnd == \A q \in Request : pc[q] = "ended" <=> answer[q] # "none"

\* Of what a request in validation was given, all that was not rotated is held.
RestIsHeld ==
  \A q \in Request :
    /\ pc[q] \in {"validating", "rejected"} =>
         \A v \in Given(q) \ rotated[q] : \E r \in Reference : held[r] = v
    /\ pc[q] = "rejected" => quoted[q] \subseteq Given(q)
    /\ pc[q] = "clean" => quoted[q] \subseteq rotated[q]

\* What is said to be configured is of a revision that was minted.
ConfiguredIsMinted ==
  \A e \in trail :
    e.action = "configured" => e.inst \in Installation /\ e.rev \in 1 .. Len(minted[e.inst])

---------------------------------------------------------------------------
(* Properties.                                                             *)

\* What is enabled has its record, and what the record says is true of the
\* connector: it accepted just that revision, with material for each of its
\* references, even if another revision was made current in between.
TrailNamesTheValidated ==
  /\ \A i \in enabled : \E e \in trail : e.action = "enabled" /\ e.inst = i
  /\ \A e \in trail :
       e.action = "enabled" =>
         \E a \in accepted :
           /\ a[1] = e.inst /\ a[2] = e.rev
           /\ e.rev \in 1 .. Len(minted[e.inst])
           /\ \A r \in References[minted[e.inst][e.rev]] : a[3][r] # "none"

\* Of all who configured, in whatever order they read and put, one record claims
\* each revision as new.
OneClaimsEachRevision ==
  \A i \in Installation : \A n \in 1 .. Len(minted[i]) :
    \E q \in Request :
      {e.by : e \in {f \in trail : f.action = "configured" /\ f.inst = i
                                     /\ f.rev = n /\ f.new}} = {q}

\* A request that changed a row, and a refusal by the gate, has one record; one
\* that was turned away, rolled back or lost has none.
EvidenceOrNothing ==
  /\ \A q \in Request : answer[q] \in Evidenced <=> \E e \in trail : e.by = q
  /\ \A e, f \in trail : e.by = f.by => e = f

\* No material gets into the database unless it was rotated away in the middle
\* of the validation that quoted it.
WrittenOnlyAfterRotation == \A q \in Request : written[q] \subseteq rotated[q]

IInv ==
  /\ TypeOK /\ RevisionsExist /\ GivenIsWhole /\ AcceptedIsKnown
  /\ AnsweredAtTheEnd /\ RestIsHeld /\ ConfiguredIsMinted
  /\ TrailNamesTheValidated /\ EvidenceOrNothing /\ WrittenOnlyAfterRotation
  /\ OneClaimsEachRevision

=============================================================================
