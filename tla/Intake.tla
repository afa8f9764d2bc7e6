------------------------------- MODULE Intake -------------------------------
(***************************************************************************)
(* Provider events on their way into the inbox: the public ingress         *)
(* (ingress.py and its two routes in assembly.py) and the polling passes   *)
(* of the workers (polling.py).                                            *)
(*                                                                         *)
(* The engine is a library.  Its façades, receive, answer_challenge and    *)
(* poll_once, are modelled from how this code uses and describes them: no  *)
(* session is held across a connector call, a batch is recorded in one     *)
(* unit of work, and a poll advances its checkpoint only from the version  *)
(* it read.  One connection is followed at a time; of the others there is  *)
(* what they commit.                                                       *)
(*                                                                         *)
(* A definition named Mut_* is the one after it as a plausible bug would   *)
(* have it; nothing uses it but the mutation runs.                         *)
(***************************************************************************)
EXTENDS Naturals, Sequences, FiniteSets

CONSTANTS
  Event,      \* what a provider may tell: [id, content]
  Batch,      \* what a provider delivers in one body
  Events,     \* Events[b]: the events of that batch
  Size,       \* Size[b]: bytes of its body
  HelloSize,  \* bytes of a handshake's
  Chunk,      \* sizes in which a stream arrives
  Limit,      \* INGRESS_MAX_BODY_BYTES
  Poller,     \* the polling loop of a replica
  Job,        \* polling jobs, one checkpoint each
  Broken,     \* jobs whose connector call may raise
  Log,        \* Log[j]: the events the provider of j holds, in order
  Page,       \* events a poll asks for at most
  MaxFaults   \* bound: connections and transactions that fail

ASSUME IntakeAssumption ==
  /\ Events \in [Batch -> SUBSET Event]
  /\ Size \in [Batch -> Nat] /\ HelloSize \in Nat
  /\ Chunk \subseteq Nat \ {0} /\ Chunk # {}
  /\ Limit \in Nat /\ Page \in Nat \ {0} /\ MaxFaults \in Nat
  /\ Log \in [Job -> Seq(Event)]

None == "none"

ASSUME NoneAssumption == None \notin Batch \cup Job

VARIABLES
  confirmed,  \* the provider has seen a handshake answered
  enabled,    \* the binding and its installation are enabled
  inbox,      \* the events recorded
  known,      \* batches the provider was told are accepted
  phase,      \* how far the connection is: "idle", "read", "resolve", ...
  kind,       \* "handshake" or "delivery"
  batch,      \* the batch it carries
  buffered,   \* the bytes of it that are held
  written,    \* the events written in its open unit of work
  outcome,    \* the code it was answered
  position,   \* position[j]: the checkpoint, with its version
  pending,    \* pending[p]: jobs of its page poller p has not come to
  job,        \* job[p]: the one it polls
  read,       \* read[p]: the checkpoint it read
  fetched,    \* fetched[p]: how many events the provider gave it
  faults      \* faults so far

connection == <<phase, kind, batch, buffered, written, outcome>>
polls == <<position, pending, job, read, fetched>>
vars == <<confirmed, enabled, inbox, known, connection, polls, faults>>

Range(s) == {s[i] : i \in DOMAIN s}

\* One provider_event_id with two contents.
Collides(event, events) ==
  \E e \in events : e.id = event.id /\ e.content # event.content

Mut_UnitOfWork(raised, events) == inbox \cup events

\* A clean exit commits, an exception rolls back.
UnitOfWork(raised, events) == IF raised THEN inbox ELSE inbox \cup events

Fault == faults < MaxFaults /\ faults' = faults + 1

Init ==
  /\ confirmed = FALSE /\ enabled = FALSE
  /\ inbox = {} /\ known = {}
  /\ phase = "idle" /\ kind = "handshake" /\ batch = None
  /\ buffered = 0 /\ written = {} /\ outcome = None
  /\ position = [j \in Job |-> 0]
  /\ pending = [p \in Poller |-> {}]
  /\ job = [p \in Poller |-> None]
  /\ read = [p \in Poller |-> 0]
  /\ fetched = [p \in Poller |-> 0]
  /\ faults = 0

---------------------------------------------------------------------------
(* The provider and the operator.                                          *)

\* A provider redelivers what it was not told is accepted, and may repeat what
\* it was.  It delivers before the binding is enabled as well.
Arrive(k, b) ==
  /\ phase = "idle"
  /\ phase' = "read" /\ kind' = k /\ batch' = b
  /\ buffered' = 0 /\ written' = {} /\ outcome' = None
  /\ UNCHANGED <<confirmed, enabled, inbox, known, polls, faults>>

Handshake == Arrive("handshake", None)

Deliver(b) == Arrive("delivery", b)

\* A provider confirms a subscription once its handshake is answered, and an
\* operator enables what is confirmed; what is enabled may be disabled.
Enable ==
  /\ confirmed /\ ~enabled /\ enabled' = TRUE
  /\ UNCHANGED <<confirmed, inbox, known, connection, polls, faults>>

Disable ==
  /\ enabled /\ Fault /\ enabled' = FALSE
  /\ UNCHANGED <<confirmed, inbox, known, connection, polls>>

\* A batch another connection records.
Elsewhere(b) ==
  /\ enabled
  /\ \A e \in Events[b] : ~Collides(e, inbox \cup Events[b])
  /\ inbox' = inbox \cup Events[b]
  /\ UNCHANGED <<confirmed, enabled, known, connection, polls, faults>>

---------------------------------------------------------------------------
(* The connection.                                                         *)

Length == IF kind = "handshake" THEN HelloSize ELSE Size[batch]

\* What the route answers; the provider stops retrying what is accepted.
Tell(code) == outcome' = code /\ phase' = "idle"

Mut_ReadWhole(bytes) ==
  /\ phase = "read" /\ buffered < Length
  /\ buffered' = IF buffered + bytes < Length THEN buffered + bytes ELSE Length
  /\ IF buffered' = Length /\ Length > Limit
       THEN Tell("payload_too_large")
       ELSE UNCHANGED <<phase, outcome>>
  /\ UNCHANGED <<confirmed, enabled, inbox, known, kind, batch, written, polls, faults>>

\* The cap is applied to each chunk as it comes: on the first byte too many the
\* rest of the stream is not read, and nothing is looked up.
ReadChunk(bytes) ==
  /\ phase = "read" /\ buffered < Length
  /\ buffered' = IF buffered + bytes < Length THEN buffered + bytes ELSE Length
  /\ IF buffered' > Limit
       THEN Tell("payload_too_large")
       ELSE UNCHANGED <<phase, outcome>>
  /\ UNCHANGED <<confirmed, enabled, inbox, known, kind, batch, written, polls, faults>>

EndOfBody ==
  /\ phase = "read" /\ buffered = Length
  /\ phase' = "resolve"
  /\ UNCHANGED <<confirmed, enabled, inbox, known, kind, batch, buffered, written, outcome, polls, faults>>

Mut_Eligible(k) == enabled

\* A configured binding answers a handshake while it is disabled; a delivery
\* requires it enabled.
Eligible(k) == k = "handshake" \/ enabled

\* The first unit of work.
Resolve ==
  /\ phase = "resolve"
  /\ IF Eligible(kind)
       THEN phase' = "verify" /\ UNCHANGED outcome
       ELSE Tell("refused")
  /\ UNCHANGED <<confirmed, enabled, inbox, known, kind, batch, buffered, written, polls, faults>>

\* The connector is called with no session open.  A handshake ends here and has
\* written nothing; a signature may not verify.
Verify ==
  /\ phase = "verify"
  /\ \/ /\ kind = "handshake"
        /\ Tell("challenge_answered")
        /\ confirmed' = TRUE
        /\ UNCHANGED faults
     \/ /\ kind = "delivery"
        /\ phase' = "record"
        /\ UNCHANGED <<outcome, confirmed, faults>>
     \/ /\ Fault
        /\ Tell("refused")
        /\ UNCHANGED confirmed
  /\ UNCHANGED <<enabled, inbox, known, kind, batch, buffered, written, polls>>

\* Inside the second unit of work, one event after the other.
RecordEvent ==
  /\ phase = "record"
  /\ \E event \in Events[batch] \ written :
       IF Collides(event, inbox \cup written)
         THEN /\ inbox' = UnitOfWork(TRUE, written)
              /\ written' = {}
              /\ Tell("refused")
         ELSE /\ written' = written \cup {event}
              /\ UNCHANGED <<inbox, phase, outcome>>
  /\ UNCHANGED <<confirmed, enabled, known, kind, batch, buffered, polls, faults>>

Mut_AcceptAnyway ==
  /\ phase = "record" /\ written = Events[batch]
  /\ inbox' = UnitOfWork(\E e \in written : Collides(e, inbox), written)
  /\ Tell("accepted")
  /\ \/ known' = known \cup {batch} /\ UNCHANGED faults
     \/ Fault /\ UNCHANGED known
  /\ written' = {}
  /\ UNCHANGED <<confirmed, enabled, kind, batch, buffered, polls>>

Mut_CommitUnchecked ==
  /\ phase = "record" /\ written = Events[batch]
  /\ inbox' = UnitOfWork(FALSE, written)
  /\ Tell("accepted")
  /\ \/ known' = known \cup {batch} /\ UNCHANGED faults
     \/ Fault /\ UNCHANGED known
  /\ written' = {}
  /\ UNCHANGED <<confirmed, enabled, kind, batch, buffered, polls>>

\* The batch is committed before it is acknowledged; the acknowledgement may be
\* lost.  What another connection recorded meanwhile may fail the commit.
CommitBatch ==
  /\ phase = "record" /\ written = Events[batch]
  /\ IF \E e \in written : Collides(e, inbox)
       THEN /\ inbox' = UnitOfWork(TRUE, written)
            /\ Tell("refused")
            /\ UNCHANGED <<known, faults>>
       ELSE /\ inbox' = UnitOfWork(FALSE, written)
            /\ Tell("accepted")
            /\ \/ known' = known \cup {batch} /\ UNCHANGED faults
               \/ Fault /\ UNCHANGED known
  /\ written' = {}
  /\ UNCHANGED <<confirmed, enabled, kind, batch, buffered, polls>>

\* The sender hangs up, the database fails or the process dies.
Break ==
  /\ phase # "idle" /\ Fault
  /\ inbox' = UnitOfWork(TRUE, written)
  /\ written' = {}
  /\ Tell("error")
  /\ UNCHANGED <<confirmed, enabled, known, kind, batch, buffered, polls>>

---------------------------------------------------------------------------
(* A polling pass.                                                         *)

\* The order of the jobs and their retry floors are the engine's: a job may come
\* up again at once.
DueJobs == IF enabled THEN Job ELSE {}

\* Comes to the next job of the page, in a unit of work that reads its
\* checkpoint, or ends the pass.
NextJob(p, rest) ==
  \/ /\ rest = {}
     /\ pending' = [pending EXCEPT ![p] = {}]
     /\ job' = [job EXCEPT ![p] = None]
     /\ read' = [read EXCEPT ![p] = 0]
     /\ fetched' = [fetched EXCEPT ![p] = 0]
  \/ \E j \in rest :
       /\ pending' = [pending EXCEPT ![p] = rest \ {j}]
       /\ job' = [job EXCEPT ![p] = j]
       /\ read' = [read EXCEPT ![p] = position[j]]
       /\ fetched' = [fetched EXCEPT ![p] = 0]

SelectJobs(p) ==
  /\ job[p] = None /\ DueJobs # {}
  /\ NextJob(p, DueJobs)
  /\ UNCHANGED <<confirmed, enabled, inbox, known, connection, position, faults>>

\* The provider is called with no session open.
Fetch(p) ==
  /\ job[p] # None /\ fetched[p] = 0
  /\ \E n \in 1..Page :
       /\ read[p] + n <= Len(Log[job[p]])
       /\ fetched' = [fetched EXCEPT ![p] = n]
  /\ UNCHANGED <<confirmed, enabled, inbox, known, connection, position, pending, job, read, faults>>

\* Nothing new: the job goes to the back of the order.
PollEmpty(p) ==
  /\ job[p] # None /\ fetched[p] = 0
  /\ read[p] = Len(Log[job[p]])
  /\ NextJob(p, pending[p])
  /\ UNCHANGED <<confirmed, enabled, inbox, known, connection, position, faults>>

Fetched(p) == {Log[job[p]][i] : i \in (read[p] + 1)..(read[p] + fetched[p])}

Mut_RecordUnversioned(p) ==
  /\ job[p] # None /\ fetched[p] > 0
  /\ \A e \in Fetched(p) : ~Collides(e, inbox \cup Fetched(p))
  /\ inbox' = UnitOfWork(FALSE, Fetched(p))
  /\ position' = [position EXCEPT ![job[p]] =
       IF @ + fetched[p] < Len(Log[job[p]]) THEN @ + fetched[p] ELSE Len(Log[job[p]])]
  /\ NextJob(p, pending[p])
  /\ UNCHANGED <<confirmed, enabled, known, connection, faults>>

\* Records and advances in one unit of work, from the version that was read.
RecordPoll(p) ==
  /\ job[p] # None /\ fetched[p] > 0
  /\ position[job[p]] = read[p]
  /\ \A e \in Fetched(p) : ~Collides(e, inbox \cup Fetched(p))
  /\ inbox' = UnitOfWork(FALSE, Fetched(p))
  /\ position' = [position EXCEPT ![job[p]] = read[p] + fetched[p]]
  /\ NextJob(p, pending[p])
  /\ UNCHANGED <<confirmed, enabled, known, connection, faults>>

\* The connector raises, another replica advanced the checkpoint or an event
\* collides: the failure is recorded by itself, and the page goes on.
PollRaises(p) ==
  /\ job[p] # None
  /\ \/ fetched[p] = 0 /\ job[p] \in Broken
     \/ fetched[p] > 0 /\ position[job[p]] # read[p]
     \/ \E e \in Fetched(p) : Collides(e, inbox \cup Fetched(p))
  /\ inbox' = UnitOfWork(TRUE, Fetched(p))
  /\ NextJob(p, pending[p])
  /\ UNCHANGED <<confirmed, enabled, known, connection, position, faults>>

\* The process of the poller dies.
PollerDies(p) ==
  /\ job[p] # None /\ Fault
  /\ NextJob(p, {})
  /\ UNCHANGED <<confirmed, enabled, inbox, known, connection, position>>

Poll(p) == SelectJobs(p) \/ Fetch(p) \/ PollEmpty(p) \/ RecordPoll(p) \/ PollRaises(p)

Serve ==
  (\E bytes \in Chunk : ReadChunk(bytes)) \/ EndOfBody \/ Resolve \/ Verify \/ RecordEvent
    \/ CommitBatch

Next ==
  \/ Handshake \/ Enable \/ Disable \/ Break \/ Serve
  \/ \E b \in Batch : Deliver(b) \/ Elsewhere(b)
  \/ \E p \in Poller : Poll(p) \/ PollerDies(p)

Spec == Init /\ [][Next]_vars

\* A provider goes on trying, an operator enables what is confirmed, and what
\* is begun goes on.
Fairness ==
  /\ SF_vars(Handshake) /\ WF_vars(Enable) /\ WF_vars(Serve)
  /\ \A b \in Batch : SF_vars(b \notin known /\ Deliver(b))
  /\ \A p \in Poller : WF_vars(Poll(p))

FairSpec == Spec /\ Fairness

---------------------------------------------------------------------------
(* Properties.                                                             *)

\* Every variable has the values the code can give it.
TypeOK ==
  /\ confirmed \in BOOLEAN /\ enabled \in BOOLEAN
  /\ inbox \subseteq Event /\ known \subseteq Batch
  /\ phase \in {"idle", "read", "resolve", "verify", "record"}
  /\ kind \in {"handshake", "delivery"}
  /\ batch \in Batch \cup {None}
  /\ batch = None <=> kind = "handshake"
  /\ buffered \in 0..Length
  /\ written \subseteq Event
  /\ outcome \in {None, "payload_too_large", "refused", "challenge_answered", "accepted", "error"}
  /\ position \in [Job -> Nat]
  /\ pending \in [Poller -> SUBSET Job]
  /\ job \in [Poller -> Job \cup {None}]
  /\ read \in [Poller -> Nat] /\ fetched \in [Poller -> 0..Page]
  /\ faults \in 0..MaxFaults

\* An event is acknowledged only when it is recorded: whatever the provider was
\* told is accepted it will not send again (assembly ingress_delivery, and the
\* commit of ingress.unit_of_work before it).
AcknowledgedIsRecorded ==
  /\ \A b \in known : Events[b] \subseteq inbox
  /\ outcome = "accepted" => Events[batch] \subseteq inbox

\* The inbox takes a batch whole or not at all: a refusal in the middle of one
\* "unwinds the whole batch" (ingress.unit_of_work).
BatchesAreWhole ==
  [][phase = "record" /\ phase' = "idle" =>
       IF outcome' = "accepted" THEN inbox' = inbox \cup Events[batch] ELSE inbox' = inbox]_vars

\* "Nothing has been allocated beyond limit plus one chunk" for a body of
\* whatever size, and none larger than the limit goes on to be looked up
\* (ingress.read_capped_body).
BodyIsCapped ==
  /\ \E bytes \in Chunk : buffered <= Limit + bytes
  /\ phase \notin {"idle", "read"} => buffered <= Limit

\* What the checkpoint has passed is in the inbox: two replicas that poll one
\* job never advance it over an event neither recorded (polling.py).
CheckpointIsBacked ==
  \A j \in Job :
    /\ position[j] <= Len(Log[j])
    /\ \A i \in 1..position[j] : Log[j][i] \in inbox

\* One provider_event_id has one content in the inbox, whichever connections and
\* polls race to record it: "the inbox deduplicates", which is what makes a
\* redelivery, and a cursor set back, safe (docs/RUNBOOK-restore-and-
\* reconciliation.md).
OneContentPerEvent == \A e \in inbox : ~Collides(e, inbox)

\* Activation is not circular: a binding that starts disabled, whose provider
\* confirms only a completed handshake, comes to have every event recorded that
\* its provider delivers or holds, unless it is too large or collides.
EventsArrive ==
  /\ \A b \in Batch :
       Size[b] <= Limit => <>(Events[b] \subseteq inbox \/ \E e \in Events[b] : Collides(e, inbox \cup Events[b]))
  /\ \A j \in Job \ Broken :
       <>(position[j] = Len(Log[j]) \/ \E e \in Range(Log[j]) : Collides(e, inbox \cup Range(Log[j])))

---------------------------------------------------------------------------
(* The inductive invariant.                                                *)

\* A connection is over once it is answered, records a delivery only, and has
\* not read past the limit while it reads on.
ConnectionIsSound ==
  /\ phase # "idle" => outcome = None
  /\ outcome = "accepted" => kind = "delivery"
  /\ phase = "record" => kind = "delivery"
  /\ phase = "read" => buffered <= Limit

PollIsInLog ==
  \A p \in Poller :
    job[p] # None => read[p] + fetched[p] <= Len(Log[job[p]])

\* What an open unit of work has written does not collide with itself.
WrittenIsConsistent == \A e \in written : ~Collides(e, written)

IInv ==
  /\ OneContentPerEvent /\ WrittenIsConsistent
  /\ TypeOK /\ ConnectionIsSound /\ AcknowledgedIsRecorded /\ BodyIsCapped
  /\ CheckpointIsBacked /\ PollIsInLog

=============================================================================
