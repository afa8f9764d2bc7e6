---------------------------- MODULE Intake_proofs ----------------------------
(***************************************************************************)
(* Theorems about Intake, for any providers, batches, sizes and pollers.   *)
(***************************************************************************)
EXTENDS Intake, TLAPS

USE DEF connection, polls, Fault

---------------------------------------------------------------------------
(* The parts of a step.                                                    *)

LEMMA UnitIsOfEvents ==
  ASSUME NEW raised \in BOOLEAN, NEW events \in SUBSET Event, inbox \subseteq Event
  PROVE  UnitOfWork(raised, events) \subseteq Event /\ inbox \subseteq UnitOfWork(raised, events)
  BY DEF UnitOfWork

LEMMA FaultsAreBounded ==
  ASSUME faults \in 0..MaxFaults, Fault \/ UNCHANGED faults
  PROVE  faults' \in 0..MaxFaults
  BY IntakeAssumption

LEMMA LengthIsNat == TypeOK => Length \in Nat
  BY IntakeAssumption, NoneAssumption DEF TypeOK, Length

LEMMA LogIsSeq ==
  ASSUME NEW j \in Job
  PROVE  Log[j] \in Seq(Event) /\ Len(Log[j]) \in Nat
  BY IntakeAssumption

PollsTyped ==
  /\ pending \in [Poller -> SUBSET Job]
  /\ job \in [Poller -> Job \cup {None}]
  /\ read \in [Poller -> Nat] /\ fetched \in [Poller -> 0..Page]

\* A poller that comes to its next job starts at the checkpoint of it.
LEMMA NextJobStarts ==
  ASSUME PollsTyped, position \in [Job -> Nat], NEW p \in Poller, NEW rest \in SUBSET Job,
         NextJob(p, rest)
  PROVE  /\ PollsTyped'
         /\ fetched'[p] = 0
         /\ job'[p] # None => job'[p] \in Job /\ read'[p] = position[job'[p]]
         /\ \A q \in Poller \ {p} :
              job'[q] = job[q] /\ read'[q] = read[q] /\ fetched'[q] = fetched[q]
<1> USE IntakeAssumption DEF PollsTyped
<1>1. CASE rest = {}
  <2>1. /\ pending' = [pending EXCEPT ![p] = {}] /\ job' = [job EXCEPT ![p] = None]
        /\ read' = [read EXCEPT ![p] = 0] /\ fetched' = [fetched EXCEPT ![p] = 0]
    BY <1>1 DEF NextJob
  <2>2. QED
    BY <2>1
<1>2. CASE rest # {}
  <2>1. PICK j \in rest :
          /\ pending' = [pending EXCEPT ![p] = rest \ {j}] /\ job' = [job EXCEPT ![p] = j]
          /\ read' = [read EXCEPT ![p] = position[j]] /\ fetched' = [fetched EXCEPT ![p] = 0]
    BY <1>2 DEF NextJob
  <2>2. QED
    BY <2>1
<1>3. QED
  BY <1>1, <1>2

\* What a poll fetched is events of its log.
LEMMA FetchedIsOfTheLog ==
  ASSUME TypeOK, PollIsInLog, NEW p \in Poller, job[p] # None
  PROVE  /\ job[p] \in Job
         /\ Fetched(p) \subseteq Event
         /\ \A i \in (read[p] + 1)..(read[p] + fetched[p]) : Log[job[p]][i] \in Fetched(p)
<1>1. job[p] \in Job
  BY DEF TypeOK
<1>2. read[p] \in Nat /\ fetched[p] \in Nat /\ read[p] + fetched[p] <= Len(Log[job[p]])
  BY IntakeAssumption DEF TypeOK, PollIsInLog
<1>3. \A i \in (read[p] + 1)..(read[p] + fetched[p]) : Log[job[p]][i] \in Event
  BY <1>1, <1>2, LogIsSeq
<1>4. QED
  BY <1>1, <1>3 DEF Fetched


---------------------------------------------------------------------------
(* The inductive invariant, a group of conjuncts at a time.                *)

LEMMA InitIsFine == Init => IInv
<1> SUFFICES ASSUME Init PROVE IInv
  OBVIOUS
<1> USE IntakeAssumption, LogIsSeq
<1>1. TypeOK
  <2>1. confirmed \in BOOLEAN /\ enabled \in BOOLEAN
    BY DEF Init
  <2>2. Length = HelloSize
    BY DEF Init, Length
  <2>3. buffered \in 0..Length /\ faults \in 0..MaxFaults
    BY <2>2 DEF Init
  <2>4. fetched \in [Poller -> 0..Page]
    BY DEF Init
  <2>5. QED
    BY <2>1, <2>3, <2>4 DEF Init, TypeOK
<1>2. ConnectionIsSound /\ AcknowledgedIsRecorded /\ PollIsInLog
  BY DEF Init, ConnectionIsSound, AcknowledgedIsRecorded, PollIsInLog, None
<1>3. BodyIsCapped
  <2>1. PICK bytes \in Chunk : bytes \in Nat
    OBVIOUS
  <2>2. buffered <= Limit + bytes
    BY <2>1 DEF Init
  <2>3. QED
    BY <2>2 DEF Init, BodyIsCapped
<1>4. CheckpointIsBacked
  BY DEF Init, CheckpointIsBacked
<1>5. OneContentPerEvent /\ WrittenIsConsistent
  BY DEF Init, OneContentPerEvent, WrittenIsConsistent
<1>6. QED
  BY <1>1, <1>2, <1>3, <1>4, <1>5 DEF IInv

LEMMA TypeStep == IInv /\ Next => TypeOK' /\ ConnectionIsSound'
<1> SUFFICES ASSUME IInv, Next PROVE TypeOK' /\ ConnectionIsSound'
  OBVIOUS
<1> USE IntakeAssumption, NoneAssumption DEF ConnectionIsSound
<1>0. TypeOK /\ ConnectionIsSound /\ PollsTyped /\ PollIsInLog /\ Length \in Nat
  BY LengthIsNat DEF IInv, TypeOK, PollsTyped
<1>1. CASE Handshake
  <2>1. Length' = HelloSize
    BY <1>1 DEF Handshake, Arrive, Length
  <2>2. buffered' \in 0..Length'
    BY <1>1, <2>1 DEF Handshake, Arrive
  <2>3. /\ phase' = "read" /\ kind' = "handshake" /\ batch' = None
        /\ buffered' = 0 /\ written' = {} /\ outcome' = None
        /\ UNCHANGED <<confirmed, enabled, inbox, known, polls, faults>>
    BY <1>1 DEF Handshake, Arrive
  <2>4. TypeOK'
    BY <1>0, <2>2, <2>3 DEF TypeOK
  <2>5. QED
    BY <2>3, <2>4 DEF None
<1>2. ASSUME NEW b \in Batch, Deliver(b)
      PROVE  TypeOK' /\ ConnectionIsSound'
  <2>1. Length' = Size[b] /\ Size[b] \in Nat
    BY <1>2 DEF Deliver, Arrive, Length
  <2>2. buffered' \in 0..Length'
    BY <1>2, <2>1 DEF Deliver, Arrive
  <2>3. QED
    BY <1>0, <1>2, <2>2 DEF Deliver, Arrive, TypeOK
<1>3. CASE Enable \/ Disable
  <2>1. enabled' \in BOOLEAN
    BY <1>3 DEF Enable, Disable
  <2>2. faults' \in 0..MaxFaults /\ Length' = Length
    BY <1>0, <1>3, FaultsAreBounded DEF Enable, Disable, TypeOK, Length
  <2>3. QED
    BY <1>0, <1>3, <2>1, <2>2 DEF Enable, Disable, TypeOK
<1>4. ASSUME NEW b \in Batch, Elsewhere(b)
      PROVE  TypeOK' /\ ConnectionIsSound'
  BY <1>0, <1>4 DEF Elsewhere, TypeOK, Length
<1>5. ASSUME NEW bytes \in Chunk, ReadChunk(bytes)
      PROVE  TypeOK' /\ ConnectionIsSound'
  <2>1. buffered' \in 0..Length /\ Length' = Length
    BY <1>0, <1>5 DEF ReadChunk, TypeOK, Length
  <2>2. QED
    BY <1>0, <1>5, <2>1 DEF ReadChunk, Tell, TypeOK
<1>6. CASE EndOfBody \/ Resolve
  BY <1>0, <1>6 DEF EndOfBody, Resolve, Tell, TypeOK, Length
<1>7. CASE Verify
  <2>1. confirmed' \in BOOLEAN
    <3>1. confirmed \in BOOLEAN
      BY <1>0 DEF TypeOK
    <3>2. QED
      BY <1>7, <3>1 DEF Verify
  <2>2. faults' \in 0..MaxFaults /\ Length' = Length
    BY <1>0, <1>7, FaultsAreBounded DEF Verify, TypeOK, Length
  <2>3. QED
    BY <1>0, <1>7, <2>1, <2>2 DEF Verify, Tell, TypeOK
<1>8. CASE RecordEvent
  <2>1. PICK event \in Events[batch] \ written :
          IF Collides(event, inbox \cup written)
            THEN inbox' = UnitOfWork(TRUE, written) /\ written' = {} /\ Tell("refused")
            ELSE written' = written \cup {event} /\ UNCHANGED <<inbox, phase, outcome>>
    BY <1>8 DEF RecordEvent
  <2>2. batch \in Batch
    BY <1>0, <1>8 DEF RecordEvent, TypeOK
  <2>3. event \in Event
    BY <2>2
  <2>4. QED
    BY <1>0, <1>8, <2>1, <2>3 DEF RecordEvent, UnitOfWork, Tell, TypeOK, Length
<1>9. CASE CommitBatch
  BY <1>0, <1>9 DEF CommitBatch, UnitOfWork, Tell, TypeOK, Length
<1>10. CASE Break
  BY <1>0, <1>10 DEF Break, UnitOfWork, Tell, TypeOK, Length
<1>11. ASSUME NEW p \in Poller, Poll(p) \/ PollerDies(p)
       PROVE  TypeOK' /\ ConnectionIsSound'
  <2>1. CASE Fetch(p)
    BY <1>0, <2>1 DEF Fetch, TypeOK, Length
  <2>2. CASE SelectJobs(p) \/ PollEmpty(p) \/ RecordPoll(p) \/ PollRaises(p) \/ PollerDies(p)
    <3>1. PollsTyped'
      <4>1. PICK rest \in SUBSET Job : NextJob(p, rest)
        BY <1>0, <2>2 DEF SelectJobs, DueJobs, PollEmpty, RecordPoll, PollRaises, PollerDies,
           PollsTyped
      <4>2. QED
        BY <1>0, <4>1, NextJobStarts DEF TypeOK
    <3>2. inbox' \subseteq Event
      BY <1>0, <2>2, FetchedIsOfTheLog
         DEF SelectJobs, PollEmpty, RecordPoll, PollRaises, PollerDies, UnitOfWork, TypeOK
    <3>3. position' \in [Job -> Nat]
      <4>1. CASE RecordPoll(p)
        <5>1. /\ job[p] \in Job /\ read[p] + fetched[p] \in Nat
              /\ position' = [position EXCEPT ![job[p]] = read[p] + fetched[p]]
          BY <1>0, <4>1, FetchedIsOfTheLog DEF RecordPoll, TypeOK
        <5>2. QED
          BY <1>0, <5>1 DEF TypeOK
      <4>2. CASE ~RecordPoll(p)
        BY <1>0, <2>2, <4>2 DEF SelectJobs, PollEmpty, PollRaises, PollerDies, TypeOK
      <4>3. QED
        BY <4>1, <4>2
    <3>4. faults' \in 0..MaxFaults
      BY <1>0, <2>2, FaultsAreBounded
         DEF SelectJobs, PollEmpty, RecordPoll, PollRaises, PollerDies, TypeOK
    <3>5. UNCHANGED <<confirmed, enabled, known, connection>>
      BY <2>2 DEF SelectJobs, PollEmpty, RecordPoll, PollRaises, PollerDies
    <3>6. QED
      BY <1>0, <3>1, <3>2, <3>3, <3>4, <3>5 DEF TypeOK, PollsTyped, Length
  <2>3. QED
    BY <1>11, <2>1, <2>2 DEF Poll
<1>12. QED
  BY <1>1, <1>2, <1>3, <1>4, <1>5, <1>6, <1>7, <1>8, <1>9, <1>10, <1>11 DEF Next, Serve

LEMMA InboxGrows == IInv /\ Next => inbox \subseteq inbox'
<1> SUFFICES ASSUME IInv, Next PROVE inbox \subseteq inbox'
  OBVIOUS
<1>1. CASE Serve \/ Break
  BY <1>1 DEF Serve, Break, ReadChunk, EndOfBody, Resolve, Verify, RecordEvent, CommitBatch,
     UnitOfWork
<1>2. ASSUME NEW p \in Poller, Poll(p) \/ PollerDies(p)
      PROVE  inbox \subseteq inbox'
  BY <1>2 DEF Poll, PollerDies, SelectJobs, Fetch, PollEmpty, RecordPoll, PollRaises, UnitOfWork
<1>3. CASE ~(Serve \/ Break) /\ ~\E p \in Poller : Poll(p) \/ PollerDies(p)
  BY <1>3 DEF Next, Handshake, Deliver, Arrive, Enable, Disable, Elsewhere
<1>4. QED
  BY <1>1, <1>2, <1>3

LEMMA DeliveryStep == IInv /\ Next => AcknowledgedIsRecorded' /\ BodyIsCapped'
<1> SUFFICES ASSUME IInv, Next PROVE AcknowledgedIsRecorded' /\ BodyIsCapped'
  OBVIOUS
<1> USE IntakeAssumption DEF AcknowledgedIsRecorded, BodyIsCapped
<1>0. /\ TypeOK /\ ConnectionIsSound /\ AcknowledgedIsRecorded /\ BodyIsCapped
      /\ inbox \subseteq inbox' /\ Length \in Nat /\ buffered \in Nat
  BY InboxGrows, LengthIsNat DEF IInv, TypeOK
<1>1. CASE Handshake \/ \E b \in Batch : Deliver(b)
  <2>1. buffered' = 0 /\ phase' = "read" /\ outcome' = None /\ UNCHANGED <<inbox, known>>
    BY <1>1 DEF Handshake, Deliver, Arrive
  <2>2. \E bytes \in Chunk : bytes \in Nat
    OBVIOUS
  <2>3. QED
    BY <1>0, <2>1, <2>2 DEF None
<1>2. ASSUME NEW bytes \in Chunk, ReadChunk(bytes)
      PROVE  AcknowledgedIsRecorded' /\ BodyIsCapped'
  <2>1. buffered' <= Limit + bytes /\ buffered' \in Nat
    BY <1>0, <1>2 DEF ReadChunk, ConnectionIsSound
  <2>2. phase' \in {"idle", "read"} /\ outcome' # "accepted" /\ UNCHANGED <<inbox, known>>
    BY <1>0, <1>2 DEF ReadChunk, Tell, ConnectionIsSound, None
  <2>3. QED
    BY <1>0, <2>1, <2>2
<1>3. CASE EndOfBody \/ Resolve \/ Verify \/ RecordEvent \/ Break
  <2>1. outcome' # "accepted" /\ UNCHANGED <<known, buffered>>
    BY <1>0, <1>3 DEF EndOfBody, Resolve, Verify, RecordEvent, Break, Tell, ConnectionIsSound, None
  <2>2. phase' \notin {"idle", "read"} => buffered <= Limit
    BY <1>0, <1>3 DEF EndOfBody, Resolve, Verify, RecordEvent, Break, Tell, ConnectionIsSound
  <2>3. QED
    BY <1>0, <2>1, <2>2
<1>4. CASE CommitBatch
  <2>1. UNCHANGED <<batch, buffered>> /\ phase' = "idle"
    BY <1>4 DEF CommitBatch, Tell
  <2>2. CASE outcome' = "refused" /\ UNCHANGED known
    BY <1>0, <2>1, <2>2
  <2>3. CASE inbox' = UnitOfWork(FALSE, written) /\ known' \subseteq known \cup {batch}
    <3>1. Events[batch] \subseteq inbox'
      BY <1>4, <2>3 DEF CommitBatch, UnitOfWork
    <3>2. QED
      BY <1>0, <2>1, <2>3, <3>1
  <2>4. QED
    BY <1>4, <2>2, <2>3 DEF CommitBatch, Tell
<1>5. CASE UNCHANGED <<known, connection>>
  BY <1>0, <1>5
<1>6. QED
  BY <1>1, <1>2, <1>3, <1>4, <1>5 DEF Next, Serve, Poll, Enable, Disable, Elsewhere, SelectJobs,
     Fetch, PollEmpty, RecordPoll, PollRaises, PollerDies

LEMMA PollStep == IInv /\ Next => CheckpointIsBacked' /\ PollIsInLog'
<1> SUFFICES ASSUME IInv, Next PROVE CheckpointIsBacked' /\ PollIsInLog'
  OBVIOUS
<1> USE IntakeAssumption, NoneAssumption DEF CheckpointIsBacked, PollIsInLog
<1>0. /\ TypeOK /\ PollsTyped /\ CheckpointIsBacked /\ PollIsInLog /\ inbox \subseteq inbox'
  BY InboxGrows DEF IInv, TypeOK, PollsTyped
<1>1. ASSUME NEW p \in Poller, Fetch(p)
      PROVE  CheckpointIsBacked' /\ PollIsInLog'
  BY <1>0, <1>1 DEF Fetch, TypeOK
<1>2. ASSUME NEW p \in Poller,
             SelectJobs(p) \/ PollEmpty(p) \/ PollRaises(p) \/ PollerDies(p)
      PROVE  CheckpointIsBacked' /\ PollIsInLog'
  <2>1. PICK rest \in SUBSET Job : NextJob(p, rest)
    BY <1>0, <1>2 DEF SelectJobs, DueJobs, PollEmpty, PollRaises, PollerDies, PollsTyped
  <2>2. UNCHANGED position
    BY <1>2 DEF SelectJobs, PollEmpty, PollRaises, PollerDies
  <2>3. PollIsInLog'
    <3>1. /\ fetched'[p] = 0
          /\ job'[p] # None => job'[p] \in Job /\ read'[p] = position[job'[p]]
          /\ \A q \in Poller \ {p} :
               job'[q] = job[q] /\ read'[q] = read[q] /\ fetched'[q] = fetched[q]
      BY <1>0, <2>1, NextJobStarts DEF TypeOK
    <3>2. job'[p] # None => read'[p] + fetched'[p] <= Len(Log[job'[p]])
      BY <1>0, <3>1, LogIsSeq DEF TypeOK
    <3>3. QED
      BY <1>0, <3>1, <3>2
  <2>4. QED
    BY <1>0, <2>2, <2>3
<1>3. ASSUME NEW p \in Poller, RecordPoll(p)
      PROVE  CheckpointIsBacked' /\ PollIsInLog'
  <2> DEFINE j == job[p]
  <2>1. /\ j \in Job /\ position[j] = read[p]
        /\ read[p] \in Nat /\ fetched[p] \in Nat /\ read[p] + fetched[p] <= Len(Log[j])
    BY <1>0, <1>3, FetchedIsOfTheLog DEF RecordPoll, TypeOK
  <2>2. Fetched(p) \subseteq inbox'
    BY <1>3 DEF RecordPoll, UnitOfWork
  <2>3. position' = [position EXCEPT ![j] = read[p] + fetched[p]]
    BY <1>3 DEF RecordPoll
  <2>4. \A i \in 1..(read[p] + fetched[p]) : Log[j][i] \in inbox'
    <3> SUFFICES ASSUME NEW i \in 1..(read[p] + fetched[p]) PROVE Log[j][i] \in inbox'
      OBVIOUS
    <3>1. CASE i <= read[p]
      BY <1>0, <2>1, <3>1
    <3>2. CASE i > read[p]
      <4>1. i \in (read[p] + 1)..(read[p] + fetched[p])
        BY <2>1, <3>2
      <4>2. QED
        BY <1>0, <1>3, <2>2, <4>1, FetchedIsOfTheLog DEF RecordPoll
    <3>3. QED
      BY <2>1, <3>1, <3>2
  <2>5. CheckpointIsBacked'
    BY <1>0, <2>1, <2>3, <2>4 DEF TypeOK
  <2>6. PollIsInLog'
    <3>1. pending[p] \in SUBSET Job
      BY <1>0 DEF PollsTyped
    <3>2. NextJob(p, pending[p])
      BY <1>3 DEF RecordPoll
    <3>3. /\ fetched'[p] = 0
          /\ job'[p] # None => job'[p] \in Job /\ read'[p] = position[job'[p]]
          /\ \A q \in Poller \ {p} :
               job'[q] = job[q] /\ read'[q] = read[q] /\ fetched'[q] = fetched[q]
      BY <1>0, <3>1, <3>2, NextJobStarts DEF TypeOK
    <3>4. QED
      BY <1>0, <3>3, LogIsSeq DEF TypeOK
  <2>7. QED
    BY <2>5, <2>6
<1>4. CASE UNCHANGED polls
  BY <1>0, <1>4
<1>5. QED
  BY <1>1, <1>2, <1>3, <1>4 DEF Next, Serve, Poll, Handshake, Deliver, Arrive, Enable, Disable,
     Elsewhere, ReadChunk, EndOfBody, Resolve, Verify, RecordEvent, CommitBatch, Break

\* What is recorded together is recorded without collision: sets that do not
\* collide, with themselves or with what is there, may be joined.
LEMMA JoinIsConsistent ==
  ASSUME NEW there, NEW added,
         \A e \in there : ~Collides(e, there), \A e \in added : ~Collides(e, there \cup added)
  PROVE  \A e \in there \cup added : ~Collides(e, there \cup added)
  BY DEF Collides

LEMMA ContentStep == IInv /\ Next => OneContentPerEvent' /\ WrittenIsConsistent'
<1> SUFFICES ASSUME IInv, Next PROVE OneContentPerEvent' /\ WrittenIsConsistent'
  OBVIOUS
<1> USE DEF OneContentPerEvent, WrittenIsConsistent
<1>0. /\ \A e \in inbox : ~Collides(e, inbox)
      /\ \A e \in written : ~Collides(e, written)
  BY DEF IInv
<1>1. CASE UNCHANGED <<inbox, written>>
  BY <1>0, <1>1 DEF Collides
<1>2. CASE UNCHANGED inbox /\ written' = {}
  BY <1>0, <1>2 DEF Collides
<1>3. ASSUME NEW added, inbox' = inbox \cup added,
             \A e \in added : ~Collides(e, inbox \cup added), UNCHANGED written
      PROVE  OneContentPerEvent' /\ WrittenIsConsistent'
  <2>1. \A e \in inbox \cup added : ~Collides(e, inbox \cup added)
    BY <1>0, <1>3, JoinIsConsistent
  <2>2. QED
    BY <1>0, <1>3, <2>1 DEF Collides
<1>4. CASE RecordEvent
  <2>1. PICK event \in Events[batch] \ written :
          IF Collides(event, inbox \cup written)
            THEN inbox' = UnitOfWork(TRUE, written) /\ written' = {}
            ELSE written' = written \cup {event} /\ UNCHANGED inbox
    BY <1>4 DEF RecordEvent
  <2>2. CASE Collides(event, inbox \cup written)
    BY <1>2, <2>1, <2>2 DEF UnitOfWork
  <2>3. CASE ~Collides(event, inbox \cup written)
    <3>1. \A e \in written \cup {event} : ~Collides(e, written \cup {event})
      BY <1>0, <2>3 DEF Collides
    <3>2. QED
      BY <1>0, <2>1, <2>3, <3>1 DEF Collides
  <2>4. QED
    BY <2>2, <2>3
<1>5. CASE CommitBatch
  <2>1. CASE \E e \in written : Collides(e, inbox)
    BY <1>2, <1>5, <2>1 DEF CommitBatch, UnitOfWork
  <2>2. CASE \A e \in written : ~Collides(e, inbox)
    <3>1. \A e \in written : ~Collides(e, inbox \cup written)
      BY <1>0, <2>2 DEF Collides
    <3>2. \A e \in inbox \cup written : ~Collides(e, inbox \cup written)
      BY <1>0, <3>1, JoinIsConsistent
    <3>3. inbox' = inbox \cup written /\ written' = {}
      BY <1>5, <2>2 DEF CommitBatch, UnitOfWork
    <3>4. QED
      BY <3>2, <3>3 DEF Collides
  <2>3. QED
    BY <2>1, <2>2
<1>6. CASE Break
  BY <1>2, <1>6 DEF Break, UnitOfWork
<1>7. ASSUME NEW b \in Batch, Deliver(b) \/ Elsewhere(b)
      PROVE  OneContentPerEvent' /\ WrittenIsConsistent'
  <2>1. CASE Deliver(b)
    BY <1>2, <2>1 DEF Deliver, Arrive
  <2>2. CASE Elsewhere(b)
    BY <1>3, <2>2 DEF Elsewhere
  <2>3. QED
    BY <1>7, <2>1, <2>2
<1>8. CASE Handshake
  BY <1>2, <1>8 DEF Handshake, Arrive
<1>9. CASE \/ Enable \/ Disable \/ (\E bytes \in Chunk : ReadChunk(bytes))
           \/ EndOfBody \/ Resolve \/ Verify
  BY <1>1, <1>9 DEF Enable, Disable, ReadChunk, EndOfBody, Resolve, Verify
<1>10. ASSUME NEW p \in Poller, Poll(p) \/ PollerDies(p)
       PROVE  OneContentPerEvent' /\ WrittenIsConsistent'
  <2>1. CASE RecordPoll(p)
    <3>1. inbox' = inbox \cup Fetched(p) /\ UNCHANGED written
      BY <2>1 DEF RecordPoll, UnitOfWork
    <3>2. \A e \in Fetched(p) : ~Collides(e, inbox \cup Fetched(p))
      BY <2>1 DEF RecordPoll
    <3>3. QED
      BY <1>3, <3>1, <3>2
  <2>2. CASE SelectJobs(p) \/ Fetch(p) \/ PollEmpty(p) \/ PollRaises(p) \/ PollerDies(p)
    BY <1>1, <2>2 DEF SelectJobs, Fetch, PollEmpty, PollRaises, PollerDies, UnitOfWork
  <2>3. QED
    BY <1>10, <2>1, <2>2 DEF Poll
<1>11. QED
  BY <1>4, <1>5, <1>6, <1>7, <1>8, <1>9, <1>10 DEF Next, Serve

LEMMA NextIsFine == IInv /\ [Next]_vars => IInv'
<1> SUFFICES ASSUME IInv, [Next]_vars PROVE IInv'
  OBVIOUS
<1>1. CASE Next
  BY <1>1, TypeStep, DeliveryStep, PollStep, ContentStep DEF IInv
<1>2. CASE UNCHANGED vars
  BY <1>2 DEF vars, IInv, TypeOK, Length, ConnectionIsSound, AcknowledgedIsRecorded, BodyIsCapped,
     CheckpointIsBacked, PollIsInLog, OneContentPerEvent, WrittenIsConsistent, Collides
<1>3. QED
  BY <1>1, <1>2

\* The inductive invariant holds in every state of every behaviour.
THEOREM Invariance == Spec => []IInv
  BY InitIsFine, NextIsFine, PTL DEF Spec

---------------------------------------------------------------------------
(* The properties.                                                         *)

\* The variables keep their values' types (ingress, polling).
THEOREM TypeCorrect == Spec => []TypeOK
<1>1. IInv => TypeOK
  BY DEF IInv
<1>2. QED
  BY <1>1, Invariance, PTL

\* What a provider is told is accepted is in the inbox (ingress.unit_of_work,
\* assembly ingress_delivery).
THEOREM AcknowledgedIsRecordedHolds == Spec => []AcknowledgedIsRecorded
<1>1. IInv => AcknowledgedIsRecorded
  BY DEF IInv
<1>2. QED
  BY <1>1, Invariance, PTL

\* No body is held beyond the limit and one chunk (ingress.read_capped_body).
THEOREM BodyIsCappedHolds == Spec => []BodyIsCapped
<1>1. IInv => BodyIsCapped
  BY DEF IInv
<1>2. QED
  BY <1>1, Invariance, PTL

\* What a checkpoint has passed is in the inbox, for any number of replicas
\* that poll (polling.py).
THEOREM CheckpointIsBackedHolds == Spec => []CheckpointIsBacked
<1>1. IInv => CheckpointIsBacked
  BY DEF IInv
<1>2. QED
  BY <1>1, Invariance, PTL

\* No two connections or polls, however they interleave, leave one event in the
\* inbox with two contents (ingress.unit_of_work, polling.poll_due_jobs).
THEOREM OneContentPerEventHolds == Spec => []OneContentPerEvent
<1>1. IInv => OneContentPerEvent
  BY DEF IInv
<1>2. QED
  BY <1>1, Invariance, PTL

\* A batch is recorded whole or not at all (ingress.unit_of_work).
THEOREM BatchesAreWholeHolds == Spec => BatchesAreWhole
<1>1. IInv /\ [Next]_vars =>
        [phase = "record" /\ phase' = "idle" =>
           IF outcome' = "accepted" THEN inbox' = inbox \cup Events[batch]
           ELSE inbox' = inbox]_vars
  <2> SUFFICES ASSUME IInv, Next, phase = "record", phase' = "idle"
               PROVE  IF outcome' = "accepted" THEN inbox' = inbox \cup Events[batch]
                      ELSE inbox' = inbox
    BY DEF vars
  <2>1. RecordEvent \/ CommitBatch \/ Break
    BY DEF Next, Serve, Poll, Handshake, Deliver, Arrive, Enable, Disable, Elsewhere, ReadChunk,
       EndOfBody, Resolve, Verify, SelectJobs, Fetch, PollEmpty, RecordPoll, PollRaises, PollerDies
  <2>2. CASE RecordEvent \/ Break
    BY <2>2 DEF RecordEvent, Break, UnitOfWork, Tell
  <2>3. CASE CommitBatch
    BY <2>3 DEF CommitBatch, UnitOfWork, Tell
  <2>4. QED
    BY <2>1, <2>2, <2>3
<1>2. QED
  BY <1>1, Invariance, PTL DEF Spec, BatchesAreWhole

=============================================================================
