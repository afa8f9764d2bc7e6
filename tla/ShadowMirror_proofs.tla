------------------------- MODULE ShadowMirror_proofs -------------------------
(***************************************************************************)
(* Theorems about ShadowMirror, for any receipts, mirrors and bindings.    *)
(***************************************************************************)
EXTENDS ShadowMirror, TLAPS

\* Only a readable 200 that states a terminal verdict is read as one.
LEMMA ReadingIsVerdict ==
  ASSUME NEW a \in ShadowAnswer
  PROVE  /\ Reading(a) \in Verdict
         /\ Reading(a) = "terminal" =>
              a.status = 200 /\ a.readable /\ a.states = "terminal"
  BY DEF Reading, ShadowAnswer, Verdict

LEMMA OldestAreDue == Oldest(BatchSize, Due) \subseteq Receipt
  BY DEF Oldest, Due

LEMMA InitIsFine == Init => IInv
  BY DEF Init, IInv, TypeOK, VerdictIsReported, TerminalIsReported, Verdict

LEMMA MirrorStep ==
  ASSUME IInv, NEW m \in Mirror,
         \/ SelectPage(m) \/ EndPass(m) \/ NoAnswer(m) \/ RecordEvidence(m)
         \/ \E r \in Receipt : Ask(m, r) \/ AddressRaises(m, r)
         \/ \E a \in ShadowAnswer : Answered(m, a)
  PROVE  IInv'
<1> USE DEF IInv, TypeOK, VerdictIsReported, TerminalIsReported, kept
<1>1. CASE SelectPage(m)
  BY <1>1, OldestAreDue DEF SelectPage
<1>2. CASE EndPass(m)
  BY <1>2 DEF EndPass
<1>3. CASE NoAnswer(m)
  BY <1>3 DEF NoAnswer, Compared, Verdict
<1>4. CASE RecordEvidence(m)
  BY <1>4 DEF RecordEvidence
<1>5. ASSUME NEW r \in Receipt, Ask(m, r) PROVE IInv'
  BY <1>5 DEF Ask
<1>6. ASSUME NEW r \in Receipt, AddressRaises(m, r) PROVE IInv'
  BY <1>6 DEF AddressRaises, Drop
<1>7. ASSUME NEW a \in ShadowAnswer, Answered(m, a) PROVE IInv'
  <2>1. Reading(a) \in Verdict
    BY ReadingIsVerdict
  <2>2. reported \subseteq reported' /\ reported' \subseteq Receipt
    BY <1>7 DEF Answered
  <2>3. Reading(a) = "terminal" => current[m] \subseteq reported'
    BY <1>7, ReadingIsVerdict DEF Answered
  <2>4. Compared(m, Reading(a))
    BY <1>7 DEF Answered
  <2>5. QED
    BY <2>1, <2>2, <2>3, <2>4 DEF Compared
<1>8. QED
  BY <1>1, <1>2, <1>3, <1>4, <1>5, <1>6, <1>7

THEOREM Invariance == Spec => []IInv
<1>1. IInv /\ [Next]_vars => IInv'
  <2> SUFFICES ASSUME IInv, [Next]_vars PROVE IInv'
    OBVIOUS
  <2>1. CASE UNCHANGED vars
    BY <2>1 DEF vars, kept, local, IInv, TypeOK, VerdictIsReported, TerminalIsReported
  <2>2. ASSUME NEW r \in Receipt, IntervalElapses(r) PROVE IInv'
    BY <2>2 DEF IntervalElapses, local, IInv, TypeOK, VerdictIsReported, TerminalIsReported
  <2>3. QED
    BY <2>1, <2>2, MirrorStep DEF Next
<1>2. QED
  BY InitIsFine, <1>1, PTL DEF Spec

---------------------------------------------------------------------------

\* Every value stays of its type (the pass of mirror_due_receipts).
THEOREM TypeCorrect == Spec => []TypeOK
  BY Invariance, PTL DEF IInv

\* Terminal evidence of a receipt comes from a report of the shadow port on that
\* receipt (compare and record_shadow_evidence in mirror_due_receipts).
THEOREM TerminalIsReportedHolds == Spec => []TerminalIsReported
  BY Invariance, PTL DEF IInv

=============================================================================
