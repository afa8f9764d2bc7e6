-------------------------- MODULE Enablement_proofs --------------------------
(***************************************************************************)
(* Theorems about Enablement, for any installations, requests, contents,   *)
(* references and material.                                                *)
(***************************************************************************)
EXTENDS Enablement, TLAPS

\* Every record a request leaves is of its kind.
LEMMA RecordIsTyped ==
  ASSUME TypeOK, NEW q \in Request, NEW a \in Action,
         NEW i \in Installation \cup {NoInstallation}, NEW n \in Nat, NEW b \in BOOLEAN,
         Records(q, a, i, n, b)
  PROVE  trail' \subseteq Record
BY DEF TypeOK, Records, Record

LEMMA InitIInv == Init => IInv
<1> SUFFICES ASSUME Init PROVE IInv
  OBVIOUS
<1>1. TypeOK
  BY ContentNamesReferences
  DEF Init, TypeOK, Nothing, Material, Answer, Evidenced
<1>2. RevisionsExist /\ GivenIsWhole /\ AcceptedIsKnown /\ AnsweredAtTheEnd /\ RestIsHeld
  BY DEF Init, RevisionsExist, InGate, GivenIsWhole, AcceptedIsKnown, AnsweredAtTheEnd,
         RestIsHeld
<1>3. TrailNamesTheValidated /\ EvidenceOrNothing /\ WrittenOnlyAfterRotation
  BY DEF Init, TrailNamesTheValidated, EvidenceOrNothing, WrittenOnlyAfterRotation,
         Evidenced
<1>4. ConfiguredIsMinted /\ OneClaimsEachRevision
  BY DEF Init, ConfiguredIsMinted, OneClaimsEachRevision
<1> QED
  BY <1>1, <1>2, <1>3, <1>4 DEF IInv

\* TypeOK, one action after the other.
LEMMA TypeStep == IInv /\ [Next]_vars => TypeOK'
<1> SUFFICES ASSUME IInv, [Next]_vars PROVE TypeOK'
  OBVIOUS
<1> USE DEF IInv
<1> USE DEF rows, bindings, local, control, Goes, Ends, Answer, Evidenced
<1>1. CASE UNCHANGED vars
  BY <1>1 DEF vars, TypeOK
<1>2. ASSUME NEW q \in Request, Refused(q) \/ Fails(q)
      PROVE  TypeOK'
  BY <1>2 DEF Refused, Fails, TypeOK
<1>3. ASSUME NEW q \in Request, NEW i \in Installation, CreateInstallation(q, i)
      PROVE  TypeOK'
  <2>1. trail' \subseteq Record
    BY <1>3, RecordIsTyped DEF CreateInstallation, Action
  <2> QED
    BY <1>3, <2>1 DEF CreateInstallation, TypeOK
<1>4. ASSUME NEW q \in Request, NEW i \in Installation, NEW c \in Content,
             ReadRevisions(q, i, c)
      PROVE  TypeOK'
  BY <1>4 DEF ReadRevisions, TypeOK
<1>5. ASSUME NEW q \in Request, NEW c \in Content, RevisionConflicts(q, c)
      PROVE  TypeOK'
  BY <1>5 DEF RevisionConflicts, TypeOK
<1>6. ASSUME NEW q \in Request, NEW c \in Content, MintRevision(q, c)
      PROVE  TypeOK'
  <2> DEFINE i == inst[q]
  <2>1. /\ i \in Installation /\ rev[q] \in Nat
        /\ minted[i] \in Seq(Content) /\ Len(minted[i]) = rev[q]
    <3>1. i \in Installation
      BY <1>6 DEF MintRevision, RevisionsExist
    <3> QED
      BY <1>6, <3>1 DEF MintRevision, TypeOK
  <2>2. trail' \subseteq Record
    <3>1. IsNew(q, c) \in BOOLEAN
      BY DEF IsNew
    <3>2. Records(q, "configured", i, rev[q] + 1, IsNew(q, c))
      BY <1>6 DEF MintRevision
    <3>3. "configured" \in Action /\ rev[q] + 1 \in Nat
      BY <2>1 DEF Action
    <3> QED
      BY <2>1, <3>1, <3>2, <3>3, RecordIsTyped
  <2>3. /\ Append(minted[i], c) \in Seq(Content)
        /\ Len(Append(minted[i], c)) = rev[q] + 1
    BY <2>1
  <2>4. /\ minted' \in [Installation -> Seq(Content)]
        /\ current' \in [Installation -> Nat]
        /\ \A j \in Installation : current'[j] \in 0 .. Len(minted'[j])
    BY <1>6, <2>1, <2>3 DEF MintRevision, TypeOK
  <2>5. enabled' \subseteq Installation
    BY <1>6 DEF MintRevision, MayDisable, TypeOK
  <2> QED
    BY <1>6, <2>2, <2>4, <2>5 DEF MintRevision, TypeOK
<1>7. ASSUME NEW q \in Request, NEW c \in Content, SelectRevision(q, c)
      PROVE  TypeOK'
  <2> DEFINE i == inst[q]
  <2>1. i \in Installation /\ rev[q] \in Nat /\ rev[q] <= Len(minted[i])
    BY <1>7 DEF SelectRevision, RevisionsExist, TypeOK
  <2>2. PICK n \in Seen(q) : /\ current' = [current EXCEPT ![i] = n]
                             /\ Records(q, "configured", i, n, IsNew(q, c))
    BY <1>7 DEF SelectRevision
  <2>3. n \in Nat /\ n \in 0 .. Len(minted[i])
    BY <2>1, <2>2 DEF Seen, TypeOK
  <2>4. trail' \subseteq Record
    <3>1. IsNew(q, c) \in BOOLEAN /\ "configured" \in Action
      BY DEF IsNew, Action
    <3> QED
      BY <2>1, <2>2, <2>3, <3>1, RecordIsTyped
  <2>5. enabled' \subseteq Installation
    BY <1>7 DEF SelectRevision, MayDisable, TypeOK
  <2> QED
    BY <1>7, <2>1, <2>2, <2>3, <2>4, <2>5 DEF SelectRevision, TypeOK
<1>8. ASSUME NEW q \in Request, NEW i \in Installation,
             ConfigureBinding(q, i) \/ MintEndpoint(q, i) \/ EnableBinding(q, i)
      PROVE  TypeOK'
  <2>1. trail' \subseteq Record
    BY <1>8, RecordIsTyped DEF ConfigureBinding, MintEndpoint, EnableBinding, Action
  <2> QED
    BY <1>8, <2>1 DEF ConfigureBinding, MintEndpoint, EnableBinding, TypeOK
<1>9. ASSUME NEW q \in Request, NEW material \in Material, Refresh(q, material)
      PROVE  TypeOK'
  <2>1. rotated' \in [Request -> SUBSET Value]
    BY <1>9 DEF Refresh, TypeOK
  <2> QED
    BY <1>9, <2>1 DEF Refresh, TypeOK
<1>10. ASSUME NEW q \in Request, RecordRefresh(q)
       PROVE  TypeOK'
  <2>1. trail' \subseteq Record
    BY <1>10, RecordIsTyped DEF RecordRefresh, Action
  <2> QED
    BY <1>10, <2>1 DEF RecordRefresh, TypeOK
<1>11. ASSUME NEW q \in Request, NEW i \in Installation, ReadInstallation(q, i)
       PROVE  TypeOK'
  BY <1>11 DEF ReadInstallation, TypeOK
<1>12. ASSUME NEW q \in Request, RefuseMaterial(q) \/ RefuseUninstalled(q)
       PROVE  TypeOK'
  <2>1. inst[q] \in Installation \cup {NoInstallation} /\ rev[q] \in Nat
    BY DEF TypeOK
  <2>2. trail' \subseteq Record
    BY <1>12, <2>1, RecordIsTyped DEF RefuseMaterial, RefuseUninstalled, Evidence, Action
  <2> QED
    BY <1>12, <2>2 DEF RefuseMaterial, RefuseUninstalled, TypeOK
<1>13. ASSUME NEW q \in Request, CheckMaterial(q) \/ RollBack(q) \/ FindClean(q)
       PROVE  TypeOK'
  BY <1>13 DEF CheckMaterial, RollBack, FindClean, TypeOK
<1>14. ASSUME NEW q \in Request, ResolveSecrets(q)
       PROVE  TypeOK'
  <2>1. given' \in [Request -> Material]
    BY <1>14 DEF ResolveSecrets, TypeOK, Material
  <2> QED
    BY <1>14, <2>1 DEF ResolveSecrets, TypeOK
<1>15. ASSUME NEW q \in Request, Accept(q)
       PROVE  TypeOK'
  <2>1. inst[q] \in Installation /\ rev[q] \in Nat /\ given[q] \in Material
    BY <1>15 DEF Accept, RevisionsExist, InGate, TypeOK
  <2> QED
    BY <1>15, <2>1 DEF Accept, TypeOK
<1>16. ASSUME NEW q \in Request, NEW text \in SUBSET Value, Reject(q, text)
       PROVE  TypeOK'
  BY <1>16 DEF Reject, TypeOK
<1>17. ASSUME NEW q \in Request, RefuseInvalid(q)
       PROVE  TypeOK'
  <2>1. inst[q] \in Installation \cup {NoInstallation} /\ rev[q] \in Nat
    BY DEF TypeOK
  <2>2. trail' \subseteq Record
    BY <1>17, <2>1, RecordIsTyped DEF RefuseInvalid, Evidence, Action
  <2>3. enabled' \subseteq Installation
    BY <1>17 DEF RefuseInvalid, MayDisable, TypeOK
  <2> QED
    BY <1>17, <2>2, <2>3 DEF RefuseInvalid, TypeOK
<1>18. ASSUME NEW q \in Request, Enable(q)
       PROVE  TypeOK'
  <2>1. inst[q] \in Installation /\ rev[q] \in Nat
    BY <1>18 DEF Enable, RevisionsExist, InGate, TypeOK
  <2>2. trail' \subseteq Record
    BY <1>18, <2>1, RecordIsTyped DEF Enable, RevisionOf, Action
  <2> QED
    BY <1>18, <2>1, <2>2 DEF Enable, TypeOK
<1> QED
  BY <1>1, <1>2, <1>3, <1>4, <1>5, <1>6, <1>7, <1>8, <1>9, <1>10, <1>11, <1>12, <1>13,
     <1>14, <1>15, <1>16, <1>17, <1>18
  DEF Next, Author, Rotate, Gate


\* A revision minted stays what it is, whatever is appended behind it.
LEMMA RevisionsStay ==
  ASSUME IInv, [Next]_vars
  PROVE  \A i \in Installation :
           /\ Len(minted[i]) <= Len(minted'[i])
           /\ \A n \in 1 .. Len(minted[i]) : minted'[i][n] = minted[i][n]
<1>1. CASE minted' = minted
  BY <1>1 DEF IInv, TypeOK
<1>2. ASSUME NEW q \in Request, NEW c \in Content, MintRevision(q, c)
      PROVE  \A i \in Installation :
               /\ Len(minted[i]) <= Len(minted'[i])
               /\ \A n \in 1 .. Len(minted[i]) : minted'[i][n] = minted[i][n]
  <2>1. minted \in [Installation -> Seq(Content)] /\ inst[q] \in Installation
    BY <1>2 DEF IInv, TypeOK, MintRevision, RevisionsExist
  <2>2. minted' = [minted EXCEPT ![inst[q]] = Append(@, c)]
    BY <1>2 DEF MintRevision
  <2>3. \A t \in Seq(Content) :
          /\ Len(t) <= Len(Append(t, c))
          /\ \A n \in 1 .. Len(t) : Append(t, c)[n] = t[n]
    OBVIOUS
  <2> QED
    BY <2>1, <2>2, <2>3
<1>3. \/ minted' = minted
      \/ \E q \in Request, c \in Content : MintRevision(q, c)
  <2>1. ASSUME NEW q \in Request, Rotate(q)
        PROVE  minted' = minted
    BY <2>1 DEF Rotate, Refresh, RecordRefresh, rows
  <2>2. ASSUME NEW q \in Request, Gate(q)
        PROVE  minted' = minted
    BY <2>2 DEF Gate, ReadInstallation, RefuseMaterial, CheckMaterial, ResolveSecrets, Accept,
       Reject, RefuseUninstalled, RollBack, FindClean, RefuseInvalid, Enable, rows
  <2>3. ASSUME NEW q \in Request, Author(q)
        PROVE  minted' = minted \/ \E c \in Content : MintRevision(q, c)
    BY <2>3 DEF Author, Refused, Fails, CreateInstallation, ConfigureBinding, MintEndpoint,
       EnableBinding, ReadRevisions, RevisionConflicts, SelectRevision, rows
  <2>4. CASE UNCHANGED vars
    BY <2>4 DEF vars, rows
  <2> QED
    BY <2>1, <2>2, <2>3, <2>4 DEF Next
<1> QED
  BY <1>1, <1>2, <1>3

\* A request that ends its transaction touches nothing that others work with; it
\* leaves one record if its answer is of those that do.
Leaves(q) ==
  /\ pc[q] # "ended"
  /\ pc' = [pc EXCEPT ![q] = "ended"]
  /\ \E how \in Answer \ {"none"} :
       /\ answer' = [answer EXCEPT ![q] = how]
       /\ IF how \in Evidenced
            THEN \E e : e.by = q /\ trail' = trail \cup {e}
            ELSE trail' = trail
  /\ UNCHANGED <<held, accepted, rotated, local>>

\* What a request does short of its end.
GoesOn(q) ==
  /\ UNCHANGED <<trail, enabled, written, answer>>
  /\ \/ \E i \in Installation, c \in Content : ReadRevisions(q, i, c)
     \/ \E material \in Material : Refresh(q, material)
     \/ \E i \in Installation : ReadInstallation(q, i)
     \/ CheckMaterial(q) \/ ResolveSecrets(q) \/ Accept(q)
     \/ \E text \in SUBSET Value : Reject(q, text)
     \/ FindClean(q)

\* Every step is of either kind.
LEMMA TwoKinds ==
  ASSUME TypeOK, NEW q \in Request, Author(q) \/ Rotate(q) \/ Gate(q)
  PROVE  Leaves(q) \/ GoesOn(q)
<1> USE DEF local, Ends, Evidenced, Answer
<1> DEFINE Kinds == Leaves(q) \/ GoesOn(q)
<1>1. ASSUME Refused(q) \/ Fails(q) \/ RollBack(q) PROVE Kinds
  BY <1>1 DEF Refused, Fails, RollBack, Leaves, rows
<1>2. ASSUME NEW i \in Installation,
             \/ CreateInstallation(q, i) \/ ConfigureBinding(q, i)
             \/ MintEndpoint(q, i) \/ EnableBinding(q, i)
      PROVE  Kinds
  BY <1>2 DEF CreateInstallation, ConfigureBinding, MintEndpoint, EnableBinding, Records,
              Leaves
<1>3. ASSUME NEW c \in Content, RevisionConflicts(q, c) PROVE Kinds
  <2>1. /\ pc[q] = "putting" /\ Ends(q, "refused")
        /\ UNCHANGED <<trail, held, accepted, rotated, local>>
    BY <1>3 DEF RevisionConflicts
  <2>2. "refused" \in Answer \ {"none"} /\ "refused" \notin Evidenced
    OBVIOUS
  <2>3. Leaves(q)
    BY <2>1, <2>2 DEF Leaves
  <2> QED
    BY <2>3
<1>4. ASSUME NEW c \in Content, MintRevision(q, c) PROVE Kinds
  BY <1>4 DEF MintRevision, Records, Leaves
<1>5. ASSUME NEW c \in Content, SelectRevision(q, c) PROVE Kinds
  BY <1>5 DEF SelectRevision, Records, Leaves
<1>6. ASSUME RecordRefresh(q) PROVE Kinds
  BY <1>6 DEF RecordRefresh, Records, Leaves
<1>7. ASSUME RefuseMaterial(q) \/ RefuseUninstalled(q) \/ RefuseInvalid(q) PROVE Kinds
  BY <1>7 DEF RefuseMaterial, RefuseUninstalled, RefuseInvalid, Evidence, Records, Leaves
<1>8. ASSUME Enable(q) PROVE Kinds
  BY <1>8 DEF Enable, Records, Leaves
<1>9. ASSUME \/ \E i \in Installation, c \in Content : ReadRevisions(q, i, c)
             \/ \E material \in Material : Refresh(q, material)
             \/ \E i \in Installation : ReadInstallation(q, i)
             \/ CheckMaterial(q) \/ ResolveSecrets(q) \/ Accept(q)
             \/ \E text \in SUBSET Value : Reject(q, text)
             \/ FindClean(q)
      PROVE  Kinds
  <2>1. UNCHANGED <<trail, enabled, written, answer>>
    BY <1>9 DEF ReadRevisions, Refresh, ReadInstallation, CheckMaterial, ResolveSecrets,
                Accept, Reject, FindClean, Goes, rows
  <2> QED
    BY <1>9, <2>1 DEF GoesOn
<1> QED
  BY <1>1, <1>2, <1>3, <1>4, <1>5, <1>6, <1>7, <1>8, <1>9 DEF Author, Rotate, Gate

\* A step is one request's; those that end keep what they know.
LEMMA SomebodyMoves ==
  ASSUME TypeOK, [Next]_vars
  PROVE  UNCHANGED vars \/ \E q \in Request : Leaves(q) \/ GoesOn(q)
BY TwoKinds DEF Next

\* What a request that goes on may change, its own place apart.
LEMMA OthersStay ==
  ASSUME TypeOK, NEW q \in Request, GoesOn(q), NEW p \in Request \ {q}
  PROVE  /\ pc'[p] = pc[p] /\ inst'[p] = inst[p] /\ rev'[p] = rev[p]
         /\ given'[p] = given[p] /\ quoted'[p] = quoted[p]
BY DEF TypeOK, GoesOn, local, Goes, ReadRevisions, Refresh, ReadInstallation,
       CheckMaterial, ResolveSecrets, Accept, Reject, FindClean

\* Requests speak of revisions that exist.
LEMMA RevisionsExistStep == IInv /\ [Next]_vars => RevisionsExist'
<1> SUFFICES ASSUME IInv, [Next]_vars PROVE RevisionsExist'
  OBVIOUS
<1>1. TypeOK /\ RevisionsExist
  BY DEF IInv
<1>2. \A i \in Installation :
        Len(minted[i]) \in Nat /\ Len(minted'[i]) \in Nat /\ Len(minted[i]) <= Len(minted'[i])
  <2>1. minted \in [Installation -> Seq(Content)] /\ minted' \in [Installation -> Seq(Content)]
    BY TypeStep DEF IInv, TypeOK
  <2> QED
    BY <2>1, RevisionsStay
<1> DEFINE Speaks(p) ==
             /\ InGate(p) => inst[p] \in Installation /\ rev[p] \in 1 .. Len(minted[inst[p]])
             /\ pc[p] = "putting" => inst[p] \in Installation
                                      /\ rev[p] <= Len(minted[inst[p]])
           Same(p) ==
             /\ inst'[p] = inst[p] /\ rev'[p] = rev[p]
             /\ InGate(p)' => InGate(p)
             /\ pc'[p] = "putting" => pc[p] = "putting"
<1>3. ASSUME NEW p \in Request, Same(p) PROVE (Speaks(p))'
  <2>1. Speaks(p) /\ rev[p] \in Nat
    BY <1>1 DEF RevisionsExist, TypeOK
  <2> QED
    BY <1>2, <1>3, <2>1
<1>4. CASE UNCHANGED vars
  BY <1>3, <1>4 DEF RevisionsExist, vars, local, control, InGate
<1>5. ASSUME NEW q \in Request, Leaves(q) PROVE \A p \in Request : Same(p)
  BY <1>1, <1>5 DEF Leaves, local, TypeOK, InGate
<1>6. ASSUME NEW q \in Request, GoesOn(q) PROVE RevisionsExist'
  <2>1. \A p \in Request \ {q} : (Speaks(p))'
    BY <1>1, <1>3, <1>6, OthersStay DEF InGate
  <2>2. ASSUME NEW i \in Installation, NEW c \in Content, ReadRevisions(q, i, c)
        PROVE  (Speaks(q))'
    <3>1. /\ pc'[q] = "putting" /\ inst'[q] = i /\ rev'[q] = Len(minted[i])
      BY <1>1, <2>2 DEF ReadRevisions, Goes, TypeOK
    <3> QED
      BY <1>2, <3>1 DEF InGate
  <2>3. ASSUME NEW i \in Installation, ReadInstallation(q, i)
        PROVE  (Speaks(q))'
    <3>1. /\ pc'[q] = "checking" /\ inst'[q] = i /\ rev'[q] = current[i]
      BY <1>1, <2>3 DEF ReadInstallation, Goes, TypeOK
    <3>2. current[i] \in 1 .. Len(minted[i])
      BY <1>1, <1>2, <2>3 DEF ReadInstallation, TypeOK
    <3> QED
      BY <1>2, <3>1, <3>2 DEF InGate
  <2>4. ASSUME \/ \E material \in Material : Refresh(q, material)
               \/ CheckMaterial(q) \/ ResolveSecrets(q) \/ Accept(q) \/ FindClean(q)
               \/ \E text \in SUBSET Value : Reject(q, text)
        PROVE  Same(q)
    BY <1>1, <2>4 DEF TypeOK, InGate, local, Goes, Refresh, CheckMaterial, ResolveSecrets,
                      Accept, FindClean, Reject
  <2> QED
    BY <1>3, <1>6, <2>1, <2>2, <2>3, <2>4 DEF GoesOn, RevisionsExist
<1> QED
  BY <1>1, <1>3, <1>4, <1>5, <1>6, SomebodyMoves DEF RevisionsExist

\* Whoever is past the resolution keeps its revision, and the material given.
LEMMA GivenIsWholeStep == IInv /\ [Next]_vars => GivenIsWhole'
<1> SUFFICES ASSUME IInv, [Next]_vars PROVE GivenIsWhole'
  OBVIOUS
<1>1. TypeOK /\ RevisionsExist /\ GivenIsWhole
  BY DEF IInv
<1> DEFINE Past(p) == pc[p] \in {"validating", "accepted", "rejected", "clean"}
           Whole(p) == Past(p) => \A r \in SecretRefs(p) : given[p][r] # "none"
           Kept(p) == (Past(p))' => /\ Past(p)
                                    /\ inst'[p] = inst[p] /\ rev'[p] = rev[p]
                                    /\ given'[p] = given[p]
<1>2. ASSUME NEW p \in Request, Kept(p) PROVE (Whole(p))'
  <2> SUFFICES ASSUME (Past(p))' PROVE \A r \in SecretRefs(p)' : given'[p][r] # "none"
    OBVIOUS
  <2>1. inst[p] \in Installation /\ rev[p] \in 1 .. Len(minted[inst[p]])
    BY <1>1, <1>2 DEF RevisionsExist, InGate
  <2>2. minted'[inst[p]][rev[p]] = minted[inst[p]][rev[p]]
    BY <2>1, RevisionsStay
  <2> QED
    BY <1>1, <1>2, <2>2 DEF SecretRefs, GivenIsWhole
<1>3. CASE UNCHANGED vars
  BY <1>2, <1>3 DEF GivenIsWhole, vars, local, control
<1>4. ASSUME NEW q \in Request, Leaves(q) PROVE \A p \in Request : Kept(p)
  BY <1>1, <1>4 DEF Leaves, local, TypeOK
<1>5. ASSUME NEW q \in Request, GoesOn(q) PROVE GivenIsWhole'
  <2>1. \A p \in Request \ {q} : Kept(p)
    BY <1>1, <1>5, OthersStay
  <2>2. ASSUME ResolveSecrets(q) PROVE (Whole(q))'
    <3>1. inst[q] \in Installation /\ rev[q] \in 1 .. Len(minted[inst[q]])
      BY <1>1, <2>2 DEF RevisionsExist, InGate, ResolveSecrets
    <3>2. minted[inst[q]][rev[q]] \in Content
      BY <1>1, <3>1 DEF TypeOK
    <3>3. SecretRefs(q) \subseteq Reference /\ SecretRefs(q)' = SecretRefs(q)
      BY <2>2, <3>2, ContentNamesReferences DEF SecretRefs, ResolveSecrets, rows
    <3> QED
      BY <1>1, <2>2, <3>3 DEF ResolveSecrets, AllHeld, TypeOK
  <2>3. ASSUME Accept(q) \/ FindClean(q) \/ \E text \in SUBSET Value : Reject(q, text)
        PROVE  Kept(q)
    BY <2>3 DEF Accept, FindClean, Reject, local
  <2>4. ASSUME \/ \E i \in Installation, c \in Content : ReadRevisions(q, i, c)
               \/ \E material \in Material : Refresh(q, material)
               \/ \E i \in Installation : ReadInstallation(q, i)
               \/ CheckMaterial(q)
        PROVE  Kept(q)
    BY <1>1, <2>4 DEF TypeOK, Goes, ReadRevisions, Refresh, ReadInstallation, CheckMaterial
  <2> QED
    BY <1>2, <1>5, <2>1, <2>2, <2>3, <2>4 DEF GoesOn, GivenIsWhole
<1> QED
  BY <1>1, <1>2, <1>3, <1>4, <1>5, SomebodyMoves DEF GivenIsWhole

\* Acceptances are not forgotten; answers are given as requests end.
LEMMA AcceptedIsKnownStep == IInv /\ [Next]_vars => AcceptedIsKnown' /\ AnsweredAtTheEnd'
<1> SUFFICES ASSUME IInv, [Next]_vars PROVE AcceptedIsKnown' /\ AnsweredAtTheEnd'
  OBVIOUS
<1>1. TypeOK /\ AcceptedIsKnown /\ AnsweredAtTheEnd
  BY DEF IInv
<1>2. CASE UNCHANGED vars
  BY <1>1, <1>2 DEF AcceptedIsKnown, AnsweredAtTheEnd, vars, local, control
<1>3. ASSUME NEW q \in Request, Leaves(q) PROVE AcceptedIsKnown' /\ AnsweredAtTheEnd'
  BY <1>1, <1>3 DEF AcceptedIsKnown, AnsweredAtTheEnd, Leaves, local, TypeOK
<1>4. ASSUME NEW q \in Request, GoesOn(q) PROVE AcceptedIsKnown' /\ AnsweredAtTheEnd'
  <2>1. /\ accepted \subseteq accepted' /\ answer' = answer
        /\ pc[q] # "ended" /\ pc'[q] # "ended"
        /\ pc'[q] = "accepted" => Accept(q)
    BY <1>1, <1>4 DEF GoesOn, Goes, TypeOK, ReadRevisions, Refresh, ReadInstallation,
                      CheckMaterial, ResolveSecrets, Accept, Reject, FindClean
  <2>2. Accept(q) => <<inst'[q], rev'[q], given'[q]>> \in accepted'
    BY DEF Accept, local
  <2>3. AcceptedIsKnown'
    BY <1>1, <1>4, <2>1, <2>2, OthersStay DEF AcceptedIsKnown
  <2>4. AnsweredAtTheEnd'
    BY <1>1, <1>4, <2>1, OthersStay DEF AnsweredAtTheEnd
  <2> QED
    BY <2>3, <2>4
<1> QED
  BY <1>1, <1>2, <1>3, <1>4, SomebodyMoves

\* What is in force for a request in validation is what it was given, but for
\* what a refresh took away and its history remembers.
LEMMA RestIsHeldStep == IInv /\ [Next]_vars => RestIsHeld'
<1> SUFFICES ASSUME IInv, [Next]_vars PROVE RestIsHeld'
  OBVIOUS
<1>1. TypeOK /\ RestIsHeld
  BY DEF IInv
<1> DEFINE Rest(p) == \A v \in Given(p) \ rotated[p] : \E r \in Reference : held[r] = v
           Known(p) ==
             /\ pc[p] \in {"validating", "rejected"} => Rest(p)
             /\ pc[p] = "rejected" => quoted[p] \subseteq Given(p)
             /\ pc[p] = "clean" => quoted[p] \subseteq rotated[p]
           Kept(p) ==
             /\ pc'[p] \in {"validating", "rejected", "clean"} => pc'[p] = pc[p]
             /\ given'[p] = given[p] /\ quoted'[p] = quoted[p]
<1>2. ASSUME NEW p \in Request, Kept(p), rotated'[p] = rotated[p], held' = held
      PROVE  (Known(p))'
  BY <1>1, <1>2 DEF RestIsHeld, Given
<1>3. CASE UNCHANGED vars
  BY <1>2, <1>3 DEF RestIsHeld, vars, local, control
<1>4. ASSUME NEW q \in Request, Leaves(q) PROVE RestIsHeld'
  <2>1. \A p \in Request : Kept(p)
    BY <1>1, <1>4 DEF Leaves, local, TypeOK
  <2> QED
    BY <1>2, <1>4, <2>1 DEF RestIsHeld, Leaves
<1>5. ASSUME NEW q \in Request, NEW material \in Material, Refresh(q, material)
      PROVE  RestIsHeld'
  <2>1. /\ held' = material /\ pc' = [pc EXCEPT ![q] = "refreshed"] /\ UNCHANGED local
        /\ \A p \in Request : rotated'[p] =
             IF pc[p] \in {"validating", "rejected"}
               THEN rotated[p] \cup {v \in Value : \E r \in Reference :
                                       given[p][r] = v /\ material[r] # v}
               ELSE rotated[p]
    BY <1>5 DEF Refresh, Goes
  <2>2. ASSUME NEW p \in Request PROVE (Known(p))'
    <3>1. /\ pc'[p] \in {"validating", "rejected", "clean"} => pc'[p] = pc[p]
          /\ given'[p] = given[p] /\ quoted'[p] = quoted[p]
      BY <1>1, <2>1 DEF TypeOK, local
    <3>2. rotated[p] \subseteq rotated'[p]
      BY <2>1
    <3>3. ASSUME pc[p] \in {"validating", "rejected"},
                 NEW v \in Given(p) \ rotated'[p]
          PROVE  \E r \in Reference : material[r] = v
      <4>1. PICK r \in Reference : given[p][r] = v
        BY <3>3 DEF Given
      <4>2. v \in Value
        BY <1>1, <3>3, <4>1 DEF TypeOK, Material, Given
      <4> QED
        BY <2>1, <3>3, <4>1, <4>2
    <3>4. (Given(p))' = Given(p)
      BY <3>1 DEF Given
    <3> QED
      BY <1>1, <2>1, <3>1, <3>2, <3>3, <3>4 DEF RestIsHeld
  <2> QED
    BY <2>2 DEF RestIsHeld
<1>6. ASSUME NEW q \in Request, GoesOn(q),
             ~ \E material \in Material : Refresh(q, material)
      PROVE  RestIsHeld'
  <2>1. held' = held /\ rotated' = rotated
    BY <1>6 DEF GoesOn, ReadRevisions, ReadInstallation, CheckMaterial, ResolveSecrets,
                Accept, Reject, FindClean
  <2>2. \A p \in Request \ {q} : (Known(p))'
    BY <1>1, <1>2, <1>6, <2>1, OthersStay
  <2>3. ASSUME ResolveSecrets(q) PROVE (Known(q))'
    <3>1. /\ pc'[q] = "validating"
          /\ given'[q] = [r \in Reference |-> IF r \in SecretRefs(q) THEN held[r] ELSE "none"]
      BY <1>1, <2>3 DEF ResolveSecrets, Goes, TypeOK
    <3> QED
      BY <2>1, <3>1 DEF Given
  <2>4. ASSUME NEW text \in SUBSET Value, Reject(q, text) PROVE (Known(q))'
    <3>1. /\ pc[q] = "validating" /\ pc'[q] = "rejected"
          /\ given'[q] = given[q] /\ quoted'[q] = text /\ text \subseteq Given(q)
      BY <1>1, <2>4 DEF Reject, Goes, TypeOK
    <3> QED
      BY <1>1, <2>1, <3>1 DEF Given, RestIsHeld
  <2>5. ASSUME FindClean(q) PROVE (Known(q))'
    <3>1. /\ pc[q] = "rejected" /\ pc'[q] = "clean" /\ quoted'[q] = quoted[q]
          /\ ~Redactable(q)
      BY <1>1, <2>5 DEF FindClean, Goes, TypeOK, local
    <3>2. quoted[q] \subseteq rotated[q]
      BY <1>1, <3>1 DEF RestIsHeld, Redactable
    <3> QED
      BY <2>1, <3>1, <3>2
  <2>6. ASSUME \/ \E i \in Installation, c \in Content : ReadRevisions(q, i, c)
               \/ \E i \in Installation : ReadInstallation(q, i)
               \/ CheckMaterial(q) \/ Accept(q)
        PROVE  Kept(q)
    BY <1>1, <2>6 DEF TypeOK, Goes, local, ReadRevisions, ReadInstallation, CheckMaterial,
                      Accept
  <2> QED
    BY <1>2, <1>6, <2>1, <2>2, <2>3, <2>4, <2>5, <2>6 DEF GoesOn, RestIsHeld
<1> QED
  BY <1>3, <1>4, <1>5, <1>6, <1>1, SomebodyMoves DEF GoesOn

\* Requests leave one record, at their end, if their answer is of those that do.
LEMMA EvidenceStep == IInv /\ [Next]_vars => EvidenceOrNothing'
<1> SUFFICES ASSUME IInv, [Next]_vars PROVE EvidenceOrNothing'
  OBVIOUS
<1>1. TypeOK /\ EvidenceOrNothing /\ AnsweredAtTheEnd
  BY DEF IInv
<1>2. CASE UNCHANGED answer /\ UNCHANGED trail
  BY <1>1, <1>2 DEF EvidenceOrNothing
<1>3. ASSUME NEW q \in Request, Leaves(q) PROVE EvidenceOrNothing'
  <2>1. answer[q] = "none" /\ ~ \E e \in trail : e.by = q
    BY <1>1, <1>3 DEF Leaves, AnsweredAtTheEnd, EvidenceOrNothing, Evidenced
  <2>2. PICK how \in Answer \ {"none"} :
          /\ answer' = [answer EXCEPT ![q] = how]
          /\ IF how \in Evidenced THEN \E e : e.by = q /\ trail' = trail \cup {e}
                                  ELSE trail' = trail
    BY <1>3 DEF Leaves
  <2>3. answer'[q] = how /\ \A p \in Request \ {q} : answer'[p] = answer[p]
    BY <1>1, <2>2 DEF TypeOK
  <2>4. CASE how \in Evidenced
    <3>1. PICK e : e.by = q /\ trail' = trail \cup {e}
      BY <2>2, <2>4
    <3> QED
      BY <1>1, <2>1, <2>3, <2>4, <3>1 DEF EvidenceOrNothing
  <2>5. CASE how \notin Evidenced
    BY <1>1, <2>1, <2>2, <2>3, <2>5 DEF EvidenceOrNothing
  <2> QED
    BY <2>4, <2>5
<1>4. ASSUME NEW q \in Request, GoesOn(q) PROVE EvidenceOrNothing'
  BY <1>2, <1>4 DEF GoesOn
<1>5. CASE UNCHANGED vars
  BY <1>2, <1>5 DEF vars, control
<1> QED
  BY <1>1, <1>3, <1>4, <1>5, SomebodyMoves

\* Only the last step of a granted enablement enables, and records that it did.
LEMMA OnlyEnableEnables ==
  ASSUME TypeOK, [Next]_vars, \A q \in Request : ~Enable(q)
  PROVE  /\ enabled' \subseteq enabled /\ trail \subseteq trail'
         /\ \A e \in trail' : e.action = "enabled" => e \in trail
<1> DEFINE Goal == /\ enabled' \subseteq enabled /\ trail \subseteq trail'
                   /\ \A e \in trail' : e.action = "enabled" => e \in trail
<1> USE DEF Ends, Records
<1>1. CASE UNCHANGED vars
  BY <1>1 DEF vars, rows
<1>2. ASSUME NEW q \in Request, Refused(q) \/ Fails(q) \/ RollBack(q) PROVE Goal
  BY <1>2 DEF Refused, Fails, RollBack, rows
<1>3. ASSUME NEW q \in Request, NEW i \in Installation,
             \/ CreateInstallation(q, i) \/ ConfigureBinding(q, i)
             \/ MintEndpoint(q, i) \/ EnableBinding(q, i)
      PROVE  Goal
  BY <1>3 DEF CreateInstallation, ConfigureBinding, MintEndpoint, EnableBinding
<1>4. ASSUME NEW q \in Request, NEW c \in Content, RevisionConflicts(q, c) PROVE Goal
  BY <1>4 DEF RevisionConflicts, rows
<1>5. ASSUME NEW q \in Request, NEW c \in Content, MintRevision(q, c) PROVE Goal
  BY <1>5 DEF MintRevision, MayDisable
<1>6. ASSUME NEW q \in Request, NEW c \in Content, SelectRevision(q, c) PROVE Goal
  BY <1>6 DEF SelectRevision, MayDisable
<1>7. ASSUME NEW q \in Request, RecordRefresh(q) PROVE Goal
  BY <1>7 DEF RecordRefresh, rows
<1>8. ASSUME NEW q \in Request, RefuseMaterial(q) \/ RefuseUninstalled(q) PROVE Goal
  BY <1>8 DEF RefuseMaterial, RefuseUninstalled, Evidence, rows
<1>9. ASSUME NEW q \in Request, RefuseInvalid(q) PROVE Goal
  BY <1>9 DEF RefuseInvalid, Evidence, MayDisable
<1>10. ASSUME NEW q \in Request,
              \/ \E i \in Installation, c \in Content : ReadRevisions(q, i, c)
              \/ \E material \in Material : Refresh(q, material)
              \/ \E i \in Installation : ReadInstallation(q, i)
              \/ CheckMaterial(q) \/ ResolveSecrets(q) \/ Accept(q)
              \/ \E text \in SUBSET Value : Reject(q, text)
              \/ FindClean(q)
       PROVE  Goal
  BY <1>10 DEF ReadRevisions, Refresh, ReadInstallation, CheckMaterial, ResolveSecrets,
               Accept, Reject, FindClean, rows
<1> QED
  BY <1>1, <1>2, <1>3, <1>4, <1>5, <1>6, <1>7, <1>8, <1>9, <1>10
  DEF Next, Author, Rotate, Gate

\* What connectors accepted, and of which revisions, stays so.
LEMMA AcceptedGrows == ASSUME TypeOK, [Next]_vars PROVE accepted \subseteq accepted'
<1>1. ASSUME NEW q \in Request, GoesOn(q) PROVE accepted \subseteq accepted'
  BY <1>1 DEF GoesOn, ReadRevisions, Refresh, ReadInstallation, CheckMaterial,
              ResolveSecrets, Accept, Reject, FindClean
<1> QED
  BY <1>1, SomebodyMoves DEF Leaves, vars

LEMMA TrailStep == IInv /\ [Next]_vars => TrailNamesTheValidated'
<1> SUFFICES ASSUME IInv, [Next]_vars PROVE TrailNamesTheValidated'
  OBVIOUS
<1>1. /\ TypeOK /\ RevisionsExist /\ GivenIsWhole /\ AcceptedIsKnown
      /\ TrailNamesTheValidated
  BY DEF IInv
<1> DEFINE Validated(e) ==
             \E a \in accepted :
               /\ a[1] = e.inst /\ a[2] = e.rev
               /\ e.rev \in 1 .. Len(minted[e.inst])
               /\ \A r \in References[minted[e.inst][e.rev]] : a[3][r] # "none"
\* One accepted stays accepted, and its revision what it was.
<1>2. ASSUME NEW e \in Record, Validated(e), e.inst \in Installation
      PROVE  (Validated(e))'
  <2>1. PICK a \in accepted :
          /\ a[1] = e.inst /\ a[2] = e.rev
          /\ e.rev \in 1 .. Len(minted[e.inst])
          /\ \A r \in References[minted[e.inst][e.rev]] : a[3][r] # "none"
    BY <1>2
  <2>2. a \in accepted'
    BY <1>1, <2>1, AcceptedGrows
  <2>3. /\ Len(minted[e.inst]) <= Len(minted'[e.inst])
        /\ minted'[e.inst][e.rev] = minted[e.inst][e.rev]
    BY <1>2, <2>1, RevisionsStay
  <2>4. Len(minted[e.inst]) \in Nat /\ Len(minted'[e.inst]) \in Nat
    <3>1. minted[e.inst] \in Seq(Content) /\ minted'[e.inst] \in Seq(Content)
      BY <1>2, TypeStep DEF IInv, TypeOK
    <3> QED
      BY <3>1
  <2>5. e.rev \in 1 .. Len(minted'[e.inst])
    BY <2>1, <2>3, <2>4
  <2> QED
    BY <2>1, <2>2, <2>3, <2>5
\* No record of an enablement is about no installation.
<1>3. ASSUME NEW e \in trail, e.action = "enabled"
      PROVE  Validated(e) /\ e \in Record /\ e.inst \in Installation
  <2>1. Validated(e) /\ e \in Record
    BY <1>1, <1>3 DEF TrailNamesTheValidated, TypeOK
  <2>2. PICK a \in accepted : a[1] = e.inst
    BY <2>1
  <2>3. a \in Installation \X Nat \X Material
    BY <1>1, <2>2 DEF TypeOK
  <2> QED
    BY <2>1, <2>2, <2>3
<1>4. CASE \A q \in Request : ~Enable(q)
  BY <1>1, <1>2, <1>3, <1>4, OnlyEnableEnables DEF TrailNamesTheValidated
<1>5. ASSUME NEW q \in Request, Enable(q) PROVE TrailNamesTheValidated'
  <2>1. /\ pc[q] = "accepted" /\ enabled' = enabled \cup {inst[q]} /\ UNCHANGED minted
        /\ \E e : /\ e.action = "enabled" /\ e.inst = inst[q] /\ e.rev = rev[q]
                  /\ trail' = trail \cup {e}
    BY <1>5 DEF Enable, Records, RevisionOf
  <2>2. PICK record : /\ record.action = "enabled" /\ record.inst = inst[q]
                      /\ record.rev = rev[q] /\ trail' = trail \cup {record}
    BY <2>1
  <2>3. /\ inst[q] \in Installation /\ rev[q] \in 1 .. Len(minted[inst[q]])
        /\ <<inst[q], rev[q], given[q]>> \in accepted'
        /\ \A r \in SecretRefs(q) : given[q][r] # "none"
    BY <1>1, <2>1, AcceptedGrows DEF RevisionsExist, InGate, GivenIsWhole, AcceptedIsKnown
  <2>4. (Validated(record))'
    <3>1. \A r \in References[minted'[record.inst][record.rev]] :
            <<inst[q], rev[q], given[q]>>[3][r] # "none"
      BY <2>1, <2>2, <2>3 DEF SecretRefs
    <3>2. /\ <<inst[q], rev[q], given[q]>>[1] = record.inst
          /\ <<inst[q], rev[q], given[q]>>[2] = record.rev
          /\ record.rev \in 1 .. Len(minted'[record.inst])
      BY <2>1, <2>2, <2>3
    <3> QED
      BY <2>3, <3>1, <3>2
  <2>5. \A e \in trail : e.action = "enabled" => (Validated(e))'
    <3> SUFFICES ASSUME NEW e \in trail, e.action = "enabled" PROVE (Validated(e))'
      OBVIOUS
    <3> QED
      BY <1>2, <1>3
  <2>6. \A e \in trail' : e.action = "enabled" => (Validated(e))'
    BY <2>2, <2>4, <2>5
  <2>7. \A i \in enabled' : \E e \in trail' : e.action = "enabled" /\ e.inst = i
    BY <1>1, <2>1, <2>2 DEF TrailNamesTheValidated
  <2> QED
    BY <2>6, <2>7 DEF TrailNamesTheValidated
<1> QED
  BY <1>4, <1>5

\* Only a diagnostic found clean is written.
LEMMA WrittenStep == IInv /\ [Next]_vars => WrittenOnlyAfterRotation'
<1> SUFFICES ASSUME IInv, [Next]_vars PROVE WrittenOnlyAfterRotation'
  OBVIOUS
<1>1. TypeOK /\ RestIsHeld /\ WrittenOnlyAfterRotation
  BY DEF IInv
<1>2. \A p \in Request : rotated[p] \subseteq rotated'[p]
  <2>1. ASSUME NEW q \in Request, NEW material \in Material, Refresh(q, material)
        PROVE  \A p \in Request : rotated[p] \subseteq rotated'[p]
    BY <2>1 DEF Refresh
  <2>2. ASSUME NEW q \in Request, GoesOn(q), rotated' # rotated
        PROVE  \E material \in Material : Refresh(q, material)
    BY <2>2 DEF GoesOn, ReadRevisions, ReadInstallation, CheckMaterial, ResolveSecrets,
                Accept, Reject, FindClean
  <2> QED
    BY <1>1, <2>1, <2>2, SomebodyMoves DEF Leaves, vars
<1>3. CASE written' = written
  BY <1>1, <1>2, <1>3 DEF WrittenOnlyAfterRotation
<1>4. ASSUME NEW q \in Request, RefuseInvalid(q) PROVE WrittenOnlyAfterRotation'
  <2>1. quoted[q] \subseteq rotated[q] /\ written' = [written EXCEPT ![q] = quoted[q]]
    BY <1>1, <1>4 DEF RefuseInvalid, RestIsHeld
  <2> QED
    BY <1>1, <1>2, <2>1 DEF WrittenOnlyAfterRotation, TypeOK
<1>5. \/ written' = written
      \/ \E q \in Request : RefuseInvalid(q)
  <2>1. ASSUME NEW q \in Request, Author(q) PROVE written' = written
    BY <2>1 DEF Author, Refused, Fails, CreateInstallation, ConfigureBinding, MintEndpoint,
                EnableBinding, ReadRevisions, RevisionConflicts, MintRevision,
                SelectRevision, rows
  <2>2. ASSUME NEW q \in Request, Rotate(q) PROVE written' = written
    BY <2>2 DEF Rotate, RecordRefresh, Refresh, rows
  <2>3. ASSUME NEW q \in Request, Gate(q), ~RefuseInvalid(q) PROVE written' = written
    BY <2>3 DEF Gate, ReadInstallation, RefuseMaterial, CheckMaterial, ResolveSecrets,
                Accept, RefuseUninstalled, Reject, RollBack, FindClean, Enable, rows
  <2> QED
    BY <2>1, <2>2, <2>3 DEF Next, vars, rows
<1> QED
  BY <1>3, <1>4, <1>5

\* Only the minting of a revision claims one as new; whoever selects one is told
\* that it was there.
LEMMA OnlyMintingClaims ==
  ASSUME TypeOK, RevisionsExist, [Next]_vars,
         \A q \in Request, c \in Content : ~MintRevision(q, c)
  PROVE  /\ minted' = minted /\ trail \subseteq trail'
         /\ \A e \in trail' \ trail :
              e.action = "configured" =>
                ~e.new /\ e.inst \in Installation /\ e.rev \in 1 .. Len(minted[e.inst])
<1> DEFINE Goal == /\ minted' = minted /\ trail \subseteq trail'
                   /\ \A e \in trail' \ trail :
                        e.action = "configured" =>
                          /\ ~e.new /\ e.inst \in Installation
                          /\ e.rev \in 1 .. Len(minted[e.inst])
<1>1. CASE UNCHANGED vars
  BY <1>1 DEF vars, rows
<1>2. ASSUME NEW q \in Request,
             \/ Refused(q) \/ Fails(q) \/ CheckMaterial(q) \/ ResolveSecrets(q)
             \/ Accept(q) \/ RollBack(q) \/ FindClean(q)
      PROVE  Goal
  BY <1>2 DEF Refused, Fails, CheckMaterial, ResolveSecrets, Accept, RollBack, FindClean, rows
<1>3. ASSUME NEW q \in Request, NEW i \in Installation,
             \/ CreateInstallation(q, i) \/ ConfigureBinding(q, i)
             \/ MintEndpoint(q, i) \/ EnableBinding(q, i) \/ ReadInstallation(q, i)
      PROVE  Goal
  BY <1>3 DEF CreateInstallation, ConfigureBinding, MintEndpoint, EnableBinding,
              ReadInstallation, Records, rows
<1>4. ASSUME NEW q \in Request, NEW c \in Content,
             RevisionConflicts(q, c) \/ \E i \in Installation : ReadRevisions(q, i, c)
      PROVE  Goal
  BY <1>4 DEF RevisionConflicts, ReadRevisions, rows
<1>5. ASSUME NEW q \in Request, NEW c \in Content, SelectRevision(q, c)
      PROVE  Goal
  <2>1. inst[q] \in Installation /\ rev[q] \in Nat /\ rev[q] <= Len(minted[inst[q]])
    BY <1>5 DEF SelectRevision, RevisionsExist, TypeOK
  <2>2. PICK n \in Seen(q) : /\ minted[inst[q]][n] = c
                             /\ Records(q, "configured", inst[q], n, IsNew(q, c))
    BY <1>5 DEF SelectRevision
  <2>3. ~IsNew(q, c)
    BY <2>2 DEF IsNew
  <2>4. n \in 1 .. Len(minted[inst[q]])
    <3>1. minted[inst[q]] \in Seq(Content)
      BY <2>1 DEF TypeOK
    <3>2. Len(minted[inst[q]]) \in Nat
      BY <3>1
    <3> QED
      BY <2>1, <2>2, <3>2 DEF Seen
  <2> DEFINE record == [by |-> q, action |-> "configured", inst |-> inst[q], rev |-> n,
                        new |-> IsNew(q, c)]
  <2>5. trail' = trail \cup {record}
    BY <2>2 DEF Records
  <2>6. ~record.new /\ record.inst = inst[q] /\ record.rev = n
    BY <2>3
  <2>7. minted' = minted
    BY <1>5 DEF SelectRevision
  <2> HIDE DEF record
  <2> QED
    BY <2>1, <2>4, <2>5, <2>6, <2>7
<1>6. ASSUME NEW q \in Request, RecordRefresh(q) \/ \E material \in Material : Refresh(q, material)
      PROVE  Goal
  BY <1>6 DEF RecordRefresh, Refresh, Records, rows
<1>7. ASSUME NEW q \in Request,
             RefuseMaterial(q) \/ RefuseUninstalled(q) \/ RefuseInvalid(q) \/ Enable(q)
      PROVE  Goal
  BY <1>7 DEF RefuseMaterial, RefuseUninstalled, RefuseInvalid, Enable, Evidence, Records, rows
<1>8. ASSUME NEW q \in Request, NEW text \in SUBSET Value, Reject(q, text)
      PROVE  Goal
  BY <1>8 DEF Reject, rows
<1> QED
  BY <1>1, <1>2, <1>3, <1>4, <1>5, <1>6, <1>7, <1>8 DEF Next, Author, Rotate, Gate

\* Who claims revision n of i as new.
Claimants(i, n) ==
  {e.by : e \in {f \in trail : f.action = "configured" /\ f.inst = i
                                  /\ f.rev = n /\ f.new}}

\* Each revision is claimed by who minted it: it was the first of its number, of
\* which no record spoke before, and no other can mint that number again.
LEMMA ClaimStep == IInv /\ [Next]_vars => ConfiguredIsMinted' /\ OneClaimsEachRevision'
<1> SUFFICES ASSUME IInv, [Next]_vars PROVE ConfiguredIsMinted' /\ OneClaimsEachRevision'
  OBVIOUS
<1>1. TypeOK /\ RevisionsExist /\ ConfiguredIsMinted /\ OneClaimsEachRevision
  BY DEF IInv
<1>2. \A i \in Installation : Len(minted[i]) \in Nat
  <2>1. \A i \in Installation : minted[i] \in Seq(Content)
    BY <1>1 DEF TypeOK
  <2> QED
    BY <2>1
<1>3. CASE \A q \in Request, c \in Content : ~MintRevision(q, c)
  <2>1. /\ minted' = minted /\ trail \subseteq trail'
        /\ \A e \in trail' \ trail :
             e.action = "configured" =>
               ~e.new /\ e.inst \in Installation /\ e.rev \in 1 .. Len(minted[e.inst])
    BY <1>1, <1>3, OnlyMintingClaims
  <2>2. ConfiguredIsMinted'
    BY <1>1, <2>1 DEF ConfiguredIsMinted
  <2>3. \A i, n : Claimants(i, n)' = Claimants(i, n)
    BY <2>1 DEF Claimants
  <2>4. OneClaimsEachRevision'
    BY <1>1, <2>1, <2>3 DEF OneClaimsEachRevision, Claimants
  <2> QED
    BY <2>2, <2>4
<1>4. ASSUME NEW q \in Request, NEW c \in Content, MintRevision(q, c),
             NEW mine, mine = inst[q], NEW number, number = rev[q] + 1
      PROVE  ConfiguredIsMinted' /\ OneClaimsEachRevision'
  <2> DEFINE record == [by |-> q, action |-> "configured", inst |-> mine, rev |-> number,
                        new |-> IsNew(q, c)]
  <2>1. /\ mine \in Installation /\ Len(minted[mine]) = rev[q] /\ rev[q] \in Nat
        /\ number = rev[q] + 1
    BY <1>1, <1>4 DEF MintRevision, RevisionsExist, TypeOK
  <2>2. /\ Len(minted'[mine]) = number
        /\ \A i \in Installation \ {mine} : minted'[i] = minted[i]
    <3>1. /\ minted' = [minted EXCEPT ![mine] = Append(@, c)]
          /\ minted[mine] \in Seq(Content)
      BY <1>1, <1>4, <2>1 DEF MintRevision, TypeOK
    <3>2. Len(Append(minted[mine], c)) = number
      BY <2>1, <3>1
    <3> QED
      BY <1>1, <2>1, <3>1, <3>2 DEF TypeOK
  <2>3. IsNew(q, c)
    BY <1>4 DEF MintRevision, IsNew
  <2>4. trail' = trail \cup {record}
    BY <1>4 DEF MintRevision, Records
  <2>5. /\ record.by = q /\ record.action = "configured" /\ record.inst = mine
        /\ record.rev = number /\ record.new
    BY <2>3
  <2> HIDE DEF record
  <2>6. ConfiguredIsMinted'
    <3>1. number \in 1 .. Len(minted'[mine])
      BY <2>1, <2>2
    <3>2. ASSUME NEW e \in trail, e.action = "configured"
          PROVE  e.inst \in Installation /\ e.rev \in 1 .. Len(minted'[e.inst])
      <4>1. e.inst \in Installation /\ e.rev \in 1 .. Len(minted[e.inst])
        BY <1>1, <3>2 DEF ConfiguredIsMinted
      <4>2. Len(minted[e.inst]) \in Nat /\ Len(minted[e.inst]) <= Len(minted'[e.inst])
        BY <1>2, <2>1, <2>2, <4>1
      <4>3. Len(minted'[e.inst]) \in Nat
        BY <1>2, <2>1, <2>2, <4>1
      <4> QED
        BY <4>1, <4>2, <4>3
    <3> QED
      BY <2>1, <2>4, <2>5, <3>1, <3>2 DEF ConfiguredIsMinted
  <2>7. Claimants(mine, number) = {} /\ Claimants(mine, number)' = {q}
    <3>1. ~ \E e \in trail : e.action = "configured" /\ e.inst = mine /\ e.rev = number
      BY <1>1, <2>1 DEF ConfiguredIsMinted
    <3> QED
      BY <2>4, <2>5, <3>1 DEF Claimants
  <2>8. ASSUME NEW i \in Installation, NEW n \in Nat, i # mine \/ n # number
        PROVE  Claimants(i, n)' = Claimants(i, n)
    BY <2>4, <2>5, <2>8 DEF Claimants
  <2>9. ASSUME NEW i \in Installation, NEW n \in 1 .. Len(minted'[i])
        PROVE  \E p \in Request : Claimants(i, n)' = {p}
    <3>1. CASE i = mine /\ n = number
      BY <2>7, <3>1
    <3>2. CASE i # mine \/ n # number
      <4>1. n \in 1 .. Len(minted[i])
        BY <1>2, <2>1, <2>2, <2>9, <3>2
      <4>2. PICK p \in Request : Claimants(i, n) = {p}
        BY <1>1, <4>1 DEF OneClaimsEachRevision, Claimants
      <4> QED
        BY <2>8, <3>2, <4>1, <4>2
    <3> QED
      BY <3>1, <3>2
  <2>10. OneClaimsEachRevision'
    BY <2>9 DEF OneClaimsEachRevision, Claimants
  <2> QED
    BY <2>6, <2>10
<1>5. ASSUME NEW q \in Request, NEW c \in Content, MintRevision(q, c)
      PROVE  ConfiguredIsMinted' /\ OneClaimsEachRevision'
  BY <1>4, <1>5
<1> QED
  BY <1>3, <1>5

\* The inductive invariant, which no step breaks.
LEMMA IInvStep == IInv /\ [Next]_vars => IInv'
BY TypeStep, RevisionsExistStep, GivenIsWholeStep, AcceptedIsKnownStep, RestIsHeldStep,
   EvidenceStep, TrailStep, WrittenStep, ClaimStep
DEF IInv

THEOREM Invariance == Spec => []IInv
BY InitIInv, IInvStep, PTL DEF Spec

\* The rows, the records and what requests work with are what they should be.
THEOREM TypeCorrect == Spec => []TypeOK
<1>1. IInv => TypeOK
  BY DEF IInv
<1> QED
  BY <1>1, Invariance, PTL

\* However many configure, rotate and enable at once, the trail of enablements is
\* true: each names a revision its connector accepted with all of its material.
THEOREM TrailHolds == Spec => []TrailNamesTheValidated
<1>1. IInv => TrailNamesTheValidated
  BY DEF IInv
<1> QED
  BY <1>1, Invariance, PTL

\* However many configure an installation at once, and in whatever order they read
\* and put, exactly one of them is on record as having made each revision.
THEOREM OneClaimsEachRevisionHolds == Spec => []OneClaimsEachRevision
<1>1. IInv => OneClaimsEachRevision
  BY DEF IInv
<1> QED
  BY <1>1, Invariance, PTL

\* What changed a row, and what the gate refused, is in the trail exactly once;
\* what was turned away, rolled back or lost is not.
THEOREM EvidenceHolds == Spec => []EvidenceOrNothing
<1>1. IInv => EvidenceOrNothing
  BY DEF IInv
<1> QED
  BY <1>1, Invariance, PTL

\* The redaction keeps material out of the database but for what is rotated away
\* while it is being validated.
THEOREM RedactionHolds == Spec => []WrittenOnlyAfterRotation
<1>1. IInv => WrittenOnlyAfterRotation
  BY DEF IInv
<1> QED
  BY <1>1, Invariance, PTL

=============================================================================
