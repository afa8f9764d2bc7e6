-------------------------- MODULE HeldSecrets_proofs --------------------------
(***************************************************************************)
(* Theorems about HeldSecrets, for any references, loads and callers.      *)
(***************************************************************************)
EXTENDS HeldSecrets, TLAPS

LEMMA OfAreReferences == \A f : Of(f) \subseteq Reference
  BY DEF Of

LEMMA NothingIsEmpty ==
  /\ Nothing \in [Reference -> Value \cup {"none"}]
  /\ Of(Nothing) = {}
  BY DEF Nothing, Of

\* Only material that can be held is kept of a read.
LEMMA KeptIsUsable == \A m : Kept(m) \in Value \cup {"none"}
  BY DEF Kept

LEMMA InitIsFine == Init => IInv
  BY NothingIsEmpty DEF Init, IInv, TypeOK, WalkedIsGot, ReportRunsAhead, Loading

---------------------------------------------------------------------------
(* Steps of the loads.                                                     *)

\* A load that raises ends, and leaves what is held and reported.
LEMMA RaisingStep ==
  ASSUME IInv, NEW l \in Loader, LoadRaises(l),
         Serialised => \A o \in Loader : Loading(o) => o = l,
         lpc[l] # "loaded"
  PROVE  IInv'
<1>1. TypeOK'
  BY DEF IInv, TypeOK, LoadRaises, ReportOfRaised, outside, resolution
<1>2. WalkedIsGot'
  BY DEF IInv, WalkedIsGot, LoadRaises, outside, resolution
<1>3. ReportRunsAhead'
  BY DEF IInv, TypeOK, ReportRunsAhead, LoadRaises, ReportOfRaised, Loading, Of
<1>4. QED
  BY <1>1, <1>2, <1>3 DEF IInv

LEMMA BeginStep ==
  ASSUME IInv, NEW l \in Loader, NEW stored \in SUBSET Reference, BeginLoad(l, stored)
  PROVE  IInv'
<1>1. TypeOK'
  BY NothingIsEmpty, ExtraAreReferences
  DEF IInv, TypeOK, BeginLoad, outside, kernel, resolution
<1>2. WalkedIsGot'
  BY DEF IInv, WalkedIsGot, BeginLoad, resolution
<1>3. ReportRunsAhead'
  BY DEF IInv, TypeOK, ReportRunsAhead, BeginLoad, MayLoad, Loading, Of, kernel
<1>4. QED
  BY <1>1, <1>2, <1>3 DEF IInv

LEMMA WalkStep ==
  ASSUME IInv, NEW l \in Loader, NEW r \in Reference,
         CheckRoot(l, r) \/ \E m \in Value \cup Unusable : Dereference(l, r, m)
  PROVE  IInv'
<1>1. CASE CheckRoot(l, r)
  <2>1. TypeOK'
    BY <1>1 DEF IInv, TypeOK, CheckRoot, outside, kernel, resolution
  <2>2. WalkedIsGot'
    BY <1>1 DEF IInv, WalkedIsGot, CheckRoot, resolution
  <2>3. ReportRunsAhead'
    BY <1>1 DEF IInv, TypeOK, ReportRunsAhead, CheckRoot, Loading, Of, kernel
  <2>4. QED
    BY <2>1, <2>2, <2>3 DEF IInv
<1>2. ASSUME NEW m \in Value \cup Unusable, Dereference(l, r, m) PROVE IInv'
  <2>1. TypeOK'
    BY <1>2, KeptIsUsable DEF IInv, TypeOK, Dereference, outside, kernel, resolution
  <2>2. WalkedIsGot'
    BY <1>2 DEF IInv, WalkedIsGot, Dereference, resolution
  <2>3. lpc[l] \notin {"idle", "ended", "loaded"}
    BY <1>2 DEF Dereference, MayRead
  <2>4. ReportRunsAhead'
    BY <1>2, <2>3 DEF IInv, TypeOK, ReportRunsAhead, Dereference, Loading, Of, kernel
  <2>5. QED
    BY <2>1, <2>2, <2>4 DEF IInv
<1>3. QED
  BY <1>1, <1>2

LEMMA EndStep ==
  ASSUME IInv, NEW l \in Loader, EndLoad(l) \/ Replace(l)
  PROVE  IInv'
<1>1. CASE EndLoad(l)
  <2>1. TypeOK'
    BY <1>1, OfAreReferences DEF IInv, TypeOK, EndLoad, outside, kernel, resolution
  <2>2. WalkedIsGot'
    BY <1>1 DEF IInv, WalkedIsGot, EndLoad, resolution
  <2>3. ReportRunsAhead'
    <3> SUFFICES ASSUME Serialised PROVE ReportRunsAhead'
      BY DEF ReportRunsAhead
    <3>1. \A o \in Loader : Loading(o)' <=> Loading(o)
      BY <1>1 DEF IInv, TypeOK, EndLoad, Loading
    <3>2. \A o \in Loader : lpc'[o] = "loaded" => o = l
      BY <1>1 DEF IInv, TypeOK, ReportRunsAhead, EndLoad, Loading
    <3>3. lpc'[l] = "loaded" /\ Of(found[l])' = report'.held
      BY <1>1 DEF IInv, TypeOK, EndLoad, Of
    <3>4. QED
      BY <3>1, <3>2, <3>3 DEF IInv, ReportRunsAhead, Of
  <2>4. QED
    BY <2>1, <2>2, <2>3 DEF IInv
<1>2. CASE Replace(l)
  <2>1. TypeOK'
    BY <1>2 DEF IInv, TypeOK, Replace, outside, resolution
  <2>2. WalkedIsGot'
    BY <1>2 DEF IInv, WalkedIsGot, Replace, resolution
  <2>3. ReportRunsAhead'
    BY <1>2 DEF IInv, TypeOK, ReportRunsAhead, Replace, Loading, Of
  <2>4. QED
    BY <2>1, <2>2, <2>3 DEF IInv
<1>3. QED
  BY <1>1, <1>2

LEMMA LoaderStep ==
  ASSUME IInv, NEW l \in Loader, LoadStep(l)
  PROVE  IInv'
<1>1. CASE ReadingRaises(l)
  BY <1>1, RaisingStep DEF ReadingRaises, MayLoad
<1>2. ASSUME NEW r \in Reference, RootIsGone(l, r) \/ DecodingRaises(l, r) PROVE IInv'
  <2>1. LoadRaises(l) /\ Loading(l) /\ lpc[l] # "loaded"
    BY <1>2 DEF RootIsGone, DecodingRaises, MayRead, Loading
  <2>2. QED
    BY <2>1, RaisingStep DEF IInv, ReportRunsAhead
<1>3. QED
  BY <1>1, <1>2, BeginStep, WalkStep, EndStep DEF LoadStep

---------------------------------------------------------------------------
(* Steps of the resolutions.                                               *)

LEMMA ResolutionStep ==
  ASSUME IInv, NEW c \in Caller, CallerStep(c)
  PROVE  IInv'
<1>1. UNCHANGED <<outside, kernel, report, load>>
  BY DEF CallerStep, Ask, Check, EndCheck, Lookup, EndLookups, Forget
<1>2. ReportRunsAhead'
  BY <1>1 DEF IInv, ReportRunsAhead, Loading, Of, kernel, load
<1>3. TypeOK' /\ WalkedIsGot'
  <2> USE <1>1 DEF IInv, TypeOK, WalkedIsGot, outside, kernel, load
  <2>1. CASE Ask(c)
    BY <2>1 DEF Ask
  <2>2. CASE EndCheck(c)
    <3>1. CASE missing[c] = {}
      <4>1. /\ cpc' = [cpc EXCEPT ![c] = "resolving"]
            /\ unread' = [unread EXCEPT ![c] = asked[c]]
            /\ UNCHANGED <<asked, missing, got>>
        BY <2>2, <3>1 DEF EndCheck
      <4>2. TypeOK'
        BY <4>1
      <4>3. WalkedIsGot'
        BY <4>1
      <4>4. QED
        BY <4>2, <4>3
    <3>2. CASE missing[c] # {}
      BY <2>2, <3>2 DEF EndCheck
    <3>3. QED
      BY <3>1, <3>2
  <2>3. CASE EndLookups(c)
    BY <2>3 DEF EndLookups
  <2>4. CASE Forget(c)
    BY <2>4, NothingIsEmpty DEF Forget
  <2>5. ASSUME NEW r \in Reference, Check(c, r) PROVE TypeOK' /\ WalkedIsGot'
    BY <2>5 DEF Check
  <2>6. ASSUME NEW r \in Reference, Lookup(c, r) PROVE TypeOK' /\ WalkedIsGot'
    BY <2>6 DEF Lookup, AfterLookup
  <2>7. QED
    BY <2>1, <2>2, <2>3, <2>4, <2>5, <2>6 DEF CallerStep
<1>4. QED
  BY <1>2, <1>3 DEF IInv

THEOREM Invariance == Spec => []IInv
<1>1. IInv /\ [Next]_vars => IInv'
  <2> SUFFICES ASSUME IInv, [Next]_vars PROVE IInv'
    OBVIOUS
  <2>1. CASE UNCHANGED vars
    BY <2>1 DEF vars, outside, kernel, load, resolution, IInv, TypeOK, WalkedIsGot,
                ReportRunsAhead, Loading, Of
  <2>2. CASE MountChanges
    BY <2>2 DEF MountChanges, kernel, load, resolution, IInv, TypeOK, WalkedIsGot,
                ReportRunsAhead, Loading, Of
  <2>3. QED
    BY <2>1, <2>2, LoaderStep, ResolutionStep DEF Next
<1>2. QED
  BY InitIsFine, <1>1, PTL DEF Spec

---------------------------------------------------------------------------

\* Every value stays of its type: above all, nothing is held that is too short to
\* be redacted (load in secret_loading.py).
THEOREM TypeCorrect == Spec => []TypeOK
  BY Invariance, PTL DEF IInv

\* However loads and lookups interleave, resolve_secrets returns material for
\* every reference or refuses.
THEOREM ResolvedIsCompleteHolds == Spec => []ResolvedIsComplete
<1>1. IInv => ResolvedIsComplete
  BY DEF IInv, WalkedIsGot, ResolvedIsComplete
<1>2. QED
  BY Invariance, <1>1, PTL

\* If loads do not overlap, last_report tells what is held whenever none runs.
THEOREM HeldIsAsReportedHolds == Spec => []HeldIsAsReported
<1>1. IInv => HeldIsAsReported
  BY DEF IInv, ReportRunsAhead, HeldIsAsReported, Loading
<1>2. QED
  BY Invariance, <1>1, PTL

=============================================================================
