----------------------------- MODULE HeldSecrets -----------------------------
(***************************************************************************)
(* The secret material of one process: the loads that replace it           *)
(* (secret_loading.py) and the resolutions that read it                    *)
(* (secret_resolver.py).                                                   *)
(*                                                                         *)
(* A load dereferences one reference after the other while the files and   *)
(* their mount change under it; a resolution walks its references twice    *)
(* while loads replace what is held.  Files and stored references may      *)
(* change between any two steps, so they have no variable: each read may   *)
(* find whatever there can be.  The environment is the process's own, and  *)
(* does not change.                                                        *)
(*                                                                         *)
(* The kernel's side is external: it asks the source for a whole new set,  *)
(* and keeps the one it has if the source raises.                          *)
(*                                                                         *)
(* A definition named Mut_* is the one after it as a plausible bug would   *)
(* have it; nothing uses it but the mutation runs.                         *)
(***************************************************************************)
EXTENDS Naturals

CONSTANTS
  Reference,  \* every reference anyone may store, by its rank in sorted order
  FileBacked, \* those of the file scheme under its root; the others are of env,
              \* or refused by their shape
  Extra,      \* the assembly's own: destination, registry and query credentials
  Value,      \* material that can be held
  Loader,     \* requests to load: the start's, and operators' refreshes
  Boot,       \* the start's
  Caller,     \* threads that resolve references
  Serialised  \* whether the kernel lets one load at a time replace the set

ASSUME ReferencesAreRanked == Reference \subseteq Nat
ASSUME SomeAreFiles == FileBacked \subseteq Reference
ASSUME ExtraAreReferences == Extra \subseteq Reference
ASSUME BootLoads == Boot \in Loader

\* What a reference may lead to that cannot be held: nothing (a missing or empty
\* file, an unset variable, a pointer outside the prefix or the root, a scheme
\* not enabled), fewer characters than can be redacted, bytes that are no text.
Unusable == {"absent", "short", "undecodable"}

ASSUME ValuesAreUsable == Value \cap (Unusable \cup {"none"}) = {}

VARIABLES
  environ,   \* environ[r]: what a reference that is not a file leads to
  mounted,   \* whether the secret file root is there
  up,        \* "down", then "up" or "refused"
  held,      \* held[r]: the material the kernel holds, or "none"
  report,    \* _last_report: what the last finished load held and missed
  lpc,       \* lpc[l]: where load l is
  sought,    \* sought[l]: the references it was to read
  todo,      \* todo[l]: those it has yet to read
  found,     \* found[l]: the material it has read
  cpc,       \* cpc[c]: where the resolution of c is
  asked,     \* asked[c]: the references it was given
  unread,    \* unread[c]: those its present walk has yet to look up
  missing,   \* missing[c]: those its first walk did not find
  got        \* got[c]: what its second walk has found

outside == <<environ, mounted>>
kernel == <<up, held>>
load == <<lpc, sought, todo, found>>
resolution == <<cpc, asked, unread, missing, got>>
vars == <<outside, kernel, report, load, resolution>>

---------------------------------------------------------------------------

Nothing == [r \in Reference |-> "none"]

Of(f) == {r \in Reference : f[r] # "none"}

TypeOK ==
  /\ environ \in [Reference \ FileBacked -> Value \cup {"absent", "short"}]
  /\ mounted \in BOOLEAN
  /\ up \in {"down", "up", "refused"}
  /\ held \in [Reference -> Value \cup {"none"}]
  /\ report \in [held : SUBSET Reference, unresolved : SUBSET Reference]
  /\ lpc \in [Loader -> {"idle", "walking", "checked", "loaded", "ended"}]
  /\ sought \in [Loader -> SUBSET Reference]
  /\ todo \in [Loader -> SUBSET Reference]
  /\ found \in [Loader -> [Reference -> Value \cup {"none"}]]
  /\ cpc \in [Caller -> {"idle", "checking", "resolving", "resolved", "refused"}]
  /\ asked \in [Caller -> SUBSET Reference]
  /\ unread \in [Caller -> SUBSET Reference]
  /\ missing \in [Caller -> SUBSET Reference]
  /\ got \in [Caller -> [Reference -> Value \cup {"none"}]]

Init ==
  /\ environ \in [Reference \ FileBacked -> Value \cup {"absent", "short"}]
  /\ mounted \in BOOLEAN
  /\ up = "down"
  /\ held = Nothing
  /\ report = [held |-> {}, unresolved |-> {}]
  /\ lpc = [l \in Loader |-> "idle"]
  /\ sought = [l \in Loader |-> {}]
  /\ todo = [l \in Loader |-> {}]
  /\ found = [l \in Loader |-> Nothing]
  /\ cpc = [c \in Caller |-> "idle"]
  /\ asked = [c \in Caller |-> {}]
  /\ unread = [c \in Caller |-> {}]
  /\ missing = [c \in Caller |-> {}]
  /\ got = [c \in Caller |-> Nothing]

---------------------------------------------------------------------------
MountChanges ==
  /\ mounted' = ~mounted
  /\ UNCHANGED <<environ, kernel, report, load, resolution>>

---------------------------------------------------------------------------
(* Loads.                                                                  *)

Loading(l) == lpc[l] \notin {"idle", "ended"}

\* The start loads before anything is served; a refresh is an operator's request.
MayLoad(l) ==
  /\ lpc[l] = "idle"
  /\ up = (IF l = Boot THEN "down" ELSE "up")
  /\ Serialised => \A o \in Loader : ~Loading(o)

\* The references of revisions whose installation is not retired are read in a
\* short transaction; an unmigrated database has none. Whatever an earlier load
\* found is forgotten.
BeginLoad(l, stored) ==
  /\ MayLoad(l)
  /\ lpc' = [lpc EXCEPT ![l] = "walking"]
  /\ sought' = [sought EXCEPT ![l] = stored \cup Extra]
  /\ todo' = [todo EXCEPT ![l] = stored \cup Extra]
  /\ found' = [found EXCEPT ![l] = Nothing]
  /\ UNCHANGED <<outside, kernel, report, resolution>>

Mut_ReportOfRaised(l) ==
  [held |-> Of(found[l]), unresolved |-> sought[l] \ Of(found[l])]

\* A load that raises has not reached the line that replaces the report.
ReportOfRaised(l) == report

\* The kernel keeps what it holds. At the start it refuses to go on.
LoadRaises(l) ==
  /\ lpc' = [lpc EXCEPT ![l] = "ended"]
  /\ todo' = [todo EXCEPT ![l] = {}]
  /\ up' = IF l = Boot THEN "refused" ELSE up
  /\ report' = ReportOfRaised(l)
  /\ UNCHANGED <<outside, held, sought, found, resolution>>

\* The transaction that reads the stored references fails.
ReadingRaises(l) == MayLoad(l) /\ LoadRaises(l)

Reached(l, r) == r \in todo[l] /\ \A s \in todo[l] : r <= s

\* Before it reads a file, FileDereferencer looks for its root.
CheckRoot(l, r) ==
  /\ lpc[l] = "walking" /\ Reached(l, r)
  /\ r \in FileBacked /\ mounted
  /\ lpc' = [lpc EXCEPT ![l] = "checked"]
  /\ UNCHANGED <<outside, kernel, report, sought, todo, found, resolution>>

\* SecretStoreUnavailable is not caught by the walk.
RootIsGone(l, r) ==
  /\ lpc[l] = "walking" /\ Reached(l, r)
  /\ r \in FileBacked /\ ~mounted
  /\ LoadRaises(l)

MayRead(l, r) ==
  /\ Reached(l, r)
  /\ lpc[l] = IF r \in FileBacked THEN "checked" ELSE "walking"

\* What a read may find. A file whose root went after the look does not exist.
Readable(r) ==
  IF r \notin FileBacked THEN {environ[r]}
  ELSE IF mounted THEN Value \cup Unusable ELSE {"absent"}

Mut_Kept(m) == IF m = "absent" THEN "none" ELSE m

\* A missing value, and one too short to be redacted, is recorded and omitted.
Kept(m) == IF m \in Value THEN m ELSE "none"

Dereference(l, r, m) ==
  /\ MayRead(l, r) /\ m \in Readable(r) \ {"undecodable"}
  /\ lpc' = [lpc EXCEPT ![l] = "walking"]
  /\ todo' = [todo EXCEPT ![l] = @ \ {r}]
  /\ found' = [found EXCEPT ![l] = [@ EXCEPT ![r] = Kept(m)]]
  /\ UNCHANGED <<outside, kernel, report, sought, resolution>>

\* UnicodeDecodeError is no OSError: it leaves read, and load.
DecodingRaises(l, r) ==
  /\ MayRead(l, r) /\ "undecodable" \in Readable(r)
  /\ LoadRaises(l)

\* The walk is over: the report is replaced, and the set returned to the kernel.
EndLoad(l) ==
  /\ lpc[l] = "walking" /\ todo[l] = {}
  /\ lpc' = [lpc EXCEPT ![l] = "loaded"]
  /\ report' = [held |-> Of(found[l]), unresolved |-> sought[l] \ Of(found[l])]
  /\ UNCHANGED <<outside, kernel, sought, todo, found, resolution>>

\* The kernel replaces what it holds as a whole.
Replace(l) ==
  /\ lpc[l] = "loaded"
  /\ lpc' = [lpc EXCEPT ![l] = "ended"]
  /\ held' = found[l]
  /\ up' = "up"
  /\ UNCHANGED <<outside, report, sought, todo, found, resolution>>

---------------------------------------------------------------------------
(* Resolutions: resolve_secrets, one dictionary lookup after the other.    *)

Ask(c) ==
  /\ up = "up"
  /\ cpc[c] = "idle"
  /\ \E refs \in SUBSET Reference :
       /\ asked' = [asked EXCEPT ![c] = refs]
       /\ unread' = [unread EXCEPT ![c] = refs]
  /\ cpc' = [cpc EXCEPT ![c] = "checking"]
  /\ UNCHANGED <<outside, kernel, report, load, missing, got>>

\* missing_references collects every reference that is not held.
Check(c, r) ==
  /\ cpc[c] = "checking" /\ r \in unread[c]
  /\ unread' = [unread EXCEPT ![c] = @ \ {r}]
  /\ missing' = [missing EXCEPT ![c] = IF held[r] = "none" THEN @ \cup {r} ELSE @]
  /\ UNCHANGED <<outside, kernel, report, load, cpc, asked, got>>

EndCheck(c) ==
  /\ cpc[c] = "checking" /\ unread[c] = {}
  /\ IF missing[c] = {}
       THEN /\ cpc' = [cpc EXCEPT ![c] = "resolving"]
            /\ unread' = [unread EXCEPT ![c] = asked[c]]
       ELSE /\ cpc' = [cpc EXCEPT ![c] = "refused"]
            /\ UNCHANGED unread
  /\ UNCHANGED <<outside, kernel, report, load, asked, missing, got>>

Mut_AfterLookup(value) == "resolving"

\* The second walk checks again: a load may have replaced the set since the first.
AfterLookup(value) == IF value = "none" THEN "refused" ELSE "resolving"

Lookup(c, r) ==
  /\ cpc[c] = "resolving" /\ r \in unread[c]
  /\ cpc' = [cpc EXCEPT ![c] = AfterLookup(held[r])]
  /\ unread' = [unread EXCEPT ![c] = @ \ {r}]
  /\ got' = [got EXCEPT ![c] = [@ EXCEPT ![r] = held[r]]]
  /\ UNCHANGED <<outside, kernel, report, load, asked, missing>>

EndLookups(c) ==
  /\ cpc[c] = "resolving" /\ unread[c] = {}
  /\ cpc' = [cpc EXCEPT ![c] = "resolved"]
  /\ UNCHANGED <<outside, kernel, report, load, asked, unread, missing, got>>

\* The caller is done with what it was given.
Forget(c) ==
  /\ cpc[c] \in {"resolved", "refused"}
  /\ cpc' = [cpc EXCEPT ![c] = "idle"]
  /\ asked' = [asked EXCEPT ![c] = {}]
  /\ unread' = [unread EXCEPT ![c] = {}]
  /\ missing' = [missing EXCEPT ![c] = {}]
  /\ got' = [got EXCEPT ![c] = Nothing]
  /\ UNCHANGED <<outside, kernel, report, load>>

---------------------------------------------------------------------------

LoadStep(l) ==
  \/ ReadingRaises(l) \/ EndLoad(l) \/ Replace(l)
  \/ \E stored \in SUBSET Reference : BeginLoad(l, stored)
  \/ \E r \in Reference :
       \/ CheckRoot(l, r) \/ RootIsGone(l, r) \/ DecodingRaises(l, r)
       \/ \E m \in Value \cup Unusable : Dereference(l, r, m)

CallerStep(c) ==
  \/ Ask(c) \/ EndCheck(c) \/ EndLookups(c) \/ Forget(c)
  \/ \E r \in Reference : Check(c, r) \/ Lookup(c, r)

Next ==
  \/ MountChanges
  \/ \E l \in Loader : LoadStep(l)
  \/ \E c \in Caller : CallerStep(c)

Spec == Init /\ [][Next]_vars

---------------------------------------------------------------------------
(* What the properties rest on.                                            *)

\* What the second walk has passed is in what it returns.
WalkedIsGot ==
  \A c \in Caller :
    /\ cpc[c] \in {"resolving", "resolved"} =>
         \A r \in asked[c] \ unread[c] : got[c][r] \in Value
    /\ cpc[c] = "resolved" => unread[c] = {}

\* The report runs ahead of what is held by the one load that is to replace it.
ReportRunsAhead ==
  Serialised =>
    /\ \A l, o \in Loader : Loading(l) /\ Loading(o) => l = o
    /\ (\A l \in Loader : lpc[l] # "loaded") => Of(held) = report.held
    /\ \A l \in Loader : lpc[l] = "loaded" => Of(found[l]) = report.held

---------------------------------------------------------------------------
(* Properties.                                                             *)

\* A resolution that succeeds has material for every reference it was given,
\* whatever loads replaced the set between its two walks, or during them: no
\* connector is handed half its credentials.
ResolvedIsComplete ==
  \A c \in Caller : cpc[c] = "resolved" => \A r \in asked[c] : got[c][r] \in Value

\* What an operator reads in the report is what the process holds, after loads
\* that failed half-way as after those that did not, if loads do not overlap.
HeldIsAsReported ==
  Serialised /\ (\A l \in Loader : ~Loading(l)) => Of(held) = report.held

IInv == TypeOK /\ WalkedIsGot /\ ReportRunsAhead

=============================================================================
