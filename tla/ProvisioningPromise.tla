------------------------ MODULE ProvisioningPromise ------------------------
(***************************************************************************)
(* What provisioning promises a product, with no worker, claim, lease or   *)
(* session in it: a command means one operation and one plan for good, the *)
(* operation is settled a step at a time and never past its last, what is  *)
(* called off is closed at once, and no answer tells more than there is.   *)
(***************************************************************************)
EXTENDS Naturals

CONSTANTS Command, Plan, NoPlan, Steps

VARIABLES
  plan,      \* plan[c]: what was submitted under c
  settled,   \* settled[c]: how many of its steps are settled
  cancelled, \* the operations called off
  told       \* the views that products were given

operations == <<plan, settled, cancelled>>
vars == <<operations, told>>

Init ==
  /\ plan \in [Command -> Plan \cup {NoPlan}]
  /\ settled = [c \in Command |-> 0]
  /\ cancelled = {}
  /\ told = {}

Open(c) == plan[c] # NoPlan /\ settled[c] < Steps

Submit(c, p) ==
  /\ plan[c] = NoPlan
  /\ plan' = [plan EXCEPT ![c] = p]
  /\ UNCHANGED <<settled, cancelled>>

CallOff(c) ==
  /\ Open(c)
  /\ cancelled' = cancelled \cup {c}
  /\ UNCHANGED <<plan, settled>>

SettleStep(c) ==
  /\ Open(c) /\ c \notin cancelled
  /\ settled' = [settled EXCEPT ![c] = @ + 1]
  /\ UNCHANGED <<plan, cancelled>>

Close(c) ==
  /\ Open(c) /\ c \in cancelled
  /\ settled' = [settled EXCEPT ![c] = Steps]
  /\ UNCHANGED <<plan, cancelled>>

Quiet == UNCHANGED told

\* A view may be out of date, but not ahead: of its steps, no more are told than
\* are settled, and all of them where the operation is told as done.
Tell(c, n, done) ==
  /\ plan'[c] # NoPlan
  /\ n <= settled'[c]
  /\ done => n = Steps
  /\ told' = told \cup
       {[command |-> c, plan |-> plan'[c], settled |-> n, done |-> done]}

Answers(c) == \E n \in 0 .. Steps, done \in BOOLEAN : Tell(c, n, done)

Next ==
  \E c \in Command :
    \/ (\E p \in Plan : Submit(c, p)) /\ (Quiet \/ Answers(c))
    \/ CallOff(c) /\ (Quiet \/ Answers(c))
    \/ (SettleStep(c) \/ Close(c)) /\ Quiet
    \/ UNCHANGED operations /\ Answers(c)

Spec == Init /\ [][Next]_vars

=============================================================================
