------------------------------ MODULE MCIntake ------------------------------
(***************************************************************************)
(* Intake on a small instance.  The first two batches disagree about event *)
(* 1, the good job holds an event of each, and the other job has a         *)
(* connector that raises.  The third batch does not fit.                   *)
(***************************************************************************)
EXTENDS Intake, TLC

E(id, content) == [id |-> id, content |-> content]

MCEvent == {E(1, "x"), E(1, "y"), E(2, "x"), E(3, "x"), E(4, "x")}

MCEvents ==
  ("first" :> {E(1, "x"), E(2, "x")})
    @@ ("second" :> {E(1, "y"), E(3, "x")})
    @@ ("large" :> {E(4, "x")})

MCSize == ("first" :> 3) @@ ("second" :> 1) @@ ("large" :> 7)

MCLog == ("good" :> <<E(3, "x"), E(2, "x")>>) @@ ("broken" :> << >>)

=============================================================================
