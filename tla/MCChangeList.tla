---------------------------- MODULE MCChangeList ----------------------------
(* ChangeList with a module in a module: two resources in it, one beside it. *)
EXTENDS ChangeList

ThreeAddrs  == {<<1, 1, 1>>, <<1, 1, 2>>, <<1, 3>>}
TwoQueries  == {"", "x"}
SomeMatch   == "" :> ThreeAddrs @@ "x" :> {<<1, 1, 1>>, <<1, 3>>}
ThreePlans  == {{}, {<<1, 1, 1>>, <<1, 1, 2>>}, ThreeAddrs}
PlanOrder   == <<<<1, 3>>, <<1, 1, 2>>, <<1, 1, 1>>>>
ScoreOrder  == <<<<1, 1, 1>>, <<1, 3>>, <<1, 1, 2>>>>
=============================================================================
