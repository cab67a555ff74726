----------------------- MODULE MCSequentialOrderCheck -----------------------
(***************************************************************************)
(* A small instance of SequentialOrderCheck, whose contracts have prices   *)
(* with all the sensitivities the engine uses and some it does not: calls  *)
(* are polynomials, puts are rougher than that.                            *)
(***************************************************************************)
EXTENDS TaylorTerms

\* Calls and puts differ in the sign of what their moves do together.
MCCoefficient(c, t, i, j) ==
  CASE <<i, j>> = <<0, 0>> -> 5 * t + c.strike
    [] <<i, j>> = <<1, 0>> -> 400 + (IF IsCall(c) THEN t ELSE 0)
    [] <<i, j>> = <<2, 0>> -> 3
    [] <<i, j>> = <<1, 1>> -> IF IsCall(c) THEN 2 ELSE -2
    [] <<i, j>> = <<0, 2>> -> 2
    [] <<i, j>> = <<3, 0>> -> IF IsCall(c) THEN 1 ELSE -1
    [] <<i, j>> = <<2, 1>> -> IF IsCall(c) THEN 0 ELSE 1
    [] <<i, j>> = <<1, 2>> -> IF IsCall(c) THEN 1 ELSE 0
    [] OTHER -> 0
MCTheta(c, s, v, t) == 5 + (IF IsCall(c) THEN s ELSE 0)

\* What no Greek sees of a put.
MCClosedForm(c, s, v, t) ==
  LET form == CubicForm(c, s, v, t)
  IN  IF IsCall(c) THEN form ELSE [form EXCEPT !.price = @ + ((s * v) % 2)]
MCRoughness(c, v) == IF IsCall(c) THEN 0 ELSE 1

\* The spot stays positive, rises with z and falls by division.
MCMoved(s, v, z, shock) ==
  LET move == v * shock IN IF z >= 0 THEN s + z * move ELSE Max({1, (s * s) \div (s - z * move)})

MCListings == [type \in {"C", "P"} |->
                 IF type = "C" THEN {[strike |-> 8, open |-> State(10, 2, 4)]}
                               ELSE {[strike |-> 7, open |-> State(6, 3, 5)],
                                     [strike |-> 6, open |-> State(6, 1, 3)]}]
MCDraws == {<<1, -1>>, <<-1, 1>>, <<0, 2>>}

Contract(type) == [option_type |-> type, strike |-> 6]

\* Expired options around their strike, one alive, one line with a comma in it.
MCRequests ==
  {Request("expired", Contract(type), State(s, 0, 3), State(u, 2, 0)) :
     type \in {"C", "P"}, s \in 5 .. 7, u \in 5 .. 7}
  \cup {Request("alive", Contract("C"), State(6, 2, 3), State(5, 3, 2))}
  \cup {[Request("odd", Contract("P"), State(6, 2, 3), State(5, 3, 2))
          EXCEPT !.text = "eleven fields"]}
MCDirectCalls == {<<a, b>> : a, b \in MCRequests}

ASSUME SmoothnessAssumption ==
  \A type \in {"C", "P"} : SmoothOn(Contract(type), 1 .. 9, 1 .. 4, 1 .. 3)

=============================================================================
