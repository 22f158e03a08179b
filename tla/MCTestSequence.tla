--------------------------- MODULE MCTestSequence ---------------------------
(* Model checking of TestSequence: two pins of each of the two tables, and   *)
(* boards with one other defect or up to MaxWiring of the wiring, which may  *)
(* be there always or in one round only.                                     *)
EXTENDS TestSequence

CONSTANT MaxWiring   \* bound: defects of the wiring of one board

MCoutp == <<8, 26>>
MCinp  == <<2, 4>>

UpTo(n) == {{f[i] : i \in 1 .. n} : f \in [1 .. n -> WiringDefects]}

MCBoards ==
  UNION {Board(Models, {{}}, {Always}, {{}} \cup {{d} : d \in OtherDefects}),
         Board(Models, UpTo(1), Rounds, {{}}),
         Board({"F1"}, UpTo(MaxWiring), Rounds, {{}})}
=============================================================================
