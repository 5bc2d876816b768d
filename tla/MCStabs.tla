------------------------------ MODULE MCStabs ------------------------------
(* Files of 3 and of 12 bytes: assembly without functions, and C files     *)
(* with up to three functions, some of them at most 4 bytes apart, with    *)
(* included names and lines between.                                       *)
EXTENDS Stabs

Fun(a) == Entry("FUN", a)
Sol(a) == Entry("SOL", a)
Line(a) == Entry("SLINE", a)

MCBodies ==
  { <<>>, <<Line(0), Line(6)>>,
    <<Fun(0)>>, <<Fun(0), Line(0), Line(2)>>, <<Fun(3), Line(0)>>,
    <<Fun(0), Fun(5)>>, <<Fun(0), Line(0), Sol(3), Line(1), Fun(6)>>,
    <<Sol(0), Fun(0), Line(1), Fun(5), Sol(5), Fun(10)>>,
    <<Fun(0), Fun(2)>>, <<Fun(1), Line(0), Fun(5), Line(0), Fun(9)>>,
    <<Fun(0), Sol(0), Fun(3), Sol(3), Fun(8)>> }
=============================================================================
