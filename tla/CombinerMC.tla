------------------------------ MODULE CombinerMC ----------------------------
(***************************************************************************)
(* Two closures, two polling threads and one executor thread.              *)
(***************************************************************************)
EXTENDS Combiner

CONSTANTS n1, n2, t1, t2, x1
MCNode == {n1, n2}
MCThread == {t1, t2, x1}
MCExecutor == {x1}
=============================================================================
