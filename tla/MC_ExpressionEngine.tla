----------------------- MODULE MC_ExpressionEngine -----------------------
(***************************************************************************)
(* Model for ExpressionEngine: the literals "a", true, false, 1 and 1.5    *)
(* (numbers in half units), nested up to two operators deep; an operator   *)
(* combines with a literal or with one of the small expressions 1.5 > 1,   *)
(* 1 > 1.5, not true and the ill-typed "a" == 1.                           *)
(***************************************************************************)
EXTENDS ExpressionEngine

MCLeaves ==
  {Lit(<<"string", "a">>), Lit(<<"boolean", TRUE>>), Lit(<<"boolean", FALSE>>),
   Lit(<<"number", 2>>), Lit(<<"number", 3>>)}
MCOperands ==
  MCLeaves \cup
  {Bin(">", Lit(<<"number", 3>>), Lit(<<"number", 2>>)),
   Bin(">", Lit(<<"number", 2>>), Lit(<<"number", 3>>)),
   Not(Lit(<<"boolean", TRUE>>)),
   Bin("==", Lit(<<"string", "a">>), Lit(<<"number", 2>>))}
=============================================================================
