----------------------------- MODULE MCConsole -----------------------------
(***************************************************************************)
(* The texts of the run: a short line, and one with a number that does not *)
(* fit behind the letters any more.                                        *)
(***************************************************************************)
EXTENDS Console

SmallFormats ==
  {<<Letter("a"), Letter(NL)>>,
   <<Letter("a"), Letter("b"), Item(<<"-">>, <<"1", "2", "3">>)>>}
=============================================================================
