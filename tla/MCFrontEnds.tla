---------------------------- MODULE MCFrontEnds ----------------------------
(* The programs of MCDispatch; the builder follows those it can express.    *)
EXTENDS FrontEnds, MCDispatch
=============================================================================
