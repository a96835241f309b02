--------------------------- MODULE TonRequestsMC ---------------------------
(* TonRequests on small instances: one or two requests for one payment,    *)
(* chain time in single steps.                                             *)
EXTENDS TonRequests

InStep == {0}
Skewed == {-1, 0, 1}
=============================================================================
