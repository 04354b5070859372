----------------------------- MODULE MCProcessors -----------------------------
(***************************************************************************)
(* Two processors, in a chain or side by side, with exception handlers of  *)
(* several kinds.                                                          *)
(***************************************************************************)
EXTENDS Processors

ChainOfTwo == <<{}, {1}>>
FatalThenRetry == <<"fatal", "retry">>
CustomThenRetry == <<"custom", "retry">>
OwnHandler == <<1, 2>>
===============================================================================
