--------------------------- MODULE MCAdapterManager ---------------------------
(***************************************************************************)
(* Values of the constants of AdapterManager for model checking.           *)
(***************************************************************************)
EXTENDS AdapterManager, TLC

CONSTANTS slack, telegram, s1, s2, t1

\* A slack adapter may be connected twice; telegram is there once.
MCNameOf == [i \in Instances |-> IF i = t1 THEN telegram ELSE slack]
=============================================================================
