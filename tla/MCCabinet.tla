----------------------------- MODULE MCCabinet ------------------------------
(***************************************************************************)
(* A small machine for Cabinet: three empty ports on two hubs, the first   *)
(* of each among them.                                                     *)
(***************************************************************************)
EXTENDS Cabinet

MCEmpty == {<<"a", 1>>, <<"b", 1>>, <<"b", 2>>}
=============================================================================
