------------------------------ MODULE MCUhttpd ------------------------------
(***************************************************************************)
(* Instances of module Uhttpd for TLC.                                     *)
(***************************************************************************)
EXTENDS Uhttpd
=============================================================================
