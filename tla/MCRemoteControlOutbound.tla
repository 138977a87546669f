----------------------- MODULE MCRemoteControlOutbound -----------------------
(***************************************************************************)
(* A small instance of RemoteControlOutbound.                              *)
(***************************************************************************)
EXTENDS RemoteControlOutbound
=============================================================================
