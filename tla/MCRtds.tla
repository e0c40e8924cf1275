------------------------------- MODULE MCRtds -------------------------------
(* Two Envoys, two layers, and connections for one of them to reconnect    *)
(* while the other one is connected or not.                                *)
EXTENDS RtdsProps
=============================================================================
