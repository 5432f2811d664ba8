----------------------------- MODULE MCPluginClient -----------------------------
(***************************************************************************)
(* PluginClient for TLC: pipes that hold one message, so that both ends    *)
(* meet full ones with few calls.                                          *)
(***************************************************************************)
EXTENDS PluginClient, TLC

AllFaults == {"dies", "hangs", "prints"}
Hangs == {"hangs"}
================================================================================
