------------------------- MODULE MCClickHouseBridge -------------------------
(* Instances of ClickHouseBridge for TLC; see the MCBridge*.cfg files.     *)
EXTENDS ClickHouseBridge
=============================================================================
