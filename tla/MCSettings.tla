----------------------------- MODULE MCSettings -----------------------------
(* The settings alone: the test whose statement they do not keep.            *)
EXTENDS Settings, SettingsSamples
=============================================================================
