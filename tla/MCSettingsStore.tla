-------------------------- MODULE MCSettingsStore --------------------------
(* Small instances of SettingsStore for TLC.                                *)
EXTENDS SettingsStore

CONSTANTS standard, first, second       \* settings
=============================================================================
