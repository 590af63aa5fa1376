--------------------------- MODULE MCSettingsForm ---------------------------
(* Instances of SettingsForm for TLC.  slash is a value that is trimmed when  *)
(* it is saved, as the trailing slash of ServerAddress; it is stored as a.    *)
EXTENDS SettingsForm

CONSTANTS a, slash, f, g

TrimSlash == [v \in {a, slash} |-> a]
=============================================================================
