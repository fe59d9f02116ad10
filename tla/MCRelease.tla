----------------------------- MODULE MCRelease -----------------------------
(* Small instances of Release: the API, which is started and saves          *)
(* settings, and a unit that is only installed, as tmail-janitor.service.   *)
EXTENDS Release

CONSTANTS api, janitor

TwoUnits    == {api, janitor}
InOrder     == <<api, janitor>>
OnlyApi     == {api}
=============================================================================
