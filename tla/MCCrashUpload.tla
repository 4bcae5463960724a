---------------------------- MODULE MCCrashUpload ----------------------------
(* Timeouts for model-checking CrashUpload: none, a time, forever.          *)
EXTENDS CrashUpload

AllTimeouts == {0, 30, -1}
=============================================================================
