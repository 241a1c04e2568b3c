---------------------------- MODULE MCEventAudit ----------------------------
(* The instance of EventAudit for TLC.                                     *)
EXTENDS EventAudit
=============================================================================
