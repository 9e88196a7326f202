-------------------------- MODULE NfeIssuanceState --------------------------
(***************************************************************************)
(* The table of NfeIssuanceStateMachine: the statuses that may follow each *)
(* status of an NF-e issuance.  No service of the repository consults it;  *)
(* its unit tests state it as the rule for an issuance.                    *)
(***************************************************************************)

ALLOWED(status) ==
  CASE status = "draft"              -> {"validated", "failed"}
    [] status = "validated"          -> {"xml_generated", "failed"}
    [] status = "xml_generated"      -> {"xsd_validated", "validation_failed", "failed"}
    [] status = "validation_failed"  -> {"draft"}
    [] status = "xsd_validated"      -> {"signed", "failed"}
    [] status = "signed"             -> {"submission_pending", "failed"}
    [] status = "submission_pending" -> {"submitted", "failed"}
    [] status = "submitted"          -> {"processing", "authorized", "rejected", "denied", "failed"}
    [] status = "processing"         -> {"authorized", "rejected", "denied", "failed"}
    [] status = "rejected"           -> {"draft"}
    [] status = "authorized"         -> {"cancellation_pending"}
    [] status = "cancellation_pending" -> {"cancelled", "authorized"}
    [] OTHER                         -> {}

\* NfeIssuanceStateMachine.transition accepts the step.
Transition(current, target) == target \in ALLOWED(current)
=============================================================================
