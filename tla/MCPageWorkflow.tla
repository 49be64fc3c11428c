--------------------------- MODULE MCPageWorkflow ---------------------------
(* PageWorkflow, as it stands: invocations end within their lease.        *)
EXTENDS PageWorkflow
=============================================================================
