---------------------------- MODULE MCSupervisor ----------------------------
(* Values of the Supervisor's constants for the model-checking run.        *)
EXTENDS Supervisor

Answer(took, ok) == [took |-> took, ok |-> ok]

Honest   == {Answer(TRUE, TRUE), Answer(TRUE, FALSE), Answer(FALSE, FALSE)}
Clear    == {Answer(TRUE, TRUE), Answer(FALSE, FALSE)}
Broken   == {"stopped"}
LiveOnly == {"live"}
AnyMode  == {"live", "rehearsal"}
Night    == 2..20
=============================================================================
