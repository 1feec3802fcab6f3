------------------------------ MODULE MCSleeper ------------------------------
(* Values of the Sleeper's constants for the model-checking runs.          *)
EXTENDS SleeperInvariant

Answer(took, ok) == [took |-> took, ok |-> ok]

Effective   == Answer(TRUE, TRUE)
LostAck     == Answer(TRUE, FALSE)
Refused     == Answer(FALSE, FALSE)
Ineffectual == Answer(FALSE, TRUE)

Honest    == {Effective, LostAck, Refused}
AnyAnswer == {Effective, LostAck, Refused, Ineffectual}
Clear     == {Effective, Refused}
Hollow    == {Ineffectual}

NoFaults  == {}
AnyFault  == {"stopped", "unreachable"}

LiveOnly == {"live"}
AnyMode  == {"live", "rehearsal"}

Night == 4..20        \* off until the window opens at tick 4
Never == {}
=============================================================================
