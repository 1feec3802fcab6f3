---------------------------- MODULE PowerDriver ----------------------------
(***************************************************************************)
(* What the controllers may expect of a driver of minerwatch/backends.py   *)
(* that sets a miner's work mode: an abstract specification.               *)
(*                                                                         *)
(* A command that was asked for stays open while something of it may still *)
(* reach the miner, which may be long after it was answered.  As long as   *)
(* it is open it may switch the mode.  It is answered with success only    *)
(* while the mode is the one asked for.                                    *)
(***************************************************************************)
CONSTANTS
    Commands, \* every sleep and wake that is ever asked for
    Target    \* the mode each of them asks for, of WorkModes

WorkModes == {"normal", "sleep"}

VARIABLES
    mode,   \* the miner's work mode
    answer, \* of each command: what its caller was told
    open,   \* the commands that may still switch the mode
    rivals  \* history: of each answered command, the others that were open
            \* when it was answered or were asked for since

vars == <<mode, answer, open, rivals>>

Answers == {"unasked", "waiting", "ok", "failed", "lost"}

TypeOK == /\ mode \in WorkModes
          /\ answer \in [Commands -> Answers]
          /\ open \subseteq Commands
          /\ rivals \in [Commands -> SUBSET Commands]

Answered(c) == answer[c] \notin {"unasked", "waiting"}

Init == /\ mode = "normal"
        /\ answer = [c \in Commands |-> "unasked"]
        /\ open = {}
        /\ rivals = [c \in Commands |-> {}]

Ask(c) == /\ answer[c] = "unasked"
          /\ answer' = [answer EXCEPT ![c] = "waiting"]
          /\ open' = open \cup {c}
          /\ rivals' = [d \in Commands |-> IF Answered(d) THEN rivals[d] \cup {c}
                                           ELSE rivals[d]]
          /\ UNCHANGED mode

\* Nothing obliges an answered command to be closed, and only that may be.
MayClose(c) == \/ UNCHANGED open
               \/ answer'[c] # "waiting" /\ open' = open \ {c}

Switch(c) == /\ c \in open /\ mode' = Target[c]
             /\ UNCHANGED <<answer, rivals>>
             /\ MayClose(c)

Answer(c, a) == /\ answer[c] = "waiting"
                /\ a = "ok" => mode = Target[c]
                /\ answer' = [answer EXCEPT ![c] = a]
                /\ rivals' = [rivals EXCEPT ![c] = open \ {c}]
                /\ UNCHANGED mode
                /\ MayClose(c)

Close(c) == /\ answer[c] # "waiting" /\ open' = open \ {c}
            /\ UNCHANGED <<mode, answer, rivals>>

\* A process ends with the commands it asked for: nobody is told anything.
Lose(lost) ==
    /\ answer' = [c \in Commands |->
                     IF c \in lost /\ answer[c] = "waiting" THEN "lost" ELSE answer[c]]
    /\ open' \subseteq open /\ open \subseteq open' \cup lost
    /\ rivals' = [c \in Commands |->
                     IF c \in lost /\ answer[c] = "waiting" THEN open \ {c}
                     ELSE rivals[c]]
    /\ UNCHANGED mode

Next == \/ \E c \in Commands : Ask(c) \/ Switch(c) \/ Close(c)
        \/ \E c \in Commands, a \in {"ok", "failed"} : Answer(c, a)
        \/ \E lost \in SUBSET Commands : Lose(lost)

Spec == Init /\ [][Next]_vars

\* A success is true and stays true: only a command that was still open when
\* it was reported, or that was asked for later, undoes it.
SuccessStands ==
    \A c \in Commands :
        answer[c] = "ok" /\ mode # Target[c] =>
            \E d \in rivals[c] : Target[d] = mode
=============================================================================
