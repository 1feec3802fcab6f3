------------------------------ MODULE WorkMode ------------------------------
(***************************************************************************)
(* BitmainHttpBackend of minerwatch/backends.py: how the work mode of a    *)
(* miner is set through its web page.                                      *)
(*                                                                         *)
(* A command reads the miner's configuration, posts it back with one field *)
(* changed, and reads it again, for each shape of the document in turn.    *)
(* It runs on a worker thread that cannot be cancelled: when the caller    *)
(* gives up, the worker goes on.  Commands of the service, of its          *)
(* abandoned workers and of the command line reach one miner, which may    *)
(* ignore a write, lose an answer, or show a write late.                   *)
(***************************************************************************)
EXTENDS Naturals

CONSTANTS
    Commands, \* every sleep and wake that is ever asked for
    Target,   \* the mode each of them asks for
    Client,   \* the process that asks for it
    Shapes,   \* how many shapes of the document are tried: write_profile
    Settles,  \* settle_seconds > 0
    MaxStops  \* bound: times a process stops

WorkModes == {"normal", "sleep"}

ASSUME WorkModeConstants ==
    /\ Target \in [Commands -> WorkModes]
    /\ Commands = DOMAIN Client
    /\ Shapes \in {1, 2}
    /\ Settles \in BOOLEAN
    /\ MaxStops \in Nat

VARIABLES
    mode,   \* the miner's work mode, as a read of its configuration shows it
    late,   \* the writes the miner has accepted and does not show yet
    stage,  \* of each command: where its worker is
    tried,  \* of each command: how many shapes its worker has posted
    answer, \* of each command: what its caller was told
    doubt,  \* history: the commands that met a read nobody answered, raised, or
            \* were given up
    rivals, \* history: see PowerDriver
    stops

worker == <<stage, tried>>
vars   == <<mode, late, worker, answer, doubt, rivals, stops>>

Stages == {"idle", "read", "post", "verify", "settle", "done"}

TypeOK ==
    /\ mode \in WorkModes
    /\ late \subseteq Commands \X (1..Shapes)
    /\ stage \in [Commands -> Stages]
    /\ tried \in [Commands -> 0..Shapes]
    /\ answer \in [Commands -> {"unasked", "waiting", "ok", "failed", "lost"}]
    /\ doubt \subseteq Commands
    /\ rivals \in [Commands -> SUBSET Commands]
    /\ stops \in 0..MaxStops

Running(c) == stage[c] \notin {"idle", "done"}

\* The commands of which something may still reach the miner.
Open == {c \in Commands : Running(c) \/ \E w \in late : w[1] = c}

Init == /\ mode = "normal" /\ late = {}
        /\ stage = [c \in Commands |-> "idle"]
        /\ tried = [c \in Commands |-> 0]
        /\ answer = [c \in Commands |-> "unasked"]
        /\ doubt = {} /\ rivals = [c \in Commands |-> {}]
        /\ stops = 0

-----------------------------------------------------------------------------
(* The caller: `_set_mode`.                                                *)

Answered(c) == answer[c] \notin {"unasked", "waiting"}

\* A process awaits one command at a time.
Ask(c) == /\ answer[c] = "unasked"
          /\ \A d \in Commands : Client[d] = Client[c] => answer[d] # "waiting"
          /\ answer' = [answer EXCEPT ![c] = "waiting"]
          /\ stage' = [stage EXCEPT ![c] = "read"]
          /\ rivals' = [d \in Commands |-> IF Answered(d) THEN rivals[d] \cup {c}
                                           ELSE rivals[d]]
          /\ UNCHANGED <<mode, late, tried, doubt, stops>>

\* Nobody listens to a worker that was given up.
Told(c, a) ==
    IF answer[c] = "waiting"
    THEN /\ answer' = [answer EXCEPT ![c] = a]
         /\ rivals' = [rivals EXCEPT ![c] = Open \ {c}]
    ELSE UNCHANGED <<answer, rivals>>

\* The budget of wait_for is spent; the worker does not notice.
GiveUp(c) == /\ answer[c] = "waiting"
             /\ Told(c, "failed")
             /\ doubt' = doubt \cup {c}
             /\ UNCHANGED <<mode, late, worker, stops>>

\* A process stops.  Killed, it takes its workers with it; interrupted, it
\* drains its executor first and they run to their end, with nobody to tell.
Stop(p) ==
    /\ stops < MaxStops /\ stops' = stops + 1
    /\ LET lost == {c \in Commands : Client[c] = p /\ Running(c)} IN
       /\ lost # {}
       /\ \/ stage' = [c \in Commands |-> IF c \in lost THEN "done" ELSE stage[c]]
          \/ UNCHANGED stage
       /\ answer' = [c \in Commands |-> IF c \in lost /\ answer[c] = "waiting"
                                        THEN "lost" ELSE answer[c]]
       /\ rivals' = [c \in Commands |-> IF c \in lost /\ answer[c] = "waiting"
                                        THEN Open \ {c} ELSE rivals[c]]
    /\ UNCHANGED <<mode, late, tried, doubt>>

-----------------------------------------------------------------------------
(* The worker: `_set_mode_blocking`.                                       *)

Finish(c, a) == /\ stage' = [stage EXCEPT ![c] = "done"]
                /\ Told(c, a)

\* Mutant: what the miner answered to the write is believed.
Believed(c) == TRUE

\* A read of the configuration shows the mode asked for.
Verified(c) == mode = Target[c]

\* The opening read; a miner that is in the mode already is left alone.
ReadConf(c) ==
    /\ stage[c] = "read"
    /\ \/ /\ mode = Target[c] /\ Finish(c, "ok")
          /\ UNCHANGED doubt
       \/ /\ mode # Target[c] /\ stage' = [stage EXCEPT ![c] = "post"]
          /\ UNCHANGED <<answer, rivals, doubt>>
       \/ /\ Finish(c, "failed")
          /\ doubt' = doubt \cup {c}
    /\ UNCHANGED <<mode, late, tried, stops>>

\* Mutant: one shape too many is tried.
OneMore(c) == tried[c] <= Shapes

MoreShapes(c) == tried[c] < Shapes

\* The next shape is posted: the miner may ignore the write, apply it, or
\* accept it and show it late.  Whether it answers with success makes no
\* difference, the mode is read again in either case.
Post(c) ==
    LET n == tried[c] + 1 IN
    /\ stage[c] = "post"
    /\ tried' = [tried EXCEPT ![c] = n]
    /\ stage' = [stage EXCEPT ![c] = "verify"]
    /\ \/ UNCHANGED <<mode, late>>
       \/ mode' = Target[c] /\ UNCHANGED late
       \/ late' = late \cup {<<c, n>>} /\ UNCHANGED mode
    /\ UNCHANGED <<answer, doubt, rivals, stops>>

\* A read that did not confirm the write: the next shape, or the last look
\* after the settle, or none.
Unconfirmed(c) ==
    IF MoreShapes(c)
    THEN stage' = [stage EXCEPT ![c] = "post"] /\ UNCHANGED <<answer, rivals>>
    ELSE IF Settles
    THEN stage' = [stage EXCEPT ![c] = "settle"] /\ UNCHANGED <<answer, rivals>>
    ELSE Finish(c, "failed")

\* A reply to the write or to the read may break off, or be no document: that
\* raises an exception which only `_set_mode` catches, and the command fails
\* without another read.
Raises(c) == Finish(c, "failed") /\ doubt' = doubt \cup {c}

Verify(c) ==
    /\ stage[c] = "verify"
    /\ \/ Verified(c) /\ Finish(c, "ok") /\ UNCHANGED doubt
       \/ ~Verified(c) /\ Unconfirmed(c) /\ UNCHANGED doubt
       \/ Unconfirmed(c) /\ doubt' = doubt \cup {c}
       \/ Raises(c)
    /\ UNCHANGED <<mode, late, tried, stops>>

\* Mutant: the settle is over before the miner has shown the write.
Hasty(c) == TRUE

\* What this command wrote has had the time to show.
Settled(c) == \A w \in late : w[1] # c

LastLook(c) ==
    /\ stage[c] = "settle" /\ Settled(c)
    /\ \/ Verified(c) /\ Finish(c, "ok") /\ UNCHANGED doubt
       \/ ~Verified(c) /\ Finish(c, "failed") /\ UNCHANGED doubt
       \/ Raises(c)
    /\ UNCHANGED <<mode, late, tried, stops>>

\* The miner shows a write.
Show(w) == /\ w \in late
           /\ late' = late \ {w}
           /\ mode' = Target[w[1]]
           /\ UNCHANGED <<worker, answer, doubt, rivals, stops>>

Next == \/ \E c \in Commands : \/ Ask(c) \/ GiveUp(c)
                               \/ ReadConf(c) \/ Post(c) \/ Verify(c) \/ LastLook(c)
        \/ \E p \in {Client[c] : c \in Commands} : Stop(p)
        \/ \E w \in late : Show(w)

Spec == Init /\ [][Next]_vars

-----------------------------------------------------------------------------
(***************************************************************************)
(* What the driver promises.                                               *)
(***************************************************************************)

\* Driver!Spec: a command switches the mode only while it is open, and is
\* answered with success only while the mode is the one asked for.
Driver == INSTANCE PowerDriver WITH open <- Open

DriverSpec == Driver!Spec

\* A success is true and stays true, also with workers that were given up and
\* with writes that show late: only a command that was still open when it was
\* reported, or that was asked for later, undoes it.
SuccessStands == Driver!SuccessStands

\* A failure that every read confirmed is one: "slow to show, not lost" is
\* caught by the last look, so if the mode changes after all, another command
\* that was open or asked for later did it.
FailureStands ==
    Settles =>
        \A c \in Commands \ doubt :
            answer[c] = "failed" /\ mode = Target[c] =>
                \E d \in rivals[c] : Target[d] = mode
=============================================================================
