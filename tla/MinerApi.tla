------------------------------ MODULE MinerApi ------------------------------
(***************************************************************************)
(* One poll of a miner: `summary` is asked for over TCP, the reply comes   *)
(* in any number of segments, with or without the terminator, or not       *)
(* whole, or not at all, and is classified.                                *)
(***************************************************************************)
EXTENDS Firmware

CONSTANTS
    BodyLength,  \* pieces of a reply that may arrive one by one
    MaxMoves     \* bound: times the machine changes by itself

ASSUME ApiAssumption == BodyLength \in Nat \ {0} /\ MaxMoves \in Nat

VARIABLES
    moves,    \* times the machine changed by itself
    exchange, \* "idle", "asked", "reading", or how the request ended
    wire,     \* what is under way to the client
    buf,      \* what read_frame has accumulated
    written,  \* history: the reply that was written, and its machine
    reading   \* what the poll concluded

apiVars == <<build, machine, moves, exchange, wire, buf, written, reading>>

NUL   == 0
Body  == [i \in 1..BodyLength |-> i]
NoReply == [machine |-> "mining", reply |-> Reply("none", "none", NoEntry)]

ApiInit ==
    /\ build \in Builds /\ machine \in MachineStates /\ moves = 0
    /\ exchange = "idle" /\ wire = <<>> /\ buf = <<>>
    /\ written = NoReply /\ reading = "none"

-----------------------------------------------------------------------------
(* Classification.                                                         *)

\* classify_detail of a reply that parses: what the entry says of its state
\* overrides the hashrate, and a refusal is no reading.
Classify(reply) ==
    IF ~IsOk(reply) /\ reply.entry = NoEntry THEN "unreachable"
    ELSE IF reply.entry.says \in {"stopped", "sleeping"} THEN "stopped"
    ELSE IF reply.entry.hashing = "no field" THEN "unreachable"
    ELSE IF reply.entry.hashing = "yes" THEN "mining" ELSE "stopped"

\* A part of a reply is not JSON.
ReadFrame(frame) == IF frame = Body THEN Classify(written.reply) ELSE "unreachable"

Finishes(how, what) == exchange' = how /\ reading' = what

-----------------------------------------------------------------------------
(* Actions.                                                                *)

\* request: the connection is made, or is not.
Request == /\ exchange = "idle"
       /\ \/ exchange' = "asked" /\ UNCHANGED reading
          \/ Finishes("failed", "unreachable")
       /\ UNCHANGED <<build, machine, moves, wire, buf, written>>

\* The firmware answers; one that refuses this host says nothing, or that it
\* denies the access.
Replies ==
    /\ exchange = "asked" /\ exchange' = "reading"
    /\ \/ LET a == Dispatch(Plain("summary"))
          IN  written' = a /\ machine' = a.machine
       \/ written' = [machine |-> machine, reply |-> Refusal("access denied")]
          /\ UNCHANGED machine
    /\ wire' = Body \o (IF build.nul THEN <<NUL>> ELSE <<>>)
    /\ UNCHANGED <<build, moves, buf, reading>>

HangUp == /\ exchange = "asked" /\ exchange' = "reading"
          /\ UNCHANGED <<build, machine, moves, wire, buf, written, reading>>

\* Mutant: what arrives first is the message.
FirstReadIsAll ==
    /\ exchange = "reading"
    /\ \E n \in 1..Len(wire) :
          /\ buf' = SubSeq(wire, 1, n) /\ wire' = SubSeq(wire, n + 1, Len(wire))
          /\ Finishes("framed", ReadFrame(SelectSeq(buf', LAMBDA x : x # NUL)))
    /\ UNCHANGED <<build, machine, moves, written>>

\* A segment arrives; a frame ends at the terminator.
SegmentArrives ==
    /\ exchange = "reading"
    /\ \E n \in 1..Len(wire) :
          /\ buf' = buf \o SubSeq(wire, 1, n) /\ wire' = SubSeq(wire, n + 1, Len(wire))
          /\ IF Contains(buf', NUL)
             THEN Finishes("framed", ReadFrame(SubSeq(buf', 1, Len(buf') - 1)))
             ELSE UNCHANGED <<exchange, reading>>
    /\ UNCHANGED <<build, machine, moves, written>>

\* The peer closes once everything has arrived: that ends a frame too.  When
\* the connection breaks, what is under way is lost, and the end may look the
\* same.
Closes ==
    /\ exchange = "reading" /\ wire' = <<>>
    /\ \/ Finishes("framed", ReadFrame(buf))
       \/ wire # <<>> /\ Finishes("failed", "unreachable")
    /\ UNCHANGED <<build, machine, moves, buf, written>>

\* One budget for the whole read.
TimesOut ==
    /\ exchange \in {"asked", "reading"} /\ Finishes("timed out", "unreachable")
    /\ UNCHANGED <<build, machine, moves, wire, buf, written>>

\* The machine is stopped, slept or started by somebody, or its restart is over.
Moves == /\ moves < MaxMoves /\ moves' = moves + 1 /\ exchange \in {"asked", "reading"}
         /\ machine' \in MachineStates \ {machine}
         /\ UNCHANGED <<build, exchange, wire, buf, written, reading>>

ApiNext == Request \/ Replies \/ HangUp \/ SegmentArrives \/ Closes \/ TimesOut \/ Moves

ApiSpec == ApiInit /\ [][ApiNext]_apiVars

-----------------------------------------------------------------------------
\* A reading is the truth about the machine when it answered, however its
\* reply was cut up.  A reply of which a part was lost, a refusal and silence are
\* no reading; but a reply is neither given up while its rest is under way, nor
\* taken for silence when it arrived whole, also from a build that says no more
\* than stock firmware does.
ReadingIsTrue ==
    /\ reading = "mining" => written.machine = "mining"
    /\ reading = "stopped" => written.machine # "mining"
    /\ reading = "unreachable" /\ exchange = "framed" =>
          \/ written.reply.msg # "ok"
          \/ wire = <<>> /\ \E i \in 1..BodyLength : ~Contains(buf, i)
=============================================================================
