--------------------------- MODULE CommandDriver ---------------------------
(***************************************************************************)
(* What is sent to a miner on its API port to change something: the chain  *)
(* of sleep or wake commands, the recovery attempt of the watchdog with    *)
(* its escalation to a reboot, and the diagnosis of the command line.  One *)
(* operation at a time; a reply may be read, be unreadable or be lost, and *)
(* a command may not arrive.                                               *)
(***************************************************************************)
EXTENDS Firmware

CONSTANTS
    SleepChain,  \* sleep_commands
    WakeChain,   \* wake_commands
    Mechanisms   \* values of recover_with

AnyCommand == [name : STRING, arg : STRING]

ASSUME ChainConstants ==
    /\ SleepChain \in Seq(AnyCommand) /\ WakeChain \in Seq(AnyCommand)
    /\ Mechanisms \subseteq {"cgminer", "bitmain_reboot", "auto"}

VARIABLES
    op,         \* the operation: what it is, where it stands, what is left to send
    done,       \* history: the commands and reboots that were carried out
    unread,     \* history: of how many of them the answer could not be parsed
    unanswered  \* history: one of them may have got no answer

driverVars == <<build, machine, op, done, unread, unanswered>>

Chain == [sleep |-> SleepChain, wake |-> WakeChain]

Op(kind, pc, left, with) == [kind |-> kind, pc |-> pc, left |-> left, with |-> with]

DriverInit ==
    /\ build \in Builds /\ machine \in {"mining", "stopped", "sleeping"}
    /\ op = Op("none", "idle", <<>>, "cgminer")
    /\ done = <<>> /\ unread = 0 /\ unanswered = FALSE

At(kind, pc) == op.kind = kind /\ op.pc = pc
Goes(pc)     == op' = [op EXCEPT !.pc = pc]
Ends(how)    == op' = [op EXCEPT !.pc = how, !.left = <<>>]
Sends(left)  == op' = [op EXCEPT !.left = left]

\* The miner is not reached.
Untouched == UNCHANGED <<build, machine, done, unread, unanswered>>

Begins(what) == op.pc = "idle" /\ op' = what /\ Untouched

-----------------------------------------------------------------------------
(* api.request and parse_response of one command.                          *)

Denied   == Refusal("access denied")         \* this host may not ask
Garbled  == Reply("none", "garbled", NoEntry)
NoAnswer == Reply("none", "no answer", NoEntry)

Answers(c) == {Dispatch(c).reply, Denied, Garbled, NoAnswer}

\* Without an answer the command may have arrived or not.
Exchange(c, a) ==
    \/ /\ a # Denied /\ WhyRefused(c) = ""
       /\ machine' = Dispatch(c).machine /\ done' = Append(done, c)
       /\ unread' = unread + (IF a = Garbled THEN 1 ELSE 0)
       /\ unanswered' = (unanswered \/ a = NoAnswer)
       /\ UNCHANGED build
    \/ (a \in {Denied, NoAnswer} \/ WhyRefused(c) # "") /\ Untouched

-----------------------------------------------------------------------------
(* sleep and wake: _try_chain                                              *)

BeginChain(kind) ==
    Begins(Op(kind, IF Chain[kind] = <<>> THEN "failed" ELSE "sending", Chain[kind], "cgminer"))

\* The candidate that is accepted ends it, and so does a transport failure; one
\* that is refused or not understood makes way for the next.
ChainAnswered ==
    /\ op.kind \in DOMAIN Chain /\ op.pc = "sending"
    /\ \E a \in Answers(Head(op.left)) :
          /\ Exchange(Head(op.left), a)
          /\ IF IsOk(a) THEN Ends("ok")
             ELSE IF a = NoAnswer THEN Ends("failed")
             ELSE IF Len(op.left) = 1 THEN Ends("rejected") ELSE Sends(Tail(op.left))

-----------------------------------------------------------------------------
(* recover                                                                 *)

BeginRecovery(with) ==
    Begins(Op("recover", IF with = "bitmain_reboot" THEN "probing" ELSE "restarting", <<>>, with))

\* Mutant: any failure escalates.
AnyFailureEscalates(a) == op.with = "auto"

\* Only a firmware that does not know the command is rebooted instead.
Escalates(a) == op.with = "auto" /\ a.msg = "invalid command"

\* send_restart: S is a success, and nothing else.
RestartAnswered ==
    /\ At("recover", "restarting")
    /\ \E a \in Answers(Plain("restart")) :
          /\ Exchange(Plain("restart"), a)
          /\ IF a.status = "S" THEN Ends("ok")
             ELSE IF Escalates(a) THEN Goes("probing") ELSE Ends("failed")

\* reboot: the web page is read with the password first.
ProbeAnswered == /\ At("recover", "probing") /\ (Goes("rebooting") \/ Ends("failed"))
                 /\ Untouched

\* A miner that sleeps boots back into sleep.
Reboots == /\ machine' = (IF machine = "sleeping" THEN "sleeping" ELSE "mining")
           /\ done' = Append(done, Plain("reboot")) /\ UNCHANGED <<build, unread>>

\* _reboot_blocking: accepted; an HTTP error; no connection, which counts as
\* sent; no answer, which is a success only when the budget of `reboot` runs
\* out before the request does.
RebootAnswered ==
    /\ At("recover", "rebooting")
    /\ \/ Ends("ok") /\ Reboots /\ UNCHANGED unanswered
       \/ Ends("failed") /\ Untouched
       \/ Ends("ok") /\ UNCHANGED <<build, machine, done, unread>> /\ unanswered' = TRUE
       \/ (Ends("failed") \/ Ends("ok")) /\ Reboots /\ unanswered' = TRUE

-----------------------------------------------------------------------------
(* diagnose_write of the cgminer driver                                    *)

DiagnoseCommands == {"ascset", "pause", "resume", "restart", "quit", "config", "stats"}

\* The commands of a chain that are in `chosen`, in its order.
Only(chain, chosen) ==
    LET kept[n \in 0..Len(chain)] ==
            IF n = 0 THEN <<>>
            ELSE IF chain[n] \in chosen THEN Append(kept[n - 1], chain[n]) ELSE kept[n - 1]
    IN  kept[Len(chain)]

\* _by_check asks which commands exist and may be called, and tries the
\* candidates that do; a question that fails rules its command out.
ByCheck ==
    /\ Dispatch(Command("check", "summary")).reply.msg = "check"
    /\ \E told \in SUBSET DiagnoseCommands :
          LET usable == {name \in told : LET said == Dispatch(Command("check", name)).reply
                                         IN  said.exists /\ said.access}
              tried  == Only(SleepChain, {c \in ToSet(SleepChain) : c.name \in usable})
          IN  Begins(Op("diagnose", IF tried = <<>> THEN "failed" ELSE "trying", tried, "cgminer"))

\* _by_probe sends the candidates of the configuration and the usual ones, also
\* when only the question whether there is a `check` got no answer.
ByProbe ==
    LET usual == <<AscSleep, Plain("pause")>>
        more  == Only(usual, ToSet(usual) \ ToSet(SleepChain))
    IN  Begins(Op("diagnose", "trying", SleepChain \o more, "cgminer"))

\* Mutant: what was accepted is left as it is.
UndoesNothing == Ends("ok")

Undoes == IF WakeChain = <<>> THEN Ends("ok")
          ELSE op' = [op EXCEPT !.pc = "undoing", !.left = WakeChain]

\* _attempt: the first candidate that is accepted is undone; any other, and one
\* whose answer was lost, is passed over.
CandidateAnswered ==
    /\ At("diagnose", "trying")
    /\ \E a \in Answers(Head(op.left)) :
          /\ Exchange(Head(op.left), a)
          /\ IF IsOk(a) THEN Undoes
             ELSE IF Len(op.left) = 1 THEN Ends("rejected") ELSE Sends(Tail(op.left))

\* The first wake command that is answered at all ends it and is reported as
\* sent, also when it was refused.
UndoAnswered ==
    /\ At("diagnose", "undoing")
    /\ \E a \in Answers(Head(op.left)) :
          /\ Exchange(Head(op.left), a)
          /\ IF a.status # "none" THEN Ends(IF IsOk(a) THEN "undone" ELSE "undo refused")
             ELSE IF Len(op.left) = 1 THEN Ends("not undone") ELSE Sends(Tail(op.left))

DriverNext ==
    \/ \E kind \in DOMAIN Chain : BeginChain(kind)
    \/ ChainAnswered
    \/ \E with \in Mechanisms : BeginRecovery(with)
    \/ RestartAnswered \/ ProbeAnswered \/ RebootAnswered
    \/ ByCheck \/ ByProbe \/ CandidateAnswered \/ UndoAnswered

CommandSpec == DriverInit /\ [][DriverNext]_driverVars

-----------------------------------------------------------------------------
\* However a chain ends and whatever became of its answers, the miner carried
\* out one command for each answer that could not be parsed, since the next
\* candidate is sent then, and one more only if that one was accepted or got no
\* answer.  A recovery attempt disturbs the miner once at most: none that
\* restarts is rebooted as well.  A success means it was disturbed, but for a
\* reboot nobody confirmed.
DisturbedOnce ==
    /\ op.kind \in DOMAIN Chain =>
          /\ Len(done) <= unread + (IF op.pc = "ok" \/ unanswered THEN 1 ELSE 0)
          /\ op.pc = "ok" => done # <<>>
    /\ op.kind = "recover" =>
          /\ Len(done) <= 1
          /\ op.pc = "ok" => done # <<>> \/ unanswered

\* "Anything sent is undone": a miner that carried out any command of a
\* diagnosis that is over sleeps only where no wake command is configured,
\* where the wake command was refused, which is reported as sent all the same,
\* where none was answered, or where the answer of the command that put it to
\* sleep was not read.
DiagnosisWakes ==
    op.kind = "diagnose" /\ machine = "sleeping" /\ done # <<>> =>
        \/ op.pc \in {"trying", "undoing"}
        \/ op.pc = "ok" /\ WakeChain = <<>>
        \/ op.pc \in {"undo refused", "not undone"}
        \/ op.pc = "rejected" /\ (unread > 0 \/ unanswered)
=============================================================================
