---------------------------- MODULE DriverProofs ----------------------------
(***************************************************************************)
(* What is sent to a miner keeps its promises, for any number of commands, *)
(* processes and stops: WorkMode implements PowerDriver, and a failure     *)
(* that every read confirmed stands; a chain of commands or a recovery     *)
(* attempt disturbs the miner once, and a diagnosis undoes what it sent;   *)
(* what a poll concludes from a reply is true of the machine that wrote    *)
(* it; and the search for the shape of a write finds the first that takes. *)
(***************************************************************************)
EXTENDS WorkMode, MinerApi, CommandDriver, WriteShapes, SequenceTheorems, TLAPS

E == INSTANCE EventLogProofs

-----------------------------------------------------------------------------
(* Types.                                                                  *)

\* What the caller is told is recorded, and nothing else of the two changes.
LEMMA ToldType ==
    ASSUME TypeOK, NEW c \in Commands, NEW a \in {"ok", "failed"}, Told(c, a)
    PROVE  /\ answer' \in [Commands -> {"unasked", "waiting", "ok", "failed", "lost"}]
           /\ rivals' \in [Commands -> SUBSET Commands]
<1>1. Open \subseteq Commands
  BY DEF Open
<1>2. Open \ {c} \in SUBSET Commands
  BY <1>1
<1> QED
  BY <1>2 DEF Told, TypeOK

\* A worker that ends keeps the types.
LEMMA FinishType ==
    ASSUME TypeOK, NEW c \in Commands, NEW a \in {"ok", "failed"}, Finish(c, a)
    PROVE  /\ stage' \in [Commands -> Stages]
           /\ answer' \in [Commands -> {"unasked", "waiting", "ok", "failed", "lost"}]
           /\ rivals' \in [Commands -> SUBSET Commands]
<1>1. stage' \in [Commands -> Stages]
  BY DEF Finish, TypeOK, Stages
<1> QED
  BY <1>1, ToldType DEF Finish

\* A read that confirmed nothing keeps the types.
LEMMA UnconfirmedType ==
    ASSUME TypeOK, NEW c \in Commands, Unconfirmed(c)
    PROVE  /\ stage' \in [Commands -> Stages]
           /\ answer' \in [Commands -> {"unasked", "waiting", "ok", "failed", "lost"}]
           /\ rivals' \in [Commands -> SUBSET Commands]
           /\ stage'[c] = "post" => MoreShapes(c)
<1>1. CASE MoreShapes(c)
  BY <1>1 DEF Unconfirmed, TypeOK, Stages
<1>2. CASE ~MoreShapes(c) /\ Settles
  BY <1>2 DEF Unconfirmed, TypeOK, Stages
<1>3. CASE ~MoreShapes(c) /\ ~Settles
  <2>1. Finish(c, "failed")
    BY <1>3 DEF Unconfirmed
  <2>2. stage'[c] # "post"
    BY <2>1 DEF Finish, TypeOK
  <2> QED
    BY <2>1, <2>2, FinishType
<1> QED
  BY <1>1, <1>2, <1>3

\* What a command was told fits the stage of its worker, and the worker has
\* posted as many shapes as its stage allows.
WorkersFit ==
    \A c \in Commands :
        /\ answer[c] = "unasked" => stage[c] = "idle"
        /\ answer[c] = "waiting" => Running(c)
        /\ stage[c] \in {"idle", "read"} => tried[c] = 0
        /\ stage[c] = "post" => MoreShapes(c)

\* A worker that ends leaves nobody waiting, and touches no other command.
LEMMA FinishFits ==
    ASSUME TypeOK, WorkersFit, UNCHANGED tried,
           NEW c \in Commands, NEW a \in {"ok", "failed"}, stage[c] # "idle", Finish(c, a)
    PROVE  WorkersFit'
<1>1. /\ stage'[c] = "done" /\ \A d \in Commands \ {c} : stage'[d] = stage[d]
  BY DEF Finish, TypeOK
<1>2. /\ answer'[c] \notin {"unasked", "waiting"}
      /\ \A d \in Commands \ {c} : answer'[d] = answer[d]
  BY DEF Finish, Told, TypeOK, WorkersFit
<1> QED
  BY <1>1, <1>2 DEF WorkersFit, Running, MoreShapes

LEMMA TypeInit ==
    Init => TypeOK /\ WorkersFit
<1>1. 0 \in 0..Shapes /\ 0 \in 0..MaxStops
  BY WorkModeConstants DEF WorkModeConstants
<1>2. /\ WorkModes = {"normal", "sleep"}
      /\ Stages = {"idle", "read", "post", "verify", "settle", "done"}
  BY DEF WorkModes, Stages
<1> QED
  BY <1>1, <1>2 DEF Init, TypeOK, WorkersFit, Running

\* The types a step keeps.
LEMMA TypeStep ==
    ASSUME TypeOK, WorkersFit, [Next]_vars
    PROVE  TypeOK' /\ WorkersFit'
<1> USE DEF TypeOK, WorkersFit, MoreShapes, Running
<1>0. /\ Shapes \in Nat /\ 0 < Shapes
      /\ \A c \in Commands : tried[c] \in Nat /\ Target[c] \in WorkModes
      /\ MaxStops \in Nat /\ stops \in Nat
  BY WorkModeConstants DEF WorkModeConstants
<1>1. ASSUME NEW c \in Commands, Ask(c)
      PROVE  TypeOK' /\ WorkersFit'
  <2>1. stage' \in [Commands -> Stages]
    BY <1>1 DEF Ask, Stages
  <2>2. rivals' \in [Commands -> SUBSET Commands]
    BY <1>1 DEF Ask
  <2>3. answer' \in [Commands -> {"unasked", "waiting", "ok", "failed", "lost"}]
    BY <1>1 DEF Ask
  <2>4. WorkersFit'
    BY <1>1 DEF Ask
  <2> QED
    BY <1>1, <2>1, <2>2, <2>3, <2>4 DEF Ask
<1>2. ASSUME NEW c \in Commands, GiveUp(c)
      PROVE  TypeOK' /\ WorkersFit'
  <2>1. Told(c, "failed")
    BY <1>2 DEF GiveUp
  <2>2. /\ UNCHANGED <<stage, tried>> /\ answer'[c] = "failed"
        /\ \A d \in Commands \ {c} : answer'[d] = answer[d]
        /\ answer[c] = "waiting"
    BY <1>2, <2>1 DEF GiveUp, Told, worker
  <2>3. WorkersFit'
    BY <2>2
  <2> QED
    BY <1>2, <2>1, <2>3, ToldType DEF GiveUp, worker
<1>3. ASSUME NEW c \in Commands, ReadConf(c)
      PROVE  TypeOK' /\ WorkersFit'
  <2>1. stage[c] = "read" /\ tried' = tried /\ tried[c] = 0
    BY <1>3 DEF ReadConf
  <2>2. CASE Finish(c, "ok") \/ Finish(c, "failed")
    <3>2. WorkersFit'
      BY <2>1, <2>2, FinishFits
    <3> QED
      BY <1>3, <2>2, <3>2, FinishType DEF ReadConf
  <2>3. CASE stage' = [stage EXCEPT ![c] = "post"] /\ UNCHANGED <<answer, rivals, doubt>>
    <3>1. stage' \in [Commands -> Stages]
      BY <2>3 DEF Stages
    <3>2. WorkersFit'
      <4>1. MoreShapes(c)'
        BY <1>0, <2>1
      <4>2. stage'[c] = "post" /\ \A d \in Commands \ {c} : stage'[d] = stage[d]
        BY <2>3
      <4>3. answer' = answer /\ answer[c] # "unasked"
        BY <2>1, <2>3
      <4> QED
        BY <2>1, <4>1, <4>2, <4>3
    <3> QED
      BY <1>3, <2>3, <3>1, <3>2 DEF ReadConf
  <2> QED
    BY <1>3, <2>2, <2>3 DEF ReadConf
<1>4. ASSUME NEW c \in Commands, Post(c)
      PROVE  TypeOK' /\ WorkersFit'
  <2>1. stage' \in [Commands -> Stages]
    BY <1>4 DEF Post, Stages
  <2>2. tried[c] + 1 \in 1..Shapes
    BY <1>0, <1>4 DEF Post
  <2>3. tried' \in [Commands -> 0..Shapes]
    BY <1>4, <2>2 DEF Post
  <2>4. late' \subseteq Commands \X (1..Shapes)
    BY <1>4, <2>2 DEF Post
  <2>5. WorkersFit'
    BY <1>4 DEF Post
  <2>6. mode' \in WorkModes
    BY <1>0, <1>4 DEF Post
  <2> QED
    BY <1>4, <2>1, <2>3, <2>4, <2>5, <2>6 DEF Post
<1>5. ASSUME NEW c \in Commands, Verify(c)
      PROVE  TypeOK' /\ WorkersFit'
  <2>1. CASE Finish(c, "ok") \/ Finish(c, "failed")
    <3>2. WorkersFit'
      BY <1>5, <2>1, FinishFits DEF Verify
    <3> QED
      BY <1>5, <2>1, <3>2, FinishType DEF Verify, Raises
  <2>2. CASE Unconfirmed(c) /\ ~Finish(c, "failed")
    <3>1. /\ stage' = [stage EXCEPT ![c] = IF MoreShapes(c) THEN "post" ELSE "settle"]
          /\ UNCHANGED <<answer, rivals>>
      BY <2>2 DEF Unconfirmed
    <3>2. WorkersFit'
      BY <1>5, <3>1 DEF Verify
    <3> QED
      BY <1>5, <2>2, <3>2, UnconfirmedType DEF Verify, Raises
  <2> QED
    BY <1>5, <2>1, <2>2 DEF Verify, Raises
<1>6. ASSUME NEW c \in Commands, LastLook(c)
      PROVE  TypeOK' /\ WorkersFit'
  <2>1. Finish(c, "ok") \/ Finish(c, "failed")
    BY <1>6 DEF LastLook, Raises
  <2>3. WorkersFit'
    BY <1>6, <2>1, FinishFits DEF LastLook
  <2> QED
    BY <1>6, <2>1, <2>3, FinishType DEF LastLook, Raises
<1>7. ASSUME NEW p, Stop(p)
      PROVE  TypeOK' /\ WorkersFit'
  <2> DEFINE lost == {c \in Commands : Client[c] = p /\ Running(c)}
  <2>1. stage' \in [Commands -> Stages]
    BY <1>7 DEF Stop, Stages
  <2>2. answer' \in [Commands -> {"unasked", "waiting", "ok", "failed", "lost"}]
    BY <1>7 DEF Stop
  <2>3. rivals' \in [Commands -> SUBSET Commands]
    BY <1>7 DEF Stop, Open
  <2>4. WorkersFit'
    BY <1>7 DEF Stop, Running
  <2>5. stops' \in 0..MaxStops
    BY <1>0, <1>7 DEF Stop
  <2> QED
    BY <1>7, <2>1, <2>2, <2>3, <2>4, <2>5 DEF Stop
<1>8. ASSUME NEW w \in late, Show(w)
      PROVE  TypeOK' /\ WorkersFit'
  <2>1. w[1] \in Commands
    BY <1>8
  <2> QED
    BY <1>0, <1>8, <2>1 DEF Show, worker
<1>9. CASE UNCHANGED vars
  BY <1>9 DEF vars, worker
<1> QED
  BY <1>1, <1>2, <1>3, <1>4, <1>5, <1>6, <1>7, <1>8, <1>9 DEF Next

\* The state of the caller, of the workers and of the miner has its type.
THEOREM TypeCorrect == Spec => []TypeOK
<1>1. Spec => [](TypeOK /\ WorkersFit)
  BY TypeInit, TypeStep, PTL DEF Spec
<1> QED
  BY <1>1, PTL

-----------------------------------------------------------------------------
(* Every step of WorkMode is a step of PowerDriver, or none.               *)

\* Writes are of commands.
LEMMA OpenIsTyped ==
    ASSUME TypeOK
    PROVE  /\ Open \subseteq Commands
           /\ \A w \in late : w[1] \in Open
  BY DEF TypeOK, Open

\* A worker that ends answers its caller, if it has one, and is open after that
\* only through what it wrote and does not show.
LEMMA FinishRefines ==
    ASSUME TypeOK, WorkersFit, UNCHANGED <<mode, late>>,
           NEW c \in Commands, NEW a \in {"ok", "failed"},
           Running(c), a = "ok" => mode = Target[c], Finish(c, a)
    PROVE  [Driver!Next]_(Driver!vars)
<1>1. Open' = Open \/ Open' = Open \ {c}
  BY DEF Finish, Open, Running, TypeOK
<1>2. c \in Open
  BY DEF Open
<1>3. CASE answer[c] = "waiting"
  <2>1. answer' = [answer EXCEPT ![c] = a] /\ answer'[c] # "waiting"
        /\ rivals' = [rivals EXCEPT ![c] = Open \ {c}]
    BY <1>3 DEF Finish, Told, TypeOK
  <2>2. Driver!Answer(c, a)
    BY <1>1, <1>3, <2>1 DEF Driver!Answer, Driver!MayClose
  <2> QED
    BY <2>2 DEF Driver!Next
<1>4. CASE answer[c] # "waiting"
  <2>1. UNCHANGED <<answer, rivals>>
    BY <1>4 DEF Finish, Told
  <2>2. CASE Open' = Open
    BY <2>1, <2>2 DEF Driver!vars
  <2>3. CASE Open' = Open \ {c}
    BY <1>4, <2>1, <2>3 DEF Driver!Close, Driver!Next
  <2> QED
    BY <1>1, <2>2, <2>3
<1> QED
  BY <1>3, <1>4

\* Every action of WorkMode is an action of PowerDriver, or none of its steps.
LEMMA StepRefines ==
    ASSUME TypeOK, WorkersFit, [Next]_vars
    PROVE  [Driver!Next]_(Driver!vars)
<1> USE OpenIsTyped
<1>1. ASSUME NEW c \in Commands, Ask(c)
      PROVE  Driver!Next
  <2>1. Open' = Open \cup {c}
    BY <1>1 DEF Ask, Open, Running, TypeOK
  <2>2. Driver!Ask(c)
    BY <1>1, <2>1 DEF Ask, Driver!Ask, Answered, Driver!Answered
  <2> QED
    BY <2>2 DEF Driver!Next
<1>2. ASSUME NEW c \in Commands, GiveUp(c)
      PROVE  Driver!Next
  <2>1. /\ answer[c] = "waiting" /\ answer' = [answer EXCEPT ![c] = "failed"]
        /\ rivals' = [rivals EXCEPT ![c] = Open \ {c}]
        /\ UNCHANGED <<mode, late, stage, tried>>
    BY <1>2 DEF GiveUp, Told, worker
  <2>2. Open' = Open
    BY <2>1 DEF Open, Running
  <2>3. Driver!Answer(c, "failed")
    BY <2>1, <2>2 DEF Driver!Answer, Driver!MayClose
  <2> QED
    BY <2>3 DEF Driver!Next
<1>3. ASSUME NEW c \in Commands, Running(c), UNCHANGED <<mode, late, answer, rivals>>,
             Running(c)', \A d \in Commands \ {c} : stage'[d] = stage[d]
      PROVE  UNCHANGED Driver!vars
  <2>1. Open' = Open
    BY <1>3 DEF Open, Running
  <2> QED
    BY <1>3, <2>1 DEF Driver!vars
<1>4. ASSUME NEW c \in Commands, ReadConf(c)
      PROVE  [Driver!Next]_(Driver!vars)
  <2>1. Running(c) /\ UNCHANGED <<mode, late, tried>>
    BY <1>4 DEF ReadConf, Running
  <2>2. CASE mode = Target[c] /\ Finish(c, "ok")
    BY <2>1, <2>2, FinishRefines
  <2>3. CASE Finish(c, "failed")
    BY <2>1, <2>3, FinishRefines
  <2>4. CASE stage' = [stage EXCEPT ![c] = "post"] /\ UNCHANGED <<answer, rivals, doubt>>
    BY <1>3, <2>1, <2>4 DEF Running, TypeOK
  <2> QED
    BY <1>4, <2>2, <2>3, <2>4 DEF ReadConf
<1>5. ASSUME NEW c \in Commands, Post(c)
      PROVE  [Driver!Next]_(Driver!vars)
  <2>1. /\ Running(c) /\ Running(c)' /\ \A d \in Commands \ {c} : stage'[d] = stage[d]
        /\ UNCHANGED <<answer, rivals>>
    BY <1>5 DEF Post, Running, TypeOK
  <2>2. Open' = Open /\ c \in Open
    <3>1. late' = late \/ late' = late \cup {<<c, tried[c] + 1>>}
      BY <1>5 DEF Post
    <3>2. \A d \in Commands : Running(d)' <=> Running(d)
      BY <2>1 DEF Running
    <3>3. \A d \in Commands \ {c} : (\E w \in late' : w[1] = d) <=> \E w \in late : w[1] = d
      BY <3>1
    <3> QED
      BY <2>1, <3>2, <3>3 DEF Open
  <2>3. CASE UNCHANGED mode
    BY <2>1, <2>2, <2>3 DEF Driver!vars
  <2>4. CASE mode' = Target[c]
    BY <2>1, <2>2, <2>4 DEF Driver!Switch, Driver!MayClose, Driver!Next
  <2> QED
    BY <1>5, <2>3, <2>4 DEF Post
<1>6. ASSUME NEW c \in Commands, Verify(c)
      PROVE  [Driver!Next]_(Driver!vars)
  <2>1. Running(c) /\ UNCHANGED <<mode, late, tried>>
    BY <1>6 DEF Verify, Running
  <2>2. CASE Verified(c) /\ Finish(c, "ok")
    BY <2>1, <2>2, FinishRefines DEF Verified
  <2>3. CASE Finish(c, "failed")
    BY <2>1, <2>3, FinishRefines
  <2>4. CASE Unconfirmed(c) /\ ~Finish(c, "failed")
    <3>1. /\ stage' = [stage EXCEPT ![c] = IF MoreShapes(c) THEN "post" ELSE "settle"]
          /\ UNCHANGED <<answer, rivals>>
      BY <2>4 DEF Unconfirmed
    <3> QED
      BY <1>3, <2>1, <3>1 DEF Running, TypeOK
  <2> QED
    BY <1>6, <2>2, <2>3, <2>4 DEF Verify, Raises
<1>7. ASSUME NEW c \in Commands, LastLook(c)
      PROVE  [Driver!Next]_(Driver!vars)
  <2>1. Running(c) /\ UNCHANGED <<mode, late, tried>>
    BY <1>7 DEF LastLook, Running
  <2>2. CASE Verified(c) /\ Finish(c, "ok")
    BY <2>1, <2>2, FinishRefines DEF Verified
  <2>3. CASE Finish(c, "failed")
    BY <2>1, <2>3, FinishRefines
  <2> QED
    BY <1>7, <2>2, <2>3 DEF LastLook, Raises
<1>8. ASSUME NEW p, Stop(p)
      PROVE  Driver!Next
  <2> DEFINE lost == {c \in Commands : Client[c] = p /\ Running(c)}
  <2>1. lost \in SUBSET Commands
    OBVIOUS
  <2>2. Open' \subseteq Open /\ Open \subseteq Open' \cup lost
    BY <1>8 DEF Stop, Open, Running, TypeOK
  <2>3. Driver!Lose(lost)
    BY <1>8, <2>2 DEF Stop, Driver!Lose
  <2> QED
    BY <2>1, <2>3 DEF Driver!Next
<1>9. ASSUME NEW w \in late, Show(w)
      PROVE  Driver!Next
  <2> DEFINE c == w[1]
  <2>1. c \in Commands /\ c \in Open /\ mode' = Target[c]
        /\ UNCHANGED <<stage, tried, answer, rivals>>
    BY <1>9 DEF Show, worker
  <2>2. Open' = Open \/ (Open' = Open \ {c} /\ ~Running(c))
    BY <1>9, <2>1 DEF Show, Open, Running
  <2>3. answer'[c] # "waiting" \/ Running(c)
    BY <2>1 DEF WorkersFit
  <2>4. Driver!Switch(c)
    BY <2>1, <2>2, <2>3 DEF Driver!Switch, Driver!MayClose
  <2> QED
    BY <2>1, <2>4 DEF Driver!Next
<1>10. CASE UNCHANGED vars
  BY <1>10 DEF vars, worker, Driver!vars, Open, Running
<1> QED
  BY <1>1, <1>2, <1>4, <1>5, <1>6, <1>7, <1>8, <1>9, <1>10 DEF Next

\* The driver's promise: it switches the mode only for a command that is open,
\* and answers with success only while the mode is the one asked for.
THEOREM Refinement == Spec => DriverSpec
<1>1. Init => Driver!Init
  BY DEF Init, Driver!Init, Open, Running
<1>2. Spec => [](TypeOK /\ WorkersFit)
  BY TypeInit, TypeStep, PTL DEF Spec
<1> QED
  BY <1>1, <1>2, StepRefines, PTL DEF Spec, DriverSpec, Driver!Spec

-----------------------------------------------------------------------------
(* What a driver that keeps its promise may be relied upon for.            *)

\* Whoever may still switch the mode is a rival of every answered command.
RivalsAreKnown == \A c \in Commands : Answered(c) => Open \ {c} \subseteq rivals[c]

\* The mode changes to what an open command asked for.
LEMMA SwitchedByOpen ==
    ASSUME [Driver!Next]_(Driver!vars)
    PROVE  mode' = mode \/ \E d \in Open : Target[d] = mode'
<1>1. CASE Driver!Next
  <2>1. ASSUME NEW c \in Commands, Driver!Switch(c)
        PROVE  \E d \in Open : Target[d] = mode'
    BY <2>1 DEF Driver!Switch
  <2> QED
    BY <1>1, <2>1 DEF Driver!Next, Driver!Ask, Driver!Close, Driver!Answer, Driver!Lose
<1>2. CASE UNCHANGED Driver!vars
  BY <1>2 DEF Driver!vars
<1> QED
  BY <1>1, <1>2

\* A command that has been answered keeps its answer and its rivals.
LEMMA AnsweredStays ==
    ASSUME TypeOK, [Driver!Next]_(Driver!vars),
           NEW c \in Commands, Answered(c)
    PROVE  answer'[c] = answer[c] /\ rivals[c] \subseteq rivals'[c]
<1> USE DEF TypeOK, Answered
<1>1. ASSUME NEW d \in Commands, Driver!Ask(d)
      PROVE  answer'[c] = answer[c] /\ rivals[c] \subseteq rivals'[c]
  BY <1>1 DEF Driver!Ask, Driver!Answered
<1>2. ASSUME NEW d \in Commands, Driver!Switch(d) \/ Driver!Close(d)
      PROVE  answer'[c] = answer[c] /\ rivals[c] \subseteq rivals'[c]
  BY <1>2 DEF Driver!Switch, Driver!Close
<1>3. ASSUME NEW d \in Commands, NEW a \in {"ok", "failed"}, Driver!Answer(d, a)
      PROVE  answer'[c] = answer[c] /\ rivals[c] \subseteq rivals'[c]
  BY <1>3 DEF Driver!Answer
<1>4. ASSUME NEW lost \in SUBSET Commands, Driver!Lose(lost)
      PROVE  answer'[c] = answer[c] /\ rivals[c] \subseteq rivals'[c]
  BY <1>4 DEF Driver!Lose
<1>5. CASE UNCHANGED Driver!vars
  BY <1>5 DEF Driver!vars
<1> QED
  BY <1>1, <1>2, <1>3, <1>4, <1>5 DEF Driver!Next

\* The others that are open are known when a command is answered, and whoever
\* opens later is asked for later.
LEMMA RivalsStayKnown ==
    ASSUME TypeOK, RivalsAreKnown, [Driver!Next]_(Driver!vars)
    PROVE  RivalsAreKnown'
<1> USE DEF TypeOK, RivalsAreKnown, Answered
<1>1. ASSUME NEW c \in Commands, Driver!Ask(c)
      PROVE  RivalsAreKnown'
  BY <1>1 DEF Driver!Ask, Driver!Answered
<1>2. ASSUME NEW c \in Commands, Driver!Switch(c) \/ Driver!Close(c)
      PROVE  RivalsAreKnown'
  BY <1>2 DEF Driver!Switch, Driver!Close, Driver!MayClose
<1>3. ASSUME NEW c \in Commands, NEW a \in {"ok", "failed"}, Driver!Answer(c, a)
      PROVE  RivalsAreKnown'
  BY <1>3 DEF Driver!Answer, Driver!MayClose
<1>4. ASSUME NEW lost \in SUBSET Commands, Driver!Lose(lost)
      PROVE  RivalsAreKnown'
  BY <1>4 DEF Driver!Lose
<1>5. CASE UNCHANGED Driver!vars
  BY <1>5 DEF Driver!vars
<1> QED
  BY <1>1, <1>2, <1>3, <1>4, <1>5 DEF Driver!Next

\* A command is newly answered with success only while the mode is its own.
LEMMA SuccessIsSeen ==
    ASSUME TypeOK, [Driver!Next]_(Driver!vars),
           NEW c \in Commands, ~Answered(c), answer'[c] = "ok"
    PROVE  mode = Target[c] /\ mode' = mode
<1> USE DEF TypeOK, Answered
<1>1. ASSUME NEW d \in Commands, NEW a \in {"ok", "failed"}, Driver!Answer(d, a)
      PROVE  mode = Target[c] /\ mode' = mode
  BY <1>1 DEF Driver!Answer
<1>2. ~ \E d \in Commands : Driver!Ask(d) \/ Driver!Switch(d) \/ Driver!Close(d)
  BY DEF Driver!Ask, Driver!Switch, Driver!Close
<1>3. ~ \E lost \in SUBSET Commands : Driver!Lose(lost)
  BY DEF Driver!Lose
<1>4. ~ UNCHANGED Driver!vars
  BY DEF Driver!vars
<1> QED
  BY <1>1, <1>2, <1>3, <1>4 DEF Driver!Next

LEMMA SuccessKept ==
    ASSUME TypeOK, RivalsAreKnown, SuccessStands, [Driver!Next]_(Driver!vars)
    PROVE  SuccessStands'
<1> SUFFICES ASSUME NEW c \in Commands, answer'[c] = "ok", mode' # Target[c]
             PROVE  \E d \in rivals'[c] : Target[d] = mode'
  BY DEF SuccessStands, Driver!SuccessStands
<1>1. Answered(c) /\ answer[c] = "ok" /\ rivals[c] \subseteq rivals'[c]
  BY SuccessIsSeen, AnsweredStays
<1>2. CASE mode' = mode
  BY <1>1, <1>2 DEF SuccessStands, Driver!SuccessStands
<1>3. CASE mode' # mode
  <2>1. PICK d \in Open : Target[d] = mode'
    BY <1>3, SwitchedByOpen
  <2>2. d # c
    BY <2>1
  <2> QED
    BY <1>1, <2>1, <2>2 DEF RivalsAreKnown
<1> QED
  BY <1>2, <1>3

\* A success is true and stays true: only a command that was still open when it
\* was reported, or that was asked for later, undoes it.
THEOREM SuccessIsKept == Spec => []SuccessStands
<1>1. Init => RivalsAreKnown /\ SuccessStands
  BY DEF Init, RivalsAreKnown, Answered, SuccessStands, Driver!SuccessStands
<1>2. Spec => [](TypeOK /\ WorkersFit /\ RivalsAreKnown /\ SuccessStands)
  BY <1>1, TypeInit, TypeStep, StepRefines, RivalsStayKnown, SuccessKept, PTL DEF Spec
<1> QED
  BY <1>2, PTL

-----------------------------------------------------------------------------
(* A failure that every read confirmed.                                    *)

\* With a settle, a command outside of `doubt` has failed only after its last
\* look, when everything it wrote has shown.
FailedIsOver ==
    Settles => \A c \in Commands \ doubt : answer[c] = "failed" => c \notin Open

\* Such a failure is reported at the last look only.
LEMMA FailureIsSeen ==
    ASSUME TypeOK, WorkersFit, [Next]_vars, Settles,
           NEW c \in Commands, answer[c] # "failed", answer'[c] = "failed", c \notin doubt'
    PROVE  c \notin Open' /\ mode' = mode /\ mode # Target[c]
<1> USE DEF TypeOK
<1>1. ASSUME NEW d \in Commands, Ask(d)
      PROVE  FALSE
  BY <1>1 DEF Ask
<1>2. ASSUME NEW d \in Commands, GiveUp(d)
      PROVE  FALSE
  BY <1>2 DEF GiveUp, Told
<1>3. ASSUME NEW d \in Commands, ReadConf(d)
      PROVE  FALSE
  BY <1>3 DEF ReadConf, Finish, Told
<1>4. ASSUME NEW d \in Commands, Verify(d)
      PROVE  FALSE
  <2>1. CASE Finish(d, "ok")
    BY <2>1 DEF Finish, Told
  <2>2. CASE Unconfirmed(d)
    BY <2>2 DEF Unconfirmed
  <2>3. CASE Raises(d)
    BY <2>3 DEF Raises, Finish, Told
  <2> QED
    BY <1>4, <2>1, <2>2, <2>3 DEF Verify
<1>5. ASSUME NEW d \in Commands, LastLook(d)
      PROVE  c \notin Open' /\ mode' = mode /\ mode # Target[c]
  <2>1. CASE Finish(d, "ok")
    BY <2>1 DEF Finish, Told
  <2>2. CASE Raises(d)
    BY <2>2 DEF Raises, Finish, Told
  <2>3. CASE ~Verified(d) /\ Finish(d, "failed")
    <3>1. d = c
      BY <2>3 DEF Finish, Told
    <3>2. stage'[c] = "done" /\ UNCHANGED <<mode, late>> /\ Settled(c)
      BY <1>5, <2>3, <3>1 DEF LastLook, Finish
    <3> QED
      BY <2>3, <3>1, <3>2 DEF Verified, Settled, Open, Running
  <2> QED
    BY <1>5, <2>1, <2>2, <2>3 DEF LastLook
<1>6. ~ \E d \in Commands : Post(d)
  BY DEF Post
<1>7. ~ \E p : Stop(p)
  BY DEF Stop
<1>8. ~ \E w \in late : Show(w)
  BY DEF Show
<1>9. ~ UNCHANGED vars
  BY DEF vars
<1> QED
  BY <1>1, <1>2, <1>3, <1>4, <1>5, <1>6, <1>7, <1>8, <1>9 DEF Next

\* Doubt is not taken back.
LEMMA DoubtStays ==
    ASSUME [Next]_vars
    PROVE  doubt \subseteq doubt'
<1>1. ASSUME NEW c \in Commands, Ask(c) \/ GiveUp(c) \/ Post(c)
      PROVE  doubt \subseteq doubt'
  BY <1>1 DEF Ask, GiveUp, Post
<1>2. ASSUME NEW c \in Commands, ReadConf(c) \/ Verify(c) \/ LastLook(c)
      PROVE  doubt \subseteq doubt'
  BY <1>2 DEF ReadConf, Verify, LastLook, Raises
<1>3. ASSUME NEW p, Stop(p)
      PROVE  doubt \subseteq doubt'
  BY <1>3 DEF Stop
<1>4. ASSUME NEW w, Show(w)
      PROVE  doubt \subseteq doubt'
  BY <1>4 DEF Show
<1>5. CASE UNCHANGED vars
  BY <1>5 DEF vars
<1> QED
  BY <1>1, <1>2, <1>3, <1>4, <1>5 DEF Next

\* Only a command that is asked for opens.
LEMMA OpenedByAsking ==
    ASSUME [Driver!Next]_(Driver!vars), NEW c \in Commands, c \in Open', c \notin Open
    PROVE  answer[c] = "unasked"
<1>1. ASSUME NEW d \in Commands, Driver!Ask(d)
      PROVE  answer[c] = "unasked"
  BY <1>1 DEF Driver!Ask
<1>2. ~ \E d \in Commands : Driver!Switch(d) \/ Driver!Close(d)
  BY DEF Driver!Switch, Driver!Close, Driver!MayClose
<1>3. ~ \E d \in Commands, a \in {"ok", "failed"} : Driver!Answer(d, a)
  BY DEF Driver!Answer, Driver!MayClose
<1>4. ~ \E lost \in SUBSET Commands : Driver!Lose(lost)
  BY DEF Driver!Lose
<1>5. ~ UNCHANGED Driver!vars
  BY DEF Driver!vars
<1> QED
  BY <1>1, <1>2, <1>3, <1>4, <1>5 DEF Driver!Next

LEMMA FailureKept ==
    ASSUME TypeOK, WorkersFit, RivalsAreKnown, FailedIsOver, FailureStands, [Next]_vars
    PROVE  FailedIsOver' /\ FailureStands'
<1> SUFFICES ASSUME Settles, NEW c \in Commands, c \notin doubt', answer'[c] = "failed"
             PROVE  /\ c \notin Open'
                    /\ mode' = Target[c] => \E d \in rivals'[c] : Target[d] = mode'
  BY DEF FailedIsOver, FailureStands
<1>1. [Driver!Next]_(Driver!vars)
  BY StepRefines
<1>2. CASE answer[c] # "failed"
  BY <1>2, FailureIsSeen
<1>3. CASE answer[c] = "failed"
  <2>1. c \notin doubt /\ c \notin Open /\ rivals[c] \subseteq rivals'[c]
    BY <1>1, <1>3, DoubtStays, AnsweredStays DEF FailedIsOver, Answered
  <2>2. c \notin Open'
    BY <1>1, <1>3, <2>1, OpenedByAsking
  <2>3. CASE mode' = mode
    BY <1>3, <2>1, <2>2, <2>3 DEF FailureStands
  <2>4. CASE mode' # mode
    <3>1. PICK d \in Open : Target[d] = mode'
      BY <1>1, <2>4, SwitchedByOpen
    <3>2. d \in rivals[c]
      BY <1>3, <2>1, <3>1 DEF RivalsAreKnown, Answered
    <3> QED
      BY <2>1, <2>2, <3>1, <3>2
  <2> QED
    BY <2>3, <2>4
<1> QED
  BY <1>2, <1>3

\* A failure that every read confirmed is one: if the mode changes after all,
\* another command that was open or asked for later did it.
THEOREM FailureIsKept == Spec => []FailureStands
<1>1. Init => RivalsAreKnown /\ FailedIsOver /\ FailureStands
  BY DEF Init, RivalsAreKnown, Answered, FailedIsOver, FailureStands
<1>2. Spec => [](TypeOK /\ WorkersFit /\ RivalsAreKnown /\ FailedIsOver /\ FailureStands)
  BY <1>1, TypeInit, TypeStep, StepRefines, RivalsStayKnown, FailureKept, PTL DEF Spec
<1> QED
  BY <1>2, PTL

-----------------------------------------------------------------------------
(***************************************************************************)
(* One command and its answer.                                             *)
(***************************************************************************)

\* Whatever is sent: what the configuration names, and the usual commands.
Sendable == AnyCommand \cup {AscSleep, Plain("pause"), Plain("restart"), Plain("reboot")}

LEMMA ReplyOf ==
    ASSUME NEW c
    PROVE  /\ WhyRefused(c) = "" => /\ Dispatch(c).reply.status \in {"S", "I"}
                                    /\ Dispatch(c).reply.msg \in {"ok", "check"}
                                    /\ Dispatch(c).machine = Effect(c)
           /\ WhyRefused(c) # "" => Dispatch(c).reply = Refusal(WhyRefused(c))
BY DEF Dispatch, CheckReply, Reply

\* An answer that is accepted was given by a miner that carried the command out
\* once; after any other the miner is as it was, or the answer was its own and
\* could not be parsed, or there was none.
LEMMA Exchanged ==
    ASSUME NEW c \in Sendable, NEW a \in Answers(c), Exchange(c, a),
           done \in Seq(Sendable), unread \in Nat, unanswered \in BOOLEAN
    PROVE  /\ done' \in {done, Append(done, c)} /\ done' \in Seq(Sendable)
           /\ unread' \in {unread, unread + 1} /\ unread' \in Nat
           /\ unanswered' \in BOOLEAN
           /\ unanswered => unanswered'
           /\ IsOk(a) => /\ done' = Append(done, c) /\ machine' = Effect(c)
                         /\ UNCHANGED <<unread, unanswered>>
           /\ ~IsOk(a) => \/ UNCHANGED <<done, unread, unanswered>>
                          \/ a # NoAnswer /\ unread' = unread + 1 /\ UNCHANGED unanswered
                          \/ a = NoAnswer /\ UNCHANGED unread /\ unanswered'
           /\ a.msg = "invalid command" => done' = done /\ ~IsOk(a)
           /\ a.status = "S" => IsOk(a)
<1>1. \/ a = Dispatch(c).reply
      \/ a \in {Denied, Garbled, NoAnswer}
  BY DEF Answers
<1>2. /\ \A b \in {Denied, Garbled, NoAnswer} :
            ~IsOk(b) /\ b.msg # "invalid command" /\ b.status # "S"
      /\ Garbled # NoAnswer
  <2>1. Denied.status = "E" /\ Denied.msg = "access denied"
    BY DEF Denied, Refusal, Reply
  <2>2. /\ Garbled.status = "none" /\ Garbled.msg = "garbled"
        /\ NoAnswer.status = "none" /\ NoAnswer.msg = "no answer"
    BY DEF Garbled, NoAnswer, Reply
  <2> QED
    BY <2>1, <2>2 DEF IsOk
<1>3. \A why : ~IsOk(Refusal(why)) /\ Refusal(why).msg = why /\ Refusal(why).status = "E"
  BY DEF Refusal, Reply, IsOk
<1>4. a.status = "S" => IsOk(a)
  BY DEF IsOk
<1>5. CASE Untouched /\ (a \in {Denied, NoAnswer} \/ WhyRefused(c) # "")
  <2>1. ~IsOk(a)
    BY <1>1, <1>2, <1>3, <1>5, ReplyOf
  <2> QED
    BY <1>4, <1>5, <2>1 DEF Untouched
<1>6. CASE /\ a # Denied /\ WhyRefused(c) = ""
           /\ machine' = Dispatch(c).machine /\ done' = Append(done, c)
           /\ unread' = unread + (IF a = Garbled THEN 1 ELSE 0)
           /\ unanswered' = (unanswered \/ a = NoAnswer)
  <2>1. /\ Dispatch(c).reply.status \in {"S", "I"}
        /\ Dispatch(c).reply.msg \in {"ok", "check"} /\ machine' = Effect(c)
    BY <1>6, ReplyOf
  <2>2. Append(done, c) \in Seq(Sendable)
    OBVIOUS
  <2>6. /\ a = Garbled => unread' = unread + 1
        /\ a # Garbled => unread' = unread
    <3>1. unread' = unread + (IF a = Garbled THEN 1 ELSE 0)
      BY <1>6, Zenon
    <3> QED
      BY <3>1
  <2>7. /\ a = NoAnswer => unanswered'
        /\ a # NoAnswer => unanswered' = unanswered
    BY <1>6, Zenon
  <2>8. done' = Append(done, c) /\ Append(done, c) \in Seq(Sendable) /\ machine' = Effect(c)
    BY <1>6, <2>1, <2>2, Zenon
  <2>9. unread' \in {unread, unread + 1} /\ unread' \in Nat
    BY <2>6
  <2>10. unanswered' \in BOOLEAN /\ (unanswered => unanswered')
    BY <1>6, Zenon
  <2>3. CASE a = Dispatch(c).reply
    <3>1. IsOk(a) /\ a.msg # "invalid command"
      BY <2>1, <2>3 DEF IsOk
    <3>2. a \notin {Garbled, NoAnswer}
      BY <1>2, <3>1
    <3> QED
      BY <1>4, <2>8, <2>9, <2>10, <2>6, <2>7, <3>1, <3>2, Zenon
  <2>4. CASE a = Garbled
    <3>1. ~IsOk(a) /\ a.msg # "invalid command" /\ a # NoAnswer
      BY <1>2, <2>4
    <3> QED
      BY <1>4, <2>8, <2>9, <2>10, <2>4, <2>6, <2>7, <3>1, Zenon
  <2>5. CASE a = NoAnswer
    <3>1. ~IsOk(a) /\ a.msg # "invalid command" /\ a # Garbled
      BY <1>2, <2>5
    <3> QED
      BY <1>4, <2>8, <2>9, <2>10, <2>5, <2>6, <2>7, <3>1, Zenon
  <2> QED
    BY <1>1, <1>6, <2>3, <2>4, <2>5
<1> QED
  BY <1>5, <1>6 DEF Exchange

-----------------------------------------------------------------------------
(***************************************************************************)
(* The operations.                                                         *)
(***************************************************************************)

OpStages == {"idle", "sending", "restarting", "probing", "rebooting", "trying", "undoing",
           "ok", "failed", "rejected", "undone", "undo refused", "not undone"}

Operations ==
    [kind : {"none", "sleep", "wake", "recover", "diagnose"}, pc : OpStages,
     left : Seq(Sendable), with : {"cgminer", "bitmain_reboot", "auto"}]

\* A command that wakes a sleeping miner when it is carried out.
Wakes(c) == c = AscWake \/ c.name \in {"resume", "restart"}

\* No wake command of the configuration is accepted and does not wake.
WakeChainWakes == \A i \in 1..Len(WakeChain) : Wakes(WakeChain[i])

\* Of a command that was carried out the answer was not read.
Obscured == unread > 0 \/ unanswered

\* An operation that has just begun has done nothing.  One that still looks for
\* a command that is accepted has done what it could not read the answers of,
\* and a recovery attempt nothing before its last command.  What a diagnosis
\* sends after its candidate wakes the miner.
CommandInv ==
    /\ op \in Operations /\ done \in Seq(Sendable)
    /\ unread \in Nat /\ unanswered \in BOOLEAN
    /\ op.pc = "idle" => done = <<>> /\ unread = 0 /\ ~unanswered
    /\ op.pc = "sending" => /\ op.kind \in {"sleep", "wake"} /\ op.left # <<>>
                            /\ Len(done) <= unread /\ ~unanswered
    /\ op.pc \in {"restarting", "probing", "rebooting"} => op.kind = "recover" /\ done = <<>>
    /\ op.pc = "trying" => /\ op.kind = "diagnose" /\ op.left # <<>>
                           /\ done = <<>> \/ Obscured
    /\ op.pc = "undoing" =>
          /\ op.kind = "diagnose" /\ op.left # <<>>
          /\ WakeChainWakes => \A i \in 1..Len(op.left) : Wakes(op.left[i])

PromisesKept == CommandInv /\ DisturbedOnce /\ (WakeChainWakes => DiagnosisWakes)

LEMMA ChainKinds == DOMAIN Chain = {"sleep", "wake"}
BY DEF Chain

LEMMA Appended ==
    ASSUME NEW S, NEW s \in Seq(S), NEW e \in S
    PROVE  /\ Append(s, e) # <<>>
           /\ s = <<>> => Len(Append(s, e)) = 1
           /\ s = <<>> => Len(s) <= 1
<1>1. Len(Append(s, e)) = Len(s) + 1 /\ Len(s) \in Nat
  OBVIOUS
<1>2. Len(<<>>) = 0
  OBVIOUS
<1> QED
  BY <1>1, <1>2

\* Where an operation goes.
LEMMA Moved ==
    ASSUME op \in Operations
    PROVE  /\ \A how \in OpStages : Ends(how) =>
                 op' \in Operations /\ op'.pc = how /\ op'.kind = op.kind
           /\ \A how \in OpStages : Goes(how) =>
                 op' \in Operations /\ op'.pc = how /\ op'.kind = op.kind /\ op'.left = op.left
           /\ Sends(Tail(op.left)) /\ op.left # <<>> /\ Len(op.left) # 1 =>
                 /\ op' \in Operations /\ op'.pc = op.pc /\ op'.kind = op.kind
                 /\ op'.left = Tail(op.left) /\ op'.left # <<>>
<1>1. <<>> \in Seq(Sendable)
  OBVIOUS
<1>2. \A how \in OpStages : Ends(how) => op' \in Operations /\ op'.pc = how /\ op'.kind = op.kind
  BY <1>1 DEF Ends, Operations
<1>3. \A how \in OpStages : Goes(how) =>
         op' \in Operations /\ op'.pc = how /\ op'.kind = op.kind /\ op'.left = op.left
  BY DEF Goes, Operations
<1>4. ASSUME Sends(Tail(op.left)), op.left # <<>>, Len(op.left) # 1
      PROVE  /\ op' \in Operations /\ op'.pc = op.pc /\ op'.kind = op.kind
             /\ op'.left = Tail(op.left) /\ op'.left # <<>>
  <2>1. op.left \in Seq(Sendable)
    BY DEF Operations
  <2>2. Tail(op.left) \in Seq(Sendable) /\ Len(Tail(op.left)) = Len(op.left) - 1
        /\ Len(op.left) \in Nat /\ Len(op.left) # 0
    BY <1>4, <2>1
  <2>4. Len(<<>>) = 0
    OBVIOUS
  <2>3. Tail(op.left) # <<>>
    <3> SUFFICES ASSUME Tail(op.left) = <<>> PROVE FALSE
      OBVIOUS
    <3>1. Len(Tail(op.left)) = 0
      BY <2>4
    <3> QED
      BY <1>4, <2>2, <3>1
  <2> QED
    BY <1>4, <2>2, <2>3 DEF Sends, Operations
<1> QED
  BY <1>2, <1>3, <1>4

\* An exchange disturbs the miner once at most.
LEMMA Lengthened ==
    ASSUME NEW S, NEW s \in Seq(S), NEW e \in S, NEW t \in {s, Append(s, e)}
    PROVE  Len(t) \in {Len(s), Len(s) + 1} /\ (t # s => t # <<>>) /\ Len(s) \in Nat
BY Appended

LEMMA ChainAnsweredKeeps ==
    ASSUME PromisesKept, ChainAnswered
    PROVE  PromisesKept'
<1>1. /\ op \in Operations /\ op.pc = "sending" /\ op.kind \in {"sleep", "wake"}
      /\ op.left # <<>> /\ done \in Seq(Sendable)
      /\ unread \in Nat /\ unanswered \in BOOLEAN /\ Len(done) <= unread /\ ~unanswered
  BY DEF PromisesKept, CommandInv, ChainAnswered
<1> DEFINE c == Head(op.left)
<1>2. c \in Sendable
  BY <1>1 DEF Operations
<1>3. PICK a \in Answers(c) :
         /\ Exchange(c, a)
         /\ IF IsOk(a) THEN Ends("ok")
            ELSE IF a = NoAnswer THEN Ends("failed")
            ELSE IF Len(op.left) = 1 THEN Ends("rejected") ELSE Sends(Tail(op.left))
  BY DEF ChainAnswered
<1> HIDE DEF c
<1>4. /\ done' \in {done, Append(done, c)} /\ done' \in Seq(Sendable)
      /\ unread' \in {unread, unread + 1} /\ unanswered' \in BOOLEAN
      /\ IsOk(a) => done' = Append(done, c) /\ UNCHANGED <<unread, unanswered>>
      /\ ~IsOk(a) => \/ UNCHANGED <<done, unread, unanswered>>
                     \/ a # NoAnswer /\ unread' = unread + 1 /\ UNCHANGED unanswered
                     \/ a = NoAnswer /\ UNCHANGED unread /\ unanswered'
  BY <1>1, <1>2, <1>3, Exchanged
<1>5. /\ Len(done') \in {Len(done), Len(done) + 1} /\ Len(done) \in Nat
      /\ Append(done, c) # <<>> /\ unread' \in Nat
  BY <1>1, <1>2, <1>4, Lengthened, Appended
<1>6. CASE IsOk(a) /\ Ends("ok")
  <2>1. op' \in Operations /\ op'.pc = "ok" /\ op'.kind = op.kind
    BY <1>1, <1>6, Moved DEF OpStages
  <2>2. Len(done') <= unread' + 1
    BY <1>1, <1>4, <1>5, <1>6
  <2> QED
    BY <1>1, <1>4, <1>5, <1>6, <2>1, <2>2, ChainKinds
       DEF PromisesKept, CommandInv, Obscured, DisturbedOnce, DiagnosisWakes
<1>7. CASE ~IsOk(a) /\ a = NoAnswer /\ Ends("failed")
  <2>1. op' \in Operations /\ op'.pc = "failed" /\ op'.kind = op.kind
    BY <1>1, <1>7, Moved DEF OpStages
  <2>2. Len(done') <= unread' + (IF unanswered' THEN 1 ELSE 0)
    BY <1>1, <1>4, <1>5, <1>7
  <2> QED
    BY <1>1, <1>4, <1>5, <2>1, <2>2, ChainKinds
       DEF PromisesKept, CommandInv, Obscured, DisturbedOnce, DiagnosisWakes
<1>8. ASSUME ~IsOk(a), a # NoAnswer
      PROVE  Len(done') <= unread' /\ ~unanswered'
  BY <1>1, <1>4, <1>5, <1>8
<1>9. CASE ~IsOk(a) /\ a # NoAnswer /\ Ends("rejected")
  <2>1. op' \in Operations /\ op'.pc = "rejected" /\ op'.kind = op.kind
    BY <1>1, <1>9, Moved DEF OpStages
  <2> QED
    BY <1>1, <1>4, <1>5, <1>8, <1>9, <2>1, ChainKinds
       DEF PromisesKept, CommandInv, Obscured, DisturbedOnce, DiagnosisWakes
<1>10. CASE ~IsOk(a) /\ a # NoAnswer /\ Len(op.left) # 1 /\ Sends(Tail(op.left))
  <2>1. /\ op' \in Operations /\ op'.pc = "sending" /\ op'.kind = op.kind /\ op'.left # <<>>
    BY <1>1, <1>10, Moved
  <2> QED
    BY <1>1, <1>4, <1>5, <1>8, <1>10, <2>1, ChainKinds
       DEF PromisesKept, CommandInv, Obscured, DisturbedOnce, DiagnosisWakes
<1> QED
  BY <1>3, <1>6, <1>7, <1>9, <1>10

LEMMA RestartAnsweredKeeps ==
    ASSUME PromisesKept, RestartAnswered
    PROVE  PromisesKept'
<1>1. /\ op \in Operations /\ op.pc = "restarting" /\ op.kind = "recover"
      /\ done = <<>> /\ unread \in Nat /\ unanswered \in BOOLEAN
  BY DEF PromisesKept, CommandInv, RestartAnswered, At
<1> DEFINE c == Plain("restart")
<1>2. c \in Sendable
  BY DEF Sendable
<1>3. PICK a \in Answers(c) :
         /\ Exchange(c, a)
         /\ IF a.status = "S" THEN Ends("ok")
            ELSE IF Escalates(a) THEN Goes("probing") ELSE Ends("failed")
  BY DEF RestartAnswered
<1> HIDE DEF c
<1>4. /\ done' \in {done, Append(done, c)} /\ done' \in Seq(Sendable)
      /\ unread' \in Nat /\ unanswered' \in BOOLEAN
      /\ a.status = "S" => done' = Append(done, c)
      /\ a.msg = "invalid command" => done' = done
  <2>1. done \in Seq(Sendable) /\ unread \in Nat /\ unanswered \in BOOLEAN
    BY <1>1
  <2> QED
    BY <1>2, <1>3, <2>1, Exchanged
<1>5. Append(done, c) # <<>> /\ Len(Append(done, c)) = 1 /\ Len(done) <= 1
  <2>1. done \in Seq(Sendable)
    BY <1>1
  <2> QED
    BY <1>1, <1>2, <2>1, Appended
<1>6. Len(done') <= 1
  <2>1. CASE done' = done
    BY <1>5, <2>1
  <2>2. CASE done' = Append(done, c)
    BY <1>5, <2>2
  <2> QED
    BY <1>4, <2>1, <2>2
<1>7. CASE a.status = "S" /\ Ends("ok")
  <2>1. op' \in Operations /\ op'.pc = "ok" /\ op'.kind = op.kind
    BY <1>1, <1>7, Moved DEF OpStages
  <2> QED
    BY <1>1, <1>4, <1>5, <1>6, <1>7, <2>1, ChainKinds
       DEF PromisesKept, CommandInv, Obscured, DisturbedOnce, DiagnosisWakes
<1>8. CASE Ends("failed")
  <2>1. op' \in Operations /\ op'.pc = "failed" /\ op'.kind = op.kind
    BY <1>1, <1>8, Moved DEF OpStages
  <2> QED
    BY <1>1, <1>4, <1>6, <2>1, ChainKinds DEF PromisesKept, CommandInv, Obscured, DisturbedOnce, DiagnosisWakes
<1>9. CASE Escalates(a) /\ Goes("probing")
  <2>1. op' \in Operations /\ op'.pc = "probing" /\ op'.kind = op.kind
    BY <1>1, <1>9, Moved DEF OpStages
  <2>2. done' = <<>>
    BY <1>1, <1>4, <1>9 DEF Escalates
  <2> QED
    BY <1>1, <1>4, <1>6, <2>1, <2>2, ChainKinds DEF PromisesKept, CommandInv, Obscured, DisturbedOnce, DiagnosisWakes
<1> QED
  BY <1>3, <1>7, <1>8, <1>9


LEMMA ProbeAnsweredKeeps ==
    ASSUME PromisesKept, ProbeAnswered
    PROVE  PromisesKept'
<1>1. /\ op \in Operations /\ op.pc = "probing" /\ op.kind = "recover" /\ done = <<>>
      /\ UNCHANGED <<machine, done, unread, unanswered>>
  BY DEF PromisesKept, CommandInv, ProbeAnswered, At, Untouched
<1>2. op' \in Operations /\ op'.pc \in {"rebooting", "failed"} /\ op'.kind = op.kind
  BY <1>1, Moved DEF ProbeAnswered, OpStages
<1> QED
  BY <1>1, <1>2, ChainKinds DEF PromisesKept, CommandInv, Obscured, DisturbedOnce, DiagnosisWakes

LEMMA RebootAnsweredKeeps ==
    ASSUME PromisesKept, RebootAnswered
    PROVE  PromisesKept'
<1> DEFINE c == Plain("reboot")
<1>1. /\ op \in Operations /\ op.pc = "rebooting" /\ op.kind = "recover" /\ done = <<>>
      /\ unread \in Nat /\ unanswered \in BOOLEAN
  BY DEF PromisesKept, CommandInv, RebootAnswered, At
<1>2. /\ op' \in Operations /\ op'.pc \in {"ok", "failed"} /\ op'.kind = op.kind
  BY <1>1, Moved DEF RebootAnswered, OpStages
<1>3. /\ done' \in {done, Append(done, c)} /\ unread' \in Nat /\ unanswered' \in BOOLEAN
      /\ op'.pc = "ok" => done' = Append(done, c) \/ unanswered'
  BY <1>1, Moved DEF RebootAnswered, Reboots, OpStages, Untouched
<1>4. c \in Sendable /\ done \in Seq(Sendable)
  BY <1>1 DEF Sendable
<1> HIDE DEF c
<1>5. Append(done, c) \in Seq(Sendable) /\ Append(done, c) # <<>>
      /\ Len(Append(done, c)) = 1 /\ Len(done) <= 1
  BY <1>1, <1>4, Appended
<1>6. done' \in Seq(Sendable) /\ Len(done') <= 1
  <2>1. CASE done' = done
    BY <1>4, <1>5, <2>1
  <2>2. CASE done' = Append(done, c)
    BY <1>5, <2>2
  <2> QED
    BY <1>3, <2>1, <2>2
<1> QED
  BY <1>1, <1>2, <1>3, <1>5, <1>6, ChainKinds
     DEF PromisesKept, CommandInv, Obscured, DisturbedOnce, DiagnosisWakes

-----------------------------------------------------------------------------
(***************************************************************************)
(* Beginning an operation.                                                 *)
(***************************************************************************)

\* What is chosen of a chain is sent in its order, and something is if one of
\* its commands is chosen.
LEMMA OnlyKeeps ==
    ASSUME NEW S, NEW chain \in Seq(S), NEW chosen
    PROVE  /\ Only(chain, chosen) \in Seq(S)
           /\ (\E i \in 1..Len(chain) : chain[i] \in chosen) => Only(chain, chosen) # <<>>
<1> DEFINE N == Len(chain)
           kept[n \in 0..N] ==
               IF n = 0 THEN <<>>
               ELSE IF chain[n] \in chosen THEN Append(kept[n - 1], chain[n]) ELSE kept[n - 1]
           Pass(f) == [n \in 0..N |->
               IF n = 0 THEN <<>>
               ELSE IF chain[n] \in chosen THEN Append(f[n - 1], chain[n]) ELSE f[n - 1]]
           step == [i \in 1..N |-> [s \in Seq(S) |->
                       IF chain[i] \in chosen THEN Append(s, chain[i]) ELSE s]]
<1> HIDE DEF kept, Pass
<1>1. N \in Nat /\ <<>> \in Seq(S) /\ \A i \in 1..N : chain[i] \in S
  OBVIOUS
<1>2. step \in [1..N -> [Seq(S) -> Seq(S)]]
  OBVIOUS
<1>3. PICK f : E!Steps(f, N, Seq(S), <<>>, step)
  <2>1. N \in Nat /\ <<>> \in Seq(S)
    BY <1>1
  <2> HIDE DEF step, N
  <2> QED
    BY <2>1, <1>2, E!Recursion
<1>4. f \in [0..N -> Seq(S)] /\ f[0] = <<>> /\ \A i \in 1..N : f[i] = step[i][f[i - 1]]
  BY <1>3 DEF E!Steps
<1>5. f = Pass(f)
  <2>1. \A i \in 1..N : f[i] = IF chain[i] \in chosen THEN Append(f[i - 1], chain[i]) ELSE f[i - 1]
    <3> TAKE i \in 1..N
    <3>1. i - 1 \in 0..N /\ f[i - 1] \in Seq(S)
      BY <1>1, <1>4
    <3> QED
      BY <1>4, <3>1
  <2> HIDE DEF step
  <2>2. \A n \in 0..N : n = 0 \/ n \in 1..N
    BY <1>1
  <2>3. f = [n \in 0..N |-> f[n]]
    BY <1>4
  <2>4. \A n \in 0..N : f[n] = Pass(f)[n]
    BY <1>4, <2>1, <2>2 DEF Pass
  <2>5. Pass(f) = [n \in 0..N |-> Pass(f)[n]]
    BY DEF Pass
  <2> HIDE DEF N
  <2> QED
    BY <2>3, <2>4, <2>5
<1>6. kept = Pass(kept)
  BY <1>5 DEF kept, Pass
<1>7. /\ kept[0] = <<>>
       /\ \A n \in 1..N : kept[n] = IF chain[n] \in chosen THEN Append(kept[n - 1], chain[n])
                                                            ELSE kept[n - 1]
  <2>1. \A n \in 0..N : kept[n] = IF n = 0 THEN <<>>
               ELSE IF chain[n] \in chosen THEN Append(kept[n - 1], chain[n]) ELSE kept[n - 1]
    BY <1>6 DEF Pass
  <2>2. 0 \in 0..N /\ \A n \in 1..N : n \in 0..N /\ n # 0
    BY <1>1
  <2> QED
    BY <2>1, <2>2
<1> DEFINE Held(n) == /\ kept[n] \in Seq(S)
                      /\ (\E i \in 1..n : chain[i] \in chosen) => kept[n] # <<>>
           T == {n \in Nat : n <= N => Held(n)}
<1>8. 0 \in T
  <2>1. Held(0)
    BY <1>1, <1>7
  <2> QED
    BY <2>1
<1>9. ASSUME NEW n \in Nat, n \in T PROVE n + 1 \in T
  <2> SUFFICES ASSUME n + 1 <= N PROVE Held(n + 1)
    OBVIOUS
  <2>1. kept[n] \in Seq(S) /\ ((\E i \in 1..n : chain[i] \in chosen) => kept[n] # <<>>)
    BY <1>1, <1>9
  <2>2. kept[n + 1] = IF chain[n + 1] \in chosen THEN Append(kept[n], chain[n + 1]) ELSE kept[n]
    BY <1>1, <1>7
  <2>3. chain[n + 1] \in S
    BY <1>1
  <2>4. Append(kept[n], chain[n + 1]) \in Seq(S) /\ Append(kept[n], chain[n + 1]) # <<>>
    BY <2>1, <2>3
  <2>5. \A i \in 1..(n + 1) : i \in 1..n \/ i = n + 1
    BY <1>1
  <2> QED
    BY <2>1, <2>2, <2>4, <2>5
<1>10. Nat \subseteq T
  <2> HIDE DEF T
  <2> QED
    BY <1>8, <1>9, E!SetInduction
<1>11. Held(N)
  BY <1>1, <1>10
<1> QED
  BY <1>11 DEF Only, kept

LEMMA BeginChainKeeps ==
    ASSUME PromisesKept, NEW kind \in DOMAIN Chain, BeginChain(kind)
    PROVE  PromisesKept'
<1>1. kind \in {"sleep", "wake"} /\ Chain[kind] \in Seq(Sendable)
  <2>1. DOMAIN Chain = {"sleep", "wake"} /\ Chain["sleep"] = SleepChain /\ Chain["wake"] = WakeChain
    BY DEF Chain
  <2>2. SleepChain \in Seq(Sendable) /\ WakeChain \in Seq(Sendable)
    BY ChainConstants DEF Sendable
  <2> QED
    BY <2>1, <2>2
<1>2. /\ op.pc = "idle" /\ done = <<>> /\ unread = 0 /\ unanswered = FALSE /\ UNCHANGED <<machine, done, unread, unanswered>>
      /\ op' = Op(kind, IF Chain[kind] = <<>> THEN "failed" ELSE "sending", Chain[kind], "cgminer")
  BY DEF PromisesKept, CommandInv, BeginChain, Begins, Untouched
<1>3. /\ op'.kind = kind /\ op'.left = Chain[kind] /\ op'.pc \in {"failed", "sending"}
      /\ op'.pc = "sending" => op'.left # <<>>
      /\ op' \in Operations
  BY <1>1, <1>2 DEF Op, Operations, OpStages
<1>4. done \in Seq(Sendable) /\ Len(<<>>) = 0
  BY DEF PromisesKept, CommandInv
<1> QED
  BY <1>1, <1>2, <1>3, <1>4, ChainKinds DEF PromisesKept, CommandInv, Obscured, DisturbedOnce, DiagnosisWakes

LEMMA BeginRecoveryKeeps ==
    ASSUME PromisesKept, NEW with \in Mechanisms, BeginRecovery(with)
    PROVE  PromisesKept'
<1>1. /\ op.pc = "idle" /\ done = <<>> /\ unread = 0 /\ unanswered = FALSE /\ UNCHANGED <<machine, done, unread, unanswered>>
      /\ op' = Op("recover", IF with = "bitmain_reboot" THEN "probing" ELSE "restarting", <<>>, with)
  BY DEF PromisesKept, CommandInv, BeginRecovery, Begins, Untouched
<1>2. with \in {"cgminer", "bitmain_reboot", "auto"} /\ <<>> \in Seq(Sendable) /\ Len(<<>>) = 0
  BY ChainConstants
<1>3. op'.kind = "recover" /\ op'.pc \in {"probing", "restarting"} /\ op' \in Operations
  BY <1>1, <1>2 DEF Op, Operations, OpStages
<1> QED
  BY <1>1, <1>2, <1>3, ChainKinds DEF PromisesKept, CommandInv, Obscured, DisturbedOnce, DiagnosisWakes

\* A diagnosis begins with candidates, or has failed already.
LEMMA DiagnosisBegins ==
    ASSUME PromisesKept, NEW candidates \in Seq(Sendable), NEW pc \in {"failed", "trying"},
           pc = "trying" => candidates # <<>>, Begins(Op("diagnose", pc, candidates, "cgminer"))
    PROVE  PromisesKept'
<1>1. /\ op.pc = "idle" /\ done = <<>> /\ unread = 0 /\ unanswered = FALSE /\ UNCHANGED <<machine, done, unread, unanswered>>
      /\ op' = Op("diagnose", pc, candidates, "cgminer")
  BY DEF PromisesKept, CommandInv, Begins, Untouched
<1>2. /\ op'.kind = "diagnose" /\ op'.left = candidates /\ op'.pc = pc /\ op' \in Operations
  BY <1>1 DEF Op, Operations, OpStages
<1>3. done \in Seq(Sendable)
  BY DEF PromisesKept, CommandInv
<1> QED
  BY <1>1, <1>2, <1>3, ChainKinds DEF PromisesKept, CommandInv, Obscured, DisturbedOnce, DiagnosisWakes

LEMMA ByCheckKeeps ==
    ASSUME PromisesKept, ByCheck
    PROVE  PromisesKept'
<1> DEFINE Usable(told) == {name \in told : LET said == Dispatch(Command("check", name)).reply
                                            IN  said.exists /\ said.access}
           Attempted(told) == Only(SleepChain, {c \in ToSet(SleepChain) : c.name \in Usable(told)})
<1>1. PICK told \in SUBSET DiagnoseCommands :
         Begins(Op("diagnose", IF Attempted(told) = <<>> THEN "failed" ELSE "trying",
                   Attempted(told), "cgminer"))
  BY DEF ByCheck
<1>2. Attempted(told) \in Seq(Sendable)
  <2>1. SleepChain \in Seq(Sendable)
    BY ChainConstants DEF Sendable
  <2> QED
    BY <2>1, OnlyKeeps
<1> HIDE DEF Attempted
<1>3. PICK pc \in {"failed", "trying"} :
         /\ pc = "trying" => Attempted(told) # <<>>
         /\ Begins(Op("diagnose", pc, Attempted(told), "cgminer"))
  BY <1>1
<1> QED
  BY <1>2, <1>3, DiagnosisBegins

LEMMA ByProbeKeeps ==
    ASSUME PromisesKept, ByProbe
    PROVE  PromisesKept'
<1> DEFINE usual == <<AscSleep, Plain("pause")>>
           more  == Only(usual, ToSet(usual) \ ToSet(SleepChain))
<1>1. usual \in Seq(Sendable) /\ SleepChain \in Seq(Sendable)
  BY ChainConstants DEF Sendable
<1>2. Begins(Op("diagnose", "trying", SleepChain \o more, "cgminer"))
  BY DEF ByProbe
<1>3. more \in Seq(Sendable)
  <2> HIDE DEF usual
  <2> QED
    BY <1>1, OnlyKeeps
<1>4. SleepChain = <<>> => more # <<>>
  <2> SUFFICES ASSUME SleepChain = <<>> PROVE more # <<>>
    OBVIOUS
  <2>1. usual[1] = AscSleep /\ 1 \in 1..Len(usual) /\ 1 \in DOMAIN usual
    OBVIOUS
  <2>2. ToSet(SleepChain) = {}
    BY DEF ToSet
  <2>3. usual[1] \in ToSet(usual) \ ToSet(SleepChain)
    BY <2>1, <2>2 DEF ToSet
  <2> HIDE DEF usual
  <2> QED
    BY <1>1, <2>1, <2>3, OnlyKeeps
<1> HIDE DEF usual, more
<1>5. SleepChain \o more \in Seq(Sendable) /\ SleepChain \o more # <<>>
  <2>1. /\ SleepChain \o more \in Seq(Sendable)
        /\ Len(SleepChain \o more) = Len(SleepChain) + Len(more)
        /\ Len(SleepChain) \in Nat /\ Len(more) \in Nat
    BY <1>1, <1>3
  <2>2. Len(SleepChain) = 0 => SleepChain = <<>>
    BY <1>1
  <2>3. Len(more) = 0 => more = <<>>
    BY <1>3
  <2>4. Len(<<>>) = 0
    OBVIOUS
  <2>5. Len(SleepChain \o more) # 0
    BY <1>4, <2>1, <2>2, <2>3
  <2>6. SleepChain \o more # <<>>
    BY <2>4, <2>5
  <2> QED
    BY <2>1, <2>6
<1> QED
  BY <1>2, <1>5, DiagnosisBegins

-----------------------------------------------------------------------------
(***************************************************************************)
(* The diagnosis.                                                          *)
(***************************************************************************)

LEMMA CandidateAnsweredKeeps ==
    ASSUME PromisesKept, CandidateAnswered
    PROVE  PromisesKept'
<1>1. /\ op \in Operations /\ op.pc = "trying" /\ op.kind = "diagnose"
      /\ op.left # <<>> /\ done \in Seq(Sendable) /\ unread \in Nat /\ unanswered \in BOOLEAN
      /\ done = <<>> \/ Obscured
  BY DEF PromisesKept, CommandInv, CandidateAnswered, At
<1> DEFINE c == Head(op.left)
<1>2. c \in Sendable
  BY <1>1 DEF Operations
<1>3. PICK a \in Answers(c) :
         /\ Exchange(c, a)
         /\ IF IsOk(a) THEN Undoes
            ELSE IF Len(op.left) = 1 THEN Ends("rejected") ELSE Sends(Tail(op.left))
  BY DEF CandidateAnswered
<1> HIDE DEF c
<1>4. /\ done' \in Seq(Sendable) /\ unread' \in Nat /\ unanswered' \in BOOLEAN
      /\ Obscured => Obscured'
      /\ ~IsOk(a) => done' = done \/ Obscured'
  <2>1. /\ done' \in Seq(Sendable) /\ unread' \in Nat /\ unanswered' \in BOOLEAN
        /\ unread' \in {unread, unread + 1} /\ (unanswered => unanswered')
        /\ ~IsOk(a) => done' = done \/ unread' = unread + 1 \/ unanswered'
    <3>1. done \in Seq(Sendable) /\ unread \in Nat /\ unanswered \in BOOLEAN
      BY <1>1
    <3> QED
      BY <1>2, <1>3, <3>1, Exchanged
  <2> QED
    BY <1>1, <2>1 DEF Obscured
<1>5. CASE IsOk(a) /\ WakeChain = <<>> /\ Ends("ok")
  <2>1. op' \in Operations /\ op'.pc = "ok" /\ op'.kind = op.kind
    BY <1>1, <1>5, Moved DEF OpStages
  <2> QED
    BY <1>1, <1>4, <1>5, <2>1, ChainKinds
       DEF PromisesKept, CommandInv, Obscured, DisturbedOnce, DiagnosisWakes
<1>6. CASE WakeChain # <<>> /\ op' = [op EXCEPT !.pc = "undoing", !.left = WakeChain]
  <2>1. WakeChain \in Seq(Sendable)
    BY ChainConstants DEF Sendable
  <2>2. op' \in Operations /\ op'.pc = "undoing" /\ op'.kind = op.kind /\ op'.left = WakeChain
    BY <1>1, <1>6, <2>1 DEF Operations, OpStages
  <2> QED
    BY <1>1, <1>4, <1>6, <2>2, ChainKinds
       DEF PromisesKept, CommandInv, Obscured, DisturbedOnce, DiagnosisWakes, WakeChainWakes
<1>7. CASE ~IsOk(a) /\ Ends("rejected")
  <2>1. op' \in Operations /\ op'.pc = "rejected" /\ op'.kind = op.kind
    BY <1>1, <1>7, Moved DEF OpStages
  <2>2. done' = <<>> \/ Obscured'
    BY <1>1, <1>4, <1>7
  <2> QED
    BY <1>1, <1>4, <2>1, <2>2, ChainKinds DEF PromisesKept, CommandInv, Obscured, DisturbedOnce, DiagnosisWakes
<1>8. CASE ~IsOk(a) /\ Len(op.left) # 1 /\ Sends(Tail(op.left))
  <2>1. op' \in Operations /\ op'.pc = "trying" /\ op'.kind = op.kind /\ op'.left # <<>>
    BY <1>1, <1>8, Moved
  <2>2. done' = <<>> \/ Obscured'
    BY <1>1, <1>4, <1>8
  <2> QED
    BY <1>1, <1>4, <2>1, <2>2, ChainKinds DEF PromisesKept, CommandInv, Obscured, DisturbedOnce, DiagnosisWakes
<1> QED
  BY <1>3, <1>5, <1>6, <1>7, <1>8 DEF Undoes

LEMMA UndoAnsweredKeeps ==
    ASSUME PromisesKept, UndoAnswered
    PROVE  PromisesKept'
<1>1. /\ op \in Operations /\ op.pc = "undoing" /\ op.kind = "diagnose"
      /\ op.left # <<>> /\ done \in Seq(Sendable) /\ unread \in Nat /\ unanswered \in BOOLEAN
      /\ WakeChainWakes => \A i \in 1..Len(op.left) : Wakes(op.left[i])
  BY DEF PromisesKept, CommandInv, UndoAnswered, At
<1> DEFINE c == Head(op.left)
<1>2. c \in Sendable /\ (WakeChainWakes => Wakes(c))
  <2>1. op.left \in Seq(Sendable)
    BY <1>1 DEF Operations
  <2>2. c = op.left[1] /\ 1 \in 1..Len(op.left) /\ c \in Sendable
    BY <1>1, <2>1
  <2> QED
    BY <1>1, <2>2
<1>3. PICK a \in Answers(c) :
         /\ Exchange(c, a)
         /\ IF a.status # "none" THEN Ends(IF IsOk(a) THEN "undone" ELSE "undo refused")
            ELSE IF Len(op.left) = 1 THEN Ends("not undone") ELSE Sends(Tail(op.left))
  BY DEF UndoAnswered
<1> HIDE DEF c
<1>4. /\ done' \in Seq(Sendable) /\ unread' \in Nat /\ unanswered' \in BOOLEAN
      /\ IsOk(a) => machine' = Effect(c)
  <2>1. done \in Seq(Sendable) /\ unread \in Nat /\ unanswered \in BOOLEAN
    BY <1>1
  <2> QED
    BY <1>2, <1>3, <2>1, Exchanged
<1>5. CASE IsOk(a) /\ Ends("undone")
  <2>1. op' \in Operations /\ op'.pc = "undone" /\ op'.kind = op.kind
    BY <1>1, <1>5, Moved DEF OpStages
  <2>2. Wakes(c) => Effect(c) # "sleeping"
    BY DEF Wakes, Effect, AscWake, AscSleep, Command
  <2> QED
    BY <1>1, <1>2, <1>4, <1>5, <2>1, <2>2, ChainKinds
       DEF PromisesKept, CommandInv, Obscured, DisturbedOnce, DiagnosisWakes
<1>6. CASE Ends("undo refused") \/ Ends("not undone")
  <2>1. op' \in Operations /\ op'.pc \in {"undo refused", "not undone"} /\ op'.kind = op.kind
    BY <1>1, <1>6, Moved DEF OpStages
  <2> QED
    BY <1>1, <1>4, <2>1, ChainKinds DEF PromisesKept, CommandInv, Obscured, DisturbedOnce, DiagnosisWakes
<1>7. CASE Len(op.left) # 1 /\ Sends(Tail(op.left))
  <2>1. /\ op' \in Operations /\ op'.pc = "undoing" /\ op'.kind = op.kind
        /\ op'.left = Tail(op.left) /\ op'.left # <<>>
    BY <1>1, <1>7, Moved
  <2>2. WakeChainWakes => \A i \in 1..Len(op'.left) : Wakes(op'.left[i])
    <3>1. op.left \in Seq(Sendable)
      BY <1>1 DEF Operations
    <3>2. /\ Len(Tail(op.left)) = Len(op.left) - 1 /\ Len(op.left) \in Nat
          /\ \A i \in 1..(Len(op.left) - 1) : Tail(op.left)[i] = op.left[i + 1]
      BY <1>1, <3>1
    <3> QED
      BY <1>1, <2>1, <3>2
  <2> QED
    BY <1>1, <1>4, <2>1, <2>2, ChainKinds DEF PromisesKept, CommandInv, Obscured, DisturbedOnce, DiagnosisWakes
<1> QED
  <2>1. CASE a.status # "none"
    BY <1>3, <1>5, <1>6, <2>1
  <2>2. CASE a.status = "none"
    BY <1>3, <1>6, <1>7, <2>2
  <2> QED
    BY <2>1, <2>2

-----------------------------------------------------------------------------
(***************************************************************************)
(* The theorems.                                                           *)
(***************************************************************************)

LEMMA DriverBegins ==
    ASSUME DriverInit
    PROVE  PromisesKept
<1>1. op = Op("none", "idle", <<>>, "cgminer") /\ done = <<>> /\ unread = 0 /\ unanswered = FALSE
  BY DEF DriverInit
<1>2. <<>> \in Seq(Sendable)
  OBVIOUS
<1>3. op \in Operations /\ op.kind = "none" /\ op.pc = "idle"
  BY <1>1, <1>2 DEF Op, Operations, OpStages
<1> QED
  BY <1>1, <1>2, <1>3, ChainKinds DEF PromisesKept, CommandInv, Obscured, DisturbedOnce, DiagnosisWakes

LEMMA DriverKeeps ==
    ASSUME PromisesKept, [DriverNext]_driverVars
    PROVE  PromisesKept'
<1>1. CASE UNCHANGED driverVars
  BY <1>1 DEF driverVars, PromisesKept, CommandInv, Obscured, DisturbedOnce, DiagnosisWakes
<1>2. ASSUME NEW kind \in DOMAIN Chain, BeginChain(kind) PROVE PromisesKept'
  BY <1>2, BeginChainKeeps
<1>3. ASSUME NEW with \in Mechanisms, BeginRecovery(with) PROVE PromisesKept'
  BY <1>3, BeginRecoveryKeeps
<1> QED
  BY <1>1, <1>2, <1>3, ChainAnsweredKeeps, RestartAnsweredKeeps, ProbeAnsweredKeeps,
     RebootAnsweredKeeps, ByCheckKeeps, ByProbeKeeps, CandidateAnsweredKeeps, UndoAnsweredKeeps
     DEF DriverNext

LEMMA DriverPromises == CommandSpec => []PromisesKept
BY DriverBegins, DriverKeeps, PTL DEF CommandSpec

\* For any chains and mechanisms: a chain carries out one command for each
\* answer that could not be parsed, after which the next is sent, and at most
\* one more, whatever is lost; a recovery attempt disturbs the miner once.
THEOREM CommandsDisturbOnce == CommandSpec => []DisturbedOnce
<1>1. PromisesKept => DisturbedOnce
  BY DEF PromisesKept
<1> QED
  BY <1>1, DriverPromises, PTL

\* For any chains without a wake command that is accepted and does not wake,
\* which nothing checks: a miner that carried out a part of a diagnosis is left
\* asleep only where there is no wake command, where the wake command was
\* refused, although it is reported as sent, where none was answered, or where
\* the answer of the command that slept it was not read.
THEOREM DiagnosisUndoes == ASSUME WakeChainWakes PROVE CommandSpec => []DiagnosisWakes
<1>1. PromisesKept => DiagnosisWakes
  BY DEF PromisesKept
<1> QED
  BY <1>1, DriverPromises, PTL

-----------------------------------------------------------------------------
(***************************************************************************)
(* Readings.                                                               *)
(***************************************************************************)

\* What the reply that was written says of the machine that wrote it.
ReplyIsTrue ==
    /\ Classify(written.reply) \in {"mining", "stopped", "unreachable"}
    /\ Classify(written.reply) = "mining" => written.machine = "mining"
    /\ Classify(written.reply) = "stopped" => written.machine # "mining"
    /\ Classify(written.reply) = "unreachable" => written.reply.msg # "ok"

\* The pieces of a reply in the order they are sent.
Piece(i) == IF i <= BodyLength THEN i ELSE NUL

\* What has arrived and what is under way are the reply, in its order; the
\* terminator has not arrived, or the frame would have ended.
UnderWay ==
    /\ buf \in Seq(Nat) /\ wire \in Seq(Nat)
    /\ Len(buf) <= BodyLength
    /\ Len(buf) + Len(wire) = BodyLength + (IF build.nul THEN 1 ELSE 0)
    /\ \A i \in 1..Len(buf) : buf[i] = i
    /\ \A i \in 1..Len(wire) : wire[i] = Piece(Len(buf) + i)

Silent == buf = <<>> /\ wire = <<>>

ApiInv ==
    /\ exchange \in {"idle", "asked", "reading", "framed", "failed", "timed out"}
    /\ ReplyIsTrue /\ ReadingIsTrue
    /\ exchange \in {"idle", "asked", "reading"} => reading = "none"
    /\ exchange \in {"idle", "asked"} => Silent /\ written = NoReply
    /\ exchange = "reading" => UnderWay \/ (Silent /\ written = NoReply)

LEMMA NoReplyIsSilence ==
    ASSUME written = NoReply
    PROVE  ReplyIsTrue /\ written.reply.msg # "ok"
<1>1. written.reply.status = "none" /\ written.reply.msg = "none" /\ written.reply.entry = NoEntry
  BY DEF NoReply, Reply
<1> QED
  BY <1>1 DEF ReplyIsTrue, Classify, IsOk

\* The summary of a machine is classified as what the machine is.
LEMMA SummaryIsTrue ==
    ASSUME written' = Dispatch(Plain("summary"))
    PROVE  ReplyIsTrue'
<1>1. Plain("summary").name = "summary" /\ Plain("summary") # AscSleep /\ Plain("summary") # AscWake
  BY DEF Plain, Command, AscSleep, AscWake
<1>2. WhyRefused(Plain("summary")) = ""
  BY <1>1 DEF WhyRefused, Sleeping, Known
<1>3. Effect(Plain("summary")) = machine
  BY <1>1 DEF Effect
<1>4. written'.machine = machine /\ written'.reply = Reply("S", "ok", Summary(machine))
  BY <1>1, <1>2, <1>3 DEF Dispatch
<1>5. /\ written'.reply.status = "S" /\ written'.reply.entry = Summary(machine)
  BY <1>4 DEF Reply
<1>6. /\ Summary(machine).hashing = (IF machine = "mining" THEN "yes" ELSE "no")
      /\ Summary(machine).says \in {"nothing", machine}
  BY DEF Summary
<1>7. Classify(written'.reply) = IF machine = "mining" THEN "mining" ELSE "stopped"
  BY <1>5, <1>6 DEF Classify, IsOk
<1> QED
  BY <1>4, <1>7 DEF ReplyIsTrue

LEMMA RefusalIsTrue ==
    ASSUME written' = [machine |-> machine, reply |-> Refusal("access denied")]
    PROVE  ReplyIsTrue'
<1>1. written'.reply.status = "E" /\ written'.reply.msg = "access denied" /\ written'.reply.entry = NoEntry
  BY DEF Refusal, Reply
<1> QED
  BY <1>1 DEF ReplyIsTrue, Classify, IsOk

LEMMA RepliesKeeps ==
    ASSUME ApiInv, Replies
    PROVE  ApiInv'
<1>1. ReplyIsTrue'
  BY SummaryIsTrue, RefusalIsTrue DEF Replies
<1>2. exchange' = "reading" /\ reading' = "none" /\ buf' = <<>> /\ UNCHANGED build
      /\ wire' = Body \o (IF build.nul THEN <<NUL>> ELSE <<>>)
  BY DEF Replies, ApiInv, Silent
<1>3. /\ Body \in Seq(Nat) /\ Len(Body) = BodyLength /\ BodyLength \in Nat \ {0}
      /\ \A i \in 1..BodyLength : Body[i] = i
  BY ApiAssumption DEF Body
<1>4. UnderWay'
  <2>1. CASE build.nul
    <3>1. <<NUL>> \in Seq(Nat) /\ Len(<<NUL>>) = 1 /\ <<NUL>>[1] = NUL
      BY DEF NUL
    <3>2. wire' = Body \o <<NUL>>
      BY <1>2, <2>1
    <3>3. /\ wire' \in Seq(Nat) /\ Len(wire') = BodyLength + 1
          /\ \A i \in 1..Len(wire') : wire'[i] = Piece(i)
      BY <1>3, <3>1, <3>2 DEF Piece
    <3> QED
      BY <1>2, <1>3, <2>1, <3>3 DEF UnderWay, Piece
  <2>2. CASE ~build.nul
    <3>1. wire' = Body
      BY <1>2, <1>3, <2>2
    <3> QED
      BY <1>2, <1>3, <2>2, <3>1 DEF UnderWay, Piece
  <2> QED
    BY <2>1, <2>2
<1> QED
  BY <1>1, <1>2, <1>4 DEF ApiInv, ReadingIsTrue

LEMMA SegmentArrivesKeeps ==
    ASSUME ApiInv, SegmentArrives
    PROVE  ApiInv'
<1>1. PICK n \in 1..Len(wire) :
          /\ buf' = buf \o SubSeq(wire, 1, n) /\ wire' = SubSeq(wire, n + 1, Len(wire))
          /\ IF Contains(buf', NUL)
             THEN Finishes("framed", ReadFrame(SubSeq(buf', 1, Len(buf') - 1)))
             ELSE UNCHANGED <<exchange, reading>>
  BY DEF SegmentArrives
<1>2. /\ exchange = "reading" /\ UNCHANGED <<build, written>> /\ ReplyIsTrue /\ reading = "none"
      /\ BodyLength \in Nat \ {0}
  BY ApiAssumption DEF SegmentArrives, ApiInv
<1>3. UnderWay
  <2>1. Len(<<>>) = 0
    OBVIOUS
  <2>2. wire # <<>>
    BY <1>1, <2>1
  <2> QED
    BY <1>2, <2>2 DEF ApiInv, Silent
<1>4. /\ Len(buf) \in Nat /\ Len(wire) \in Nat /\ n \in Nat /\ n <= Len(wire) /\ n >= 1
  BY <1>1, <1>3 DEF UnderWay
<1>5. /\ buf' \in Seq(Nat) /\ Len(buf') = Len(buf) + n
      /\ \A i \in 1..Len(buf') : buf'[i] = Piece(i)
  <2>1. /\ SubSeq(wire, 1, n) \in Seq(Nat) /\ Len(SubSeq(wire, 1, n)) = n
        /\ \A i \in 1..n : SubSeq(wire, 1, n)[i] = wire[i]
    BY <1>3, <1>4 DEF UnderWay
  <2>2. buf' \in Seq(Nat) /\ Len(buf') = Len(buf) + n
    BY <1>1, <1>3, <1>4, <2>1 DEF UnderWay
  <2>3. \A i \in 1..(Len(buf) + n) :
            buf'[i] = IF i <= Len(buf) THEN buf[i] ELSE SubSeq(wire, 1, n)[i - Len(buf)]
    BY <1>1, <1>3, <1>4, <2>1 DEF UnderWay
  <2>4. ASSUME NEW i \in 1..(Len(buf) + n) PROVE buf'[i] = Piece(i)
    <3>1. CASE i <= Len(buf)
      BY <1>2, <1>3, <1>4, <2>3, <3>1 DEF UnderWay, Piece
    <3>2. CASE ~(i <= Len(buf))
      <4>1. i - Len(buf) \in 1..n /\ i - Len(buf) \in 1..Len(wire) /\ Len(buf) + (i - Len(buf)) = i
        BY <1>4, <3>2
      <4> QED
        BY <1>3, <2>1, <2>3, <3>2, <4>1 DEF UnderWay
    <3> QED
      BY <3>1, <3>2
  <2> QED
    BY <2>2, <2>4
<1>6. /\ wire' \in Seq(Nat) /\ Len(wire') = Len(wire) - n
      /\ \A i \in 1..Len(wire') : wire'[i] = Piece(Len(buf') + i)
  <2>1. /\ wire' \in Seq(Nat) /\ Len(wire') = Len(wire) - n
        /\ \A i \in 1..(Len(wire) - n) : wire'[i] = wire[n + i]
    <3>1. /\ n + 1 \in Int /\ Len(wire) \in Int /\ wire' = SubSeq(wire, n + 1, Len(wire))
          /\ \A i \in (n + 1)..Len(wire) : wire[i] \in Nat
      BY <1>1, <1>3, <1>4 DEF UnderWay
    <3>2. /\ wire' \in Seq(Nat)
          /\ Len(wire') = IF n + 1 <= Len(wire) THEN Len(wire) - (n + 1) + 1 ELSE 0
          /\ \A i \in 1..(Len(wire) - (n + 1) + 1) : wire'[i] = wire[n + 1 + i - 1]
      BY <3>1, SubSeqProperties
    <3>3. /\ Len(wire) - (n + 1) + 1 = Len(wire) - n
          /\ \A i \in 1..(Len(wire) - n) : n + 1 + i - 1 = n + i
      BY <1>4
    <3>4. Len(wire') = Len(wire) - n
      <4> DEFINE all == Len(wire)
      <4>1. all \in Nat /\ n \in Nat /\ n <= all
        BY <1>4
      <4>2. Len(wire') = IF n + 1 <= all THEN all - (n + 1) + 1 ELSE 0
        BY <3>2
      <4> HIDE DEF all
      <4>3. (IF n + 1 <= all THEN all - (n + 1) + 1 ELSE 0) = all - n
        BY <4>1
      <4> QED
        BY <4>2, <4>3 DEF all
    <3>5. ASSUME NEW i \in 1..(Len(wire) - n) PROVE wire'[i] = wire[n + i]
      BY <3>2, <3>3, <3>5
    <3> QED
      BY <3>2, <3>4, <3>5
  <2>2. ASSUME NEW i \in 1..(Len(wire) - n) PROVE wire'[i] = Piece(Len(buf') + i)
    <3>1. n + i \in 1..Len(wire) /\ Len(buf) + (n + i) = Len(buf') + i
      BY <1>4, <1>5
    <3> QED
      BY <1>3, <2>1, <3>1 DEF UnderWay
  <2> QED
    BY <2>1, <2>2
<1>7. CASE ~Contains(buf', NUL)
  <2>1. Len(buf') <= BodyLength
    <3> SUFFICES ASSUME BodyLength + 1 <= Len(buf') PROVE FALSE
      BY <1>2, <1>4, <1>5
    <3>1. BodyLength + 1 \in 1..Len(buf') /\ Piece(BodyLength + 1) = NUL
      BY <1>2, <1>4, <1>5 DEF Piece
    <3> QED
      BY <1>5, <1>7, <3>1 DEF Contains
  <2>2. \A i \in 1..Len(buf') : buf'[i] = i
    BY <1>2, <1>4, <1>5, <2>1 DEF Piece
  <2>3. Len(buf') + Len(wire') = BodyLength + (IF build'.nul THEN 1 ELSE 0)
    BY <1>2, <1>3, <1>4, <1>5, <1>6 DEF UnderWay
  <2>4. UnderWay'
    BY <1>5, <1>6, <2>1, <2>2, <2>3 DEF UnderWay
  <2> QED
    BY <1>1, <1>2, <1>7, <2>4 DEF ApiInv, ReadingIsTrue, ReplyIsTrue
<1>8. CASE Contains(buf', NUL)
  <2>1. Len(buf') = BodyLength + 1
    <3>1. PICK i \in 1..Len(buf') : buf'[i] = NUL
      BY <1>8 DEF Contains
    <3>2. ~(i <= BodyLength)
      BY <1>5, <3>1 DEF Piece, NUL
    <3> QED
      BY <1>2, <1>3, <1>4, <1>5, <3>1, <3>2 DEF UnderWay
  <2>2. SubSeq(buf', 1, Len(buf') - 1) = Body
    <3>1. /\ SubSeq(buf', 1, BodyLength) \in Seq(Nat)
          /\ Len(SubSeq(buf', 1, BodyLength)) = BodyLength
          /\ \A i \in 1..BodyLength : SubSeq(buf', 1, BodyLength)[i] = i
      BY <1>2, <1>5, <2>1 DEF Piece
    <3>2. Body \in Seq(Nat) /\ Len(Body) = BodyLength /\ \A i \in 1..BodyLength : Body[i] = i
      BY <1>2 DEF Body
    <3> HIDE DEF Body
    <3>3. SubSeq(buf', 1, BodyLength) = Body
      BY <3>1, <3>2, SeqEqual
    <3> QED
      BY <1>2, <2>1, <3>3
  <2>3. exchange' = "framed" /\ reading' = Classify(written.reply)
    BY <1>1, <1>8, <2>2 DEF Finishes, ReadFrame
  <2> QED
    BY <1>2, <2>3 DEF ApiInv, ReadingIsTrue, ReplyIsTrue
<1> QED
  BY <1>7, <1>8

LEMMA ClosesKeeps ==
    ASSUME ApiInv, Closes
    PROVE  ApiInv'
<1>1. /\ exchange = "reading" /\ wire' = <<>> /\ UNCHANGED <<buf, written, build>>
      /\ ReplyIsTrue /\ reading = "none" /\ BodyLength \in Nat \ {0}
  BY ApiAssumption DEF Closes, ApiInv
<1>2. CASE Finishes("failed", "unreachable")
  BY <1>1, <1>2 DEF ApiInv, ReadingIsTrue, ReplyIsTrue, Finishes
<1>3. CASE Finishes("framed", ReadFrame(buf)) /\ buf = Body
  <2>1. exchange' = "framed" /\ reading' = Classify(written.reply)
    BY <1>3 DEF Finishes, ReadFrame
  <2> QED
    BY <1>1, <2>1 DEF ApiInv, ReadingIsTrue, ReplyIsTrue
<1>4. CASE Finishes("framed", ReadFrame(buf)) /\ buf # Body
  <2>1. exchange' = "framed" /\ reading' = "unreachable"
    BY <1>4 DEF Finishes, ReadFrame
  <2>2. \E i \in 1..BodyLength : ~Contains(buf, i)
    <3>1. CASE Silent
      <4>1. ~Contains(buf, 1) /\ 1 \in 1..BodyLength
        BY <1>1, <3>1 DEF Silent, Contains
      <4> QED
        BY <4>1
    <3>2. CASE UnderWay
      <4>1. buf \in Seq(Nat) /\ Len(buf) <= BodyLength /\ \A i \in 1..Len(buf) : buf[i] = i
        BY <3>2 DEF UnderWay
      <4>2. Len(buf) # BodyLength
        <5> SUFFICES ASSUME Len(buf) = BodyLength PROVE buf = Body
          BY <1>4
        <5>1. Body \in Seq(Nat) /\ Len(Body) = BodyLength /\ \A i \in 1..BodyLength : Body[i] = i
          BY <1>1 DEF Body
        <5> HIDE DEF Body
        <5> QED
          BY <4>1, <5>1, SeqEqual
      <4>3. ~Contains(buf, BodyLength) /\ BodyLength \in 1..BodyLength
        BY <1>1, <4>1, <4>2 DEF Contains
      <4> QED
        BY <4>3
    <3> QED
      BY <1>1, <3>1, <3>2 DEF ApiInv
  <2> QED
    BY <1>1, <2>1, <2>2 DEF ApiInv, ReadingIsTrue, ReplyIsTrue
<1> QED
  BY <1>2, <1>3, <1>4 DEF Closes

LEMMA ApiBegins ==
    ASSUME ApiInit
    PROVE  ApiInv
BY NoReplyIsSilence DEF ApiInit, ApiInv, ReadingIsTrue, Silent

LEMMA ApiKeeps ==
    ASSUME ApiInv, [ApiNext]_apiVars
    PROVE  ApiInv'
<1>1. CASE Request \/ HangUp \/ TimesOut \/ Moves \/ UNCHANGED apiVars
  <2>1. UNCHANGED written /\ ReplyIsTrue'
    BY <1>1 DEF ApiInv, ReplyIsTrue, Request, HangUp, TimesOut, Moves, apiVars
  <2>2. CASE Request
    BY <2>1, <2>2 DEF ApiInv, ReadingIsTrue, Silent, Request, Finishes
  <2>3. CASE HangUp
    BY <2>1, <2>3 DEF ApiInv, ReadingIsTrue, Silent, HangUp
  <2>4. CASE TimesOut
    BY <2>1, <2>4 DEF ApiInv, ReadingIsTrue, TimesOut, Finishes
  <2>5. CASE Moves \/ UNCHANGED apiVars
    BY <2>1, <2>5 DEF ApiInv, ReadingIsTrue, Silent, UnderWay, Moves, apiVars
  <2> QED
    BY <1>1, <2>2, <2>3, <2>4, <2>5
<1> QED
  BY <1>1, RepliesKeeps, SegmentArrivesKeeps, ClosesKeeps DEF ApiNext

\* For a reply of any length, cut up in any way, of any build, and a machine
\* that changes as often as it likes: what a poll concludes is true.
THEOREM ReadingsAreTrue == ApiSpec => []ReadingIsTrue
<1>1. ApiInv => ReadingIsTrue
  BY DEF ApiInv
<1> QED
  BY <1>1, ApiBegins, ApiKeeps, PTL DEF ApiSpec

-----------------------------------------------------------------------------
(* The search for the shape of a write.                                    *)

IsConf(c)   == c = Conf(c.mode, c.type, c.nulls)
IsSearch(s) == /\ s = [pc |-> s.pc, shape |-> s.shape, original |-> s.original]
               /\ s.shape \in 1..Len(WriteVariants)

\* The shapes before the one that is tried were seen not to be taken.
NoneBefore == \A n \in 1..search.shape - 1 : ~Takes(Tried(n))

\* What the search has established where it stands, unless a write landed
\* unseen or late: a shape that is not taken changes no more than what stands in
\* the null fields.
Established ==
    /\ Stands("begin") => search.shape = 1
    /\ search.pc \in {"post", "none works"} => conf = search.original
    /\ search.pc \in {"post", "reread", "restore", "works"} => NoneBefore
    /\ Stands("reread") =>
          IF Takes(Tried(search.shape)) THEN conf.mode = "sleep"
          ELSE conf = [search.original EXCEPT !.nulls = conf.nulls]
    /\ search.pc \in {"restore", "works"} /\ search.original.mode = "normal" =>
          Takes(Tried(search.shape))
    /\ Stands("none works") => \A n \in 1..Len(WriteVariants) : ~Takes(Tried(n))

ShapesInv == /\ IsSearch(search) /\ IsConf(search.original) /\ IsConf(conf)
             /\ Certain => Established

LEMMA ConfFields ==
    ASSUME NEW m, NEW type, NEW nulls
    PROVE  /\ IsConf(Conf(m, type, nulls))
           /\ Conf(m, type, nulls).mode = m
           /\ Conf(m, type, nulls).type = type
           /\ Conf(m, type, nulls).nulls = nulls
BY DEF IsConf, Conf

LEMMA NullsReplaced ==
    ASSUME NEW c, IsConf(c), NEW x
    PROVE  /\ [c EXCEPT !.nulls = x] = Conf(c.mode, c.type, x)
           /\ [c EXCEPT !.nulls = c.nulls] = c
BY DEF IsConf, Conf

LEMMA AfterIs ==
    ASSUME IsConf(conf), NEW d
    PROVE  /\ IsConf(After(d))
           /\ Takes(d) => After(d).mode = d.mode
           /\ ~Takes(d) => After(d) = [conf EXCEPT !.nulls = After(d).nulls]
<1>1. CASE Takes(d)
  <2> DEFINE type == IF page.shows = "as written" THEN d.type ELSE page.shows
  <2>1. After(d) = Conf(d.mode, type, d.nulls)
    BY <1>1 DEF After
  <2> HIDE DEF type
  <2> QED
    BY <1>1, <2>1, ConfFields
<1>2. CASE ~Takes(d)
  <2>1. After(d) = [conf EXCEPT !.nulls = d.nulls] \/ After(d) = conf
    BY <1>2 DEF After
  <2>2. /\ [conf EXCEPT !.nulls = d.nulls] = Conf(conf.mode, conf.type, d.nulls)
        /\ [conf EXCEPT !.nulls = conf.nulls] = conf
    BY NullsReplaced
  <2> DEFINE c == Conf(conf.mode, conf.type, d.nulls)
  <2>3. IsConf(c) /\ c.nulls = d.nulls
    BY ConfFields
  <2> HIDE DEF c
  <2> QED
    BY <1>2, <2>1, <2>2, <2>3 DEF c
<1> QED
  BY <1>1, <1>2

LEMMA TriedSleeps == \A n : Tried(n).mode = "sleep"
BY DEF Tried, Document

\* What a shape is depends on the page and on the original alone.
LEMMA TriedStays ==
    ASSUME page' = page, search'.original = search.original
    PROVE  \A n : Takes(Tried(n))' <=> Takes(Tried(n))
BY DEF Takes, Tried, Document, TypeSent, Aliased

\* Where the search turns to, with the same shape.
LEMMA TurnsTo ==
    ASSUME IsSearch(search), NEW pc, Turns(pc)
    PROVE  /\ search'.pc = pc /\ search'.shape = search.shape
           /\ search'.original = search.original /\ IsSearch(search')
BY DEF IsSearch, Turns

\* The next shape, when this one and those before it were not taken.
LEMMA NextIs ==
    ASSUME IsSearch(search), NextShape, page' = page
    PROVE  /\ IsSearch(search') /\ search'.original = search.original
           /\ \/ search'.pc = "none works" /\ search.shape = Len(WriteVariants)
              \/ search'.pc = "post" /\ search'.shape = search.shape + 1
<1>1. Len(WriteVariants) \in Nat /\ search.shape \in 1..Len(WriteVariants)
  BY DEF IsSearch, WriteVariants
<1>2. CASE search.shape = Len(WriteVariants)
  BY <1>2, TurnsTo DEF NextShape
<1>3. CASE search.shape # Len(WriteVariants)
  <2>1. search' = [search EXCEPT !.pc = "post", !.shape = search.shape + 1]
    BY <1>3 DEF NextShape
  <2>2. /\ search'.pc = "post" /\ search'.shape = search.shape + 1
        /\ search'.original = search.original
        /\ search' = [pc |-> search'.pc, shape |-> search'.shape, original |-> search'.original]
    BY <2>1 DEF IsSearch
  <2>3. search.shape + 1 \in 1..Len(WriteVariants)
    BY <1>1, <1>3
  <2> QED
    BY <2>2, <2>3 DEF IsSearch
<1> QED
  BY <1>2, <1>3

LEMMA NextEstablished ==
    ASSUME IsSearch(search), NextShape, page' = page,
           NoneBefore, ~Takes(Tried(search.shape)), conf' = search.original
    PROVE  Established'
<1>1. /\ search'.original = search.original
      /\ \/ search'.pc = "none works" /\ search.shape = Len(WriteVariants)
         \/ search'.pc = "post" /\ search'.shape = search.shape + 1
  BY NextIs
<1>2. Len(WriteVariants) \in Nat /\ search.shape \in 1..Len(WriteVariants)
  BY DEF IsSearch, WriteVariants
<1>3. \A n \in 1..search.shape : ~Takes(Tried(n))'
  <2>1. \A n \in 1..search.shape : n = search.shape \/ n \in 1..search.shape - 1
    BY <1>2
  <2> QED
    BY <1>1, <2>1, TriedStays DEF NoneBefore
<1>4. CASE search'.pc = "none works" /\ search.shape = Len(WriteVariants)
  BY <1>1, <1>3, <1>4 DEF Established, Stands
<1>5. CASE search'.pc = "post" /\ search'.shape = search.shape + 1
  <2>1. search'.shape - 1 = search.shape
    BY <1>2, <1>5
  <2>2. NoneBefore'
    BY <1>3, <2>1 DEF NoneBefore
  <2> QED
    BY <1>1, <1>5, <2>2 DEF Established, Stands
<1> QED
  BY <1>1, <1>4, <1>5

LEMMA ShapesBegin == ASSUME ShapesInit PROVE ShapesInv
<1>1. PICK m, type : conf = Conf(m, type, "null")
  BY DEF ShapesInit
<1>2. IsConf(conf) /\ search = [pc |-> "begin", shape |-> 1, original |-> conf]
  BY <1>1, ConfFields DEF ShapesInit
<1>3. search.pc = "begin" /\ search.shape = 1 /\ search.original = conf /\ IsSearch(search)
  BY <1>2 DEF IsSearch, WriteVariants
<1> QED
  BY <1>2, <1>3 DEF ShapesInv, Established, Stands

LEMMA ReadOriginalKeeps == ASSUME ShapesInv, ReadOriginal PROVE ShapesInv'
<1>1. UNCHANGED <<page, conf, pending, unsure>> /\ search.pc = "begin" /\ IsSearch(search)
  BY DEF ReadOriginal, ShapesInv, Stands
<1>2. CASE Turns("unread")
  <2>1. search'.pc = "unread" /\ search'.original = search.original /\ IsSearch(search')
    BY <1>1, <1>2, TurnsTo
  <2> QED
    BY <1>1, <2>1 DEF ShapesInv, Established, Stands
<1>3. CASE search' = [search EXCEPT !.pc = "post", !.original = conf]
  <2>1. search'.pc = "post" /\ search'.shape = search.shape /\ search'.original = conf
        /\ IsSearch(search')
    BY <1>1, <1>3 DEF IsSearch
  <2>2. Certain' => search'.shape = 1
    BY <1>1, <2>1 DEF ShapesInv, Established, Stands, Certain
  <2> QED
    BY <1>1, <2>1, <2>2 DEF ShapesInv, Established, NoneBefore, Stands
<1> QED
  BY <1>2, <1>3 DEF ReadOriginal

LEMMA LandsIs ==
    ASSUME IsConf(conf), NEW d, d.mode = "sleep" \/ d.mode = "normal",
           DOMAIN d # {"none"}, Lands(d)
    PROVE  /\ IsConf(conf')
           /\ pending' = NoWrite => conf' = After(d)
           /\ pending' = NoWrite => pending = NoWrite
<1>1. IsConf(After(d))
  BY AfterIs
<1>2. d # NoWrite
  BY DEF NoWrite
<1> QED
  BY <1>1, <1>2 DEF Lands

LEMMA DocumentsAreWrites ==
    ASSUME NEW v, NEW doc, NEW m, NEW coerced
    PROVE  DOMAIN Document(v, doc, m, coerced) # {"none"}
BY DEF Document

LEMMA PostShapeKeeps == ASSUME ShapesInv, PostShape PROVE ShapesInv'
<1> DEFINE d == Tried(search.shape)
<1>0. /\ search.pc = "post" /\ page' = page /\ IsSearch(search)
      /\ IsConf(conf) /\ IsConf(search.original)
  BY DEF PostShape, ShapesInv, Stands
<1>1. d.mode = "sleep" /\ DOMAIN d # {"none"}
  BY TriedSleeps, DocumentsAreWrites DEF Tried
<1>2. \/ Lands(d) /\ Turns("reread") /\ UNCHANGED unsure
      \/ Ignored /\ NextShape /\ unsure' = (unsure \/ Takes(d))
      \/ /\ Lands(d) /\ (NextShape \/ Turns("raised"))
         /\ unsure' = (unsure \/ Takes(d) \/ After(d) # conf)
  BY DEF PostShape
<1>3. Certain => conf = search.original /\ NoneBefore
  BY <1>0 DEF ShapesInv, Established
<1> HIDE DEF d
<1>4. CASE Lands(d) /\ Turns("reread") /\ UNCHANGED unsure
  <2>1. /\ search'.pc = "reread" /\ search'.shape = search.shape
        /\ search'.original = search.original /\ IsSearch(search')
    BY <1>0, <1>4, TurnsTo
  <2>2. IsConf(conf')
    BY <1>0, <1>1, <1>4, LandsIs
  <2>3. ASSUME Certain' PROVE Established'
    <3>1. Certain /\ conf' = After(d)
      BY <1>0, <1>1, <1>4, <2>3, LandsIs DEF Certain
    <3>2. NoneBefore'
      BY <1>0, <1>3, <2>1, <3>1, TriedStays DEF NoneBefore
    <3>3. Takes(Tried(search.shape))' <=> Takes(d)
      BY <1>0, <2>1, TriedStays DEF d
    <3>4. IF Takes(d) THEN conf'.mode = "sleep"
          ELSE conf' = [search'.original EXCEPT !.nulls = conf'.nulls]
      BY <1>0, <1>1, <1>3, <2>1, <3>1, AfterIs
    <3>5. (Takes(Tried(search.shape)))' <=> Takes(d)
      BY <2>1, <3>3
    <3> QED
      BY <2>1, <3>2, <3>4, <3>5 DEF Established, Stands
  <2> QED
    BY <1>0, <2>1, <2>2, <2>3 DEF ShapesInv
<1>5. CASE Ignored /\ NextShape /\ unsure' = (unsure \/ Takes(d))
  <2>1. IsSearch(search') /\ search'.original = search.original /\ conf' = conf
    BY <1>0, <1>5, NextIs DEF Ignored
  <2>2. ASSUME Certain' PROVE Established'
    <3>1. Certain /\ ~Takes(d)
      BY <1>5, <2>2 DEF Certain, Ignored
    <3> QED
      BY <1>0, <1>3, <1>5, <2>1, <3>1, NextEstablished DEF d
  <2> QED
    BY <1>0, <2>1, <2>2 DEF ShapesInv
<1>6. CASE /\ Lands(d) /\ (NextShape \/ Turns("raised"))
           /\ unsure' = (unsure \/ Takes(d) \/ After(d) # conf)
  <2>1. IsSearch(search') /\ search'.original = search.original
    BY <1>0, <1>6, NextIs, TurnsTo
  <2>2. IsConf(conf')
    BY <1>0, <1>1, <1>6, LandsIs
  <2>3. ASSUME Certain' PROVE Established'
    <3>1. Certain /\ ~Takes(d) /\ conf' = conf
      BY <1>0, <1>1, <1>6, <2>3, LandsIs DEF Certain
    <3>2. CASE NextShape
      BY <1>0, <1>3, <3>1, <3>2, NextEstablished DEF d
    <3>3. CASE Turns("raised")
      <4>1. search'.pc = "raised"
        BY <1>0, <3>3, TurnsTo
      <4> QED
        BY <4>1 DEF Established, Stands
    <3> QED
      BY <1>6, <3>2, <3>3
  <2> QED
    BY <1>0, <2>1, <2>2, <2>3 DEF ShapesInv
<1> QED
  BY <1>2, <1>4, <1>5, <1>6

LEMMA RereadKeeps == ASSUME ShapesInv, Reread PROVE ShapesInv'
<1> DEFINE taken == Takes(Tried(search.shape))
<1>0. /\ search.pc = "reread" /\ UNCHANGED <<page, conf, pending>> /\ IsSearch(search)
      /\ IsConf(conf) /\ IsConf(search.original)
  BY DEF Reread, ShapesInv, Stands
<1>1. \/ NextShape /\ unsure' = (unsure \/ taken \/ conf # search.original)
      \/ /\ IF TookEffect THEN Turns("restore")
            ELSE IF conf.nulls # search.original.nulls THEN Turns("stopped")
            ELSE NextShape
         /\ UNCHANGED unsure
  BY DEF Reread
<1>2. Certain => /\ NoneBefore
                 /\ taken => conf.mode = "sleep"
                 /\ ~taken => conf = [search.original EXCEPT !.nulls = conf.nulls]
  BY <1>0 DEF ShapesInv, Established, Stands
<1>3. ~taken /\ Certain =>
         /\ conf.mode = search.original.mode
         /\ conf.nulls = search.original.nulls => conf = search.original
  <2>1. [search.original EXCEPT !.nulls = conf.nulls]
           = Conf(search.original.mode, search.original.type, conf.nulls)
    BY <1>0, NullsReplaced
  <2>2. [search.original EXCEPT !.nulls = search.original.nulls] = search.original
    BY <1>0, NullsReplaced
  <2> QED
    BY <1>2, <2>1, <2>2, ConfFields
<1> HIDE DEF taken
<1>4. ASSUME NextShape, Certain /\ Certain' => ~taken /\ conf = search.original,
             Certain' => Certain
      PROVE  ShapesInv'
  <2>1. IsSearch(search') /\ search'.original = search.original
    BY <1>0, <1>4, NextIs
  <2>2. ASSUME Certain' PROVE Established'
    BY <1>0, <1>2, <1>4, <2>2, NextEstablished DEF taken
  <2> QED
    BY <1>0, <2>1, <2>2 DEF ShapesInv
<1>5. CASE NextShape /\ unsure' = (unsure \/ taken \/ conf # search.original)
  BY <1>0, <1>4, <1>5 DEF Certain
<1>6. CASE UNCHANGED unsure /\ TookEffect /\ Turns("restore")
  <2>1. /\ search'.pc = "restore" /\ search'.shape = search.shape
        /\ search'.original = search.original /\ IsSearch(search')
    BY <1>0, <1>6, TurnsTo
  <2>2. ASSUME Certain' PROVE Established'
    <3>1. Certain
      BY <1>0, <1>6, <2>2 DEF Certain
    <3>2. NoneBefore'
      BY <1>0, <1>2, <2>1, <3>1, TriedStays DEF NoneBefore
    <3>3. search.original.mode = "normal" => taken
      BY <1>3, <1>6, <3>1 DEF TookEffect
    <3>4. search.original.mode = "normal" => (Takes(Tried(search.shape)))'
      BY <1>0, <2>1, <3>3, TriedStays DEF taken
    <3> QED
      BY <2>1, <3>2, <3>4 DEF Established, Stands
  <2> QED
    BY <1>0, <2>1, <2>2 DEF ShapesInv
<1>7. CASE Turns("stopped")
  <2>1. search'.pc = "stopped" /\ search'.original = search.original /\ IsSearch(search')
    BY <1>0, <1>7, TurnsTo
  <2> QED
    BY <1>0, <2>1 DEF ShapesInv, Established, Stands
<1>8. CASE UNCHANGED unsure /\ ~TookEffect /\ conf.nulls = search.original.nulls /\ NextShape
  <2>1. (Certain' <=> Certain) /\ conf.mode # "sleep"
    BY <1>0, <1>8 DEF Certain, TookEffect
  <2> QED
    BY <1>2, <1>3, <1>4, <1>8, <2>1
<1> QED
  BY <1>1, <1>5, <1>6, <1>7, <1>8

LEMMA RestoreKeeps == ASSUME ShapesInv, Restore PROVE ShapesInv'
<1> DEFINE d == Document(WriteVariants[search.shape], conf, "normal", FALSE)
<1>0. /\ search.pc = "restore" /\ page' = page /\ IsSearch(search)
      /\ IsConf(conf) /\ IsConf(search.original)
  BY DEF Restore, ShapesInv, Stands
<1>1. DOMAIN d # {"none"} /\ d.mode = "normal"
  BY DocumentsAreWrites DEF Document
<1>2. Turns("works") /\ (\/ Lands(d) /\ UNCHANGED unsure
                         \/ Ignored /\ unsure' = TRUE)
  BY DEF Restore
<1> HIDE DEF d
<1>3. /\ search'.pc = "works" /\ search'.shape = search.shape
      /\ search'.original = search.original /\ IsSearch(search')
  BY <1>0, <1>2, TurnsTo
<1>4. CASE Lands(d) /\ UNCHANGED unsure
  <2>1. IsConf(conf') /\ (Certain' => Certain)
    BY <1>0, <1>1, <1>4, LandsIs DEF Certain
  <2>2. ASSUME Certain' PROVE Established'
    <3>1. NoneBefore /\ (search.original.mode = "normal" => Takes(Tried(search.shape)))
      BY <1>0, <2>1, <2>2 DEF ShapesInv, Established
    <3>2. NoneBefore'
      BY <1>0, <1>3, <3>1, TriedStays DEF NoneBefore
    <3>3. search.original.mode = "normal" => (Takes(Tried(search.shape)))'
      BY <1>0, <1>3, <3>1, TriedStays
    <3> QED
      BY <1>3, <3>2, <3>3 DEF Established, Stands
  <2> QED
    BY <1>0, <1>3, <2>1, <2>2 DEF ShapesInv
<1>5. CASE Ignored /\ unsure' = TRUE
  BY <1>0, <1>3, <1>5 DEF ShapesInv, Ignored, Certain
<1> QED
  BY <1>2, <1>4, <1>5

LEMMA ShowsKeeps == ASSUME ShapesInv, Shows PROVE ShapesInv'
<1>1. IsConf(conf) /\ conf' = After(pending) /\ unsure' = TRUE /\ search' = search
  BY DEF ShapesInv, Shows
<1>2. IsConf(conf')
  BY <1>1, AfterIs
<1> QED
  BY <1>1, <1>2 DEF ShapesInv, Certain

LEMMA ShapesKeep == ASSUME ShapesInv, [ShapesNext]_shapeVars PROVE ShapesInv'
<1>1. CASE UNCHANGED shapeVars
  <2>1. UNCHANGED <<page, conf, pending, search, unsure>>
    BY <1>1 DEF shapeVars
  <2>2. \A n : Takes(Tried(n))' <=> Takes(Tried(n))
    BY <2>1, TriedStays
  <2>3. (Certain' <=> Certain) /\ (NoneBefore' <=> NoneBefore)
    BY <2>1, <2>2 DEF Certain, NoneBefore
  <2>4. Established => Established'
    BY <2>1, <2>2, <2>3 DEF Established, Stands
  <2> QED
    BY <2>1, <2>3, <2>4 DEF ShapesInv
<1> QED
  BY <1>1, ReadOriginalKeeps, PostShapeKeeps, RereadKeeps, RestoreKeeps, ShowsKeeps
  DEF ShapesNext

\* Whatever a firmware insists on, shows and keeps: unless a write landed unseen
\* or late, the shape that is reported is the first one it takes, none is
\* reported only if it takes none, and what did not take has changed nothing.
THEOREM ShapesProven == ShapesSpec => []ShapesAreProven
<1>1. ShapesInv => ShapesAreProven
  BY DEF ShapesInv, Established, NoneBefore, ShapesAreProven, Stands
<1> QED
  BY <1>1, ShapesBegin, ShapesKeep, PTL DEF ShapesSpec
=============================================================================
