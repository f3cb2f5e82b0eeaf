-------------------------- MODULE Commands_proofs --------------------------
(* Theorems about Commands, for every set of connections, ids and numbers.  *)
EXTENDS Commands, FiniteSetTheorems, TLAPS

PartNames == {"server", "status", "system", "interface", "channel"}

\* The signal of every part reaches sendAnswer along exactly one path.
LEMMA OneSlot ==
  ASSUME NEW p \in PartNames
  PROVE  Cardinality(slots(p)) = 1
<1>1. slots(p) = {IF p = "channel" THEN "interface" ELSE p}
  BY DEF slots, scpiConnectionList, passesOn, PartNames
<1>2. QED
  BY <1>1, FS_Singleton

LEMMA EmitsOnce ==
  ASSUME NEW m, NEW p \in PartNames, NEW output
  PROVE  emitDone(m, p, output, TRUE) = <<sendAnswer(m, output)>>
<1>1. emitDone(m, p, output, TRUE) = [i \in 1 .. 1 |-> sendAnswer(m, output)]
  BY OneSlot DEF emitDone
<1>2. [i \in 1 .. 1 |-> sendAnswer(m, output)] = <<sendAnswer(m, output)>>
  OBVIOUS
<1>3. QED
  BY <1>1, <1>2

LEMMA PartsNamed == \A object \in Objects : part[object] \in PartNames
BY DEF Objects, part, PartNames

Typed(outcome) == outcome.output \in Outputs /\ outcome.effects \in SUBSET Effects

\* An outcome whose text counts as a refusal had no effect, and one whose text
\* counts as ACK the one that was asked for, or it is one of the exceptions.
Honest(object, form, cmd, outcome) ==
    /\ Typed(outcome)
    /\ ReplyType(outcome.output) \in {"NACK", "ERROR"} => outcome.effects = {}
    /\ ReplyType(outcome.output) = "ACK" =>
          \/ purpose(object, form) \in outcome.effects
          \/ ToldOnly([object |-> object, form |-> form], cmd)

LEMMA HasDone == \A output, did : Outcome(output, did).effects = did
BY DEF Outcome

LEMMA RefusedHonest ==
  ASSUME NEW object, NEW form, NEW cmd,
         NEW output \in {"nak", "nak;", "busy", "erraut", "errval"}
  PROVE  Honest(object, form, cmd, Outcome(output, {}))
<1>1. Outcome(output, {}).output = output /\ Outcome(output, {}).effects = {}
  BY DEF Outcome
<1>2. ReplyType(output) # "ACK"
  BY DEF ReplyType
<1>3. QED
  BY <1>1, <1>2 DEF Honest, Typed, Outputs

LEMMA AnsweredHonest ==
  ASSUME NEW object, NEW form, NEW cmd, NEW did \in SUBSET Effects,
         NEW output \in {"value", "ack", ""},
         \/ purpose(object, form) \in did
         \/ ToldOnly([object |-> object, form |-> form], cmd)
  PROVE  Honest(object, form, cmd, Outcome(output, did))
<1>1. Outcome(output, did).output = output /\ Outcome(output, did).effects = did
  BY DEF Outcome
<1>2. ReplyType(output) = "ACK"
  BY DEF ReplyType
<1>3. QED
  BY <1>1, <1>2 DEF Honest, Typed, Outputs

LEMMA QueryHonest ==
  ASSUME NEW object, NEW form, NEW cmd, isQuery(form)
  PROVE  /\ Honest(object, form, cmd, Outcome("value", {"read"}))
         /\ Honest(object, form, cmd, QueryRegister(object))
<1>1. purpose(object, form) = "read"
  BY DEF purpose
<1>2. QED
  BY <1>1, AnsweredHonest DEF QueryRegister, Effects

LEMMA OutcomesHonest ==
  ASSUME NEW object \in Objects, NEW form, NEW auth, NEW cmd,
         ~(object = "REGISTER" /\ form = "good"),
         NEW outcome \in Outcomes(object, getType(object), form, auth)
  PROVE  Honest(object, form, cmd, outcome)
<1> USE RefusedHonest DEF isQuery, isCommand0, isCommand1, Effects
<1>1. CASE object \in {"DEVICE", "SYSTEM", "VERSION"}
  BY <1>1, QueryHonest DEF Outcomes, Read
<1>2. CASE object = "PCB"
  <2>1. outcome \in ReadWritePCB(form)
    BY <1>2 DEF Outcomes
  <2>2. CASE isCommand1(form)
    <3>1. ToldOnly([object |-> object, form |-> form], cmd)
      BY <1>2, <2>2 DEF ToldOnly
    <3>2. QED
      BY <2>1, <2>2, <3>1, AnsweredHonest DEF ReadWritePCB
  <2>3. CASE ~isCommand1(form)
    BY <2>1, <2>3, QueryHonest DEF ReadWritePCB, Read
  <2>4. QED
    BY <2>2, <2>3
<1>3. CASE object = "SET"
  <2>1. outcome \in SetChannels(form)
    BY <1>3 DEF Outcomes
  <2>2. form = "good" => purpose(object, form) = "taken"
    BY <1>3 DEF purpose
  <2>3. QED
    BY <2>1, <2>2, AnsweredHonest DEF SetChannels
<1>4. CASE object = "FREE"
  <2>1. outcome \in FreeChannels(form)
    BY <1>4 DEF Outcomes
  <2>2. form = "cmd0" => purpose(object, form) = "freed"
    BY <1>4 DEF purpose
  <2>3. QED
    BY <2>1, <2>2, AnsweredHonest DEF FreeChannels
<1>5. CASE object \in {"INTREG", "RegRW", "RegRO"}
  <2>1. outcome \in ReadWriteRegister(object, getType(object), form, auth)
    BY <1>5 DEF Outcomes
  <2>2. object \in {"INTREG", "RegRW"} /\ form = "good" => purpose(object, form) = "written"
    BY DEF purpose
  <2>3. object = "RegRO" => "isCmdwP" \notin getType(object)
    BY DEF getType
  <2>4. QED
    BY <1>5, <2>1, <2>2, <2>3, QueryHonest, AnsweredHonest DEF ReadWriteRegister
<1>6. CASE object = "SYNC"
  <2>1. outcome \in SetField(form, auth)
    BY <1>6 DEF Outcomes
  <2>2. form = "good" => purpose(object, form) = "configured"
    BY <1>6 DEF purpose
  <2>3. QED
    BY <2>1, <2>2, AnsweredHonest DEF SetField
<1>7. CASE object = "START"
  <2>1. outcome \in StartStop(form, auth)
    BY <1>7 DEF Outcomes
  <2>2. form = "cmd0" => purpose(object, form) = "started"
    BY <1>7 DEF purpose
  <2>3. QED
    BY <2>1, <2>2, AnsweredHonest DEF StartStop
<1>8. CASE object = "INTACK"
  <2>1. outcome \in resetInt(form, auth)
    BY <1>8 DEF Outcomes
  <2>2. form = "good" => purpose(object, form) = "acknowledged"
    BY <1>8 DEF purpose
  <2>3. QED
    BY <2>1, <2>2, AnsweredHonest DEF resetInt
<1>9. CASE object = "UNREGISTER"
  <2>1. outcome \in UnregisterNotifier(form)
    BY <1>9 DEF Outcomes
  <2>2. form = "empty" => purpose(object, form) = "withdrawn"
    BY <1>9 DEF purpose
  <2>3. QED
    BY <2>1, <2>2, AnsweredHonest DEF UnregisterNotifier
<1>10. CASE object = "REGISTER"
  <2>1. outcome = RegisterNothing(form)
    BY <1>10 DEF Outcomes
  <2>2. ~isCommand1(form) => ToldOnly([object |-> object, form |-> form], cmd)
    BY <1>10 DEF ToldOnly
  <2>3. QED
    BY <2>1, <2>2, AnsweredHonest DEF RegisterNothing
<1>11. QED
  BY <1>1, <1>2, <1>3, <1>4, <1>5, <1>6, <1>7, <1>8, <1>9, <1>10 DEF Objects, part

\* Whatever a REGISTER names, the effects of its handler are effects; only the
\* query of INTREG emits a notifier.
LEMMA InnerOutcomes ==
  ASSUME NEW cmd \in NamedCommand, NEW auth,
         NEW inner \in Outcomes(cmd.object, {"isQuery"}, cmd.form, auth)
  PROVE  /\ inner.effects \in SUBSET Effects
         /\ cmd.object = "INTREG" /\ isQuery(cmd.form) => "emitted" \in inner.effects
<1> DEFINE object == cmd.object
           form == cmd.form
<1>a. /\ {} \in SUBSET Effects
      /\ \A e \in Effects : {e} \in SUBSET Effects
      /\ {"read", "emitted"} \in SUBSET Effects
  BY DEF Effects
<1>b. {"read", "taken", "freed", "configured", "started", "acknowledged", "withdrawn", "written"}
        \in SUBSET Effects
  BY DEF Effects
<1> USE HasDone, <1>a, <1>b
<1>0. object \in Objects
  BY DEF NamedCommand
<1>1. CASE object \in {"DEVICE", "SYSTEM", "VERSION"}
  BY <1>1 DEF Outcomes, Read
<1>2. CASE object = "PCB"
  BY <1>2 DEF Outcomes, ReadWritePCB, Read
<1>3. CASE object = "SET"
  BY <1>3 DEF Outcomes, SetChannels
<1>4. CASE object = "FREE"
  BY <1>4 DEF Outcomes, FreeChannels
<1>5. CASE object \in {"INTREG", "RegRW", "RegRO"}
  BY <1>5 DEF Outcomes, ReadWriteRegister, QueryRegister
<1>6. CASE object = "SYNC"
  BY <1>6 DEF Outcomes, SetField
<1>7. CASE object = "START"
  BY <1>7 DEF Outcomes, StartStop
<1>8. CASE object = "INTACK"
  <2>1. inner \in resetInt(form, auth)
    BY <1>8 DEF Outcomes
  <2>2. inner \in {Outcome("nak", {}), Outcome("erraut", {}), Outcome("", {"acknowledged"})}
    BY <2>1 DEF resetInt
  <2>3. inner.effects = {} \/ inner.effects = {"acknowledged"}
    BY <2>2, Zenon
  <2>4. QED
    BY <1>8, <2>3
<1>9. CASE object = "UNREGISTER"
  <2>1. inner \in UnregisterNotifier(form)
    BY <1>9 DEF Outcomes
  <2>2. QED
    BY <1>9, <2>1 DEF UnregisterNotifier
<1>10. CASE object = "REGISTER"
  <2>1. inner = RegisterNothing(form)
    BY <1>10 DEF Outcomes
  <2>2. QED
    BY <1>10, <2>1 DEF RegisterNothing
<1>11. QED
  BY <1>0, <1>1, <1>2, <1>3, <1>4, <1>5, <1>6, <1>7, <1>8, <1>9, <1>10 DEF Objects, part

\* A REGISTER of the query of INTREG has registered, every other is an exception.
LEMMA RegisterHonest ==
  ASSUME NEW cmd \in NamedCommand, NEW auth,
         NEW inner \in Outcomes(cmd.object, {"isQuery"}, cmd.form, auth)
  PROVE  Honest("REGISTER", "good", cmd, RegisterNotifier(inner))
<1>1. registered(inner) \in SUBSET Effects
  BY InnerOutcomes DEF registered, Effects
<1>2. CASE cmd.object = "INTREG" /\ isQuery(cmd.form)
  <2>1. purpose("REGISTER", "good") = "bound"
    BY DEF purpose, isQuery
  <2>2. "bound" \in registered(inner)
    BY <1>2, InnerOutcomes DEF registered
  <2>3. QED
    BY <1>1, <2>1, <2>2, AnsweredHonest DEF RegisterNotifier
<1>3. CASE ~(cmd.object = "INTREG" /\ isQuery(cmd.form))
  <2>1. ToldOnly([object |-> "REGISTER", form |-> "good"], cmd)
    BY <1>3 DEF ToldOnly
  <2>2. QED
    BY <1>1, <2>1, AnsweredHonest DEF RegisterNotifier
<1>4. QED
  BY <1>2, <1>3

\* The answer of a step carries the outcome the step records.
Records(m, outcome) ==
    /\ Honest(m.object, m.form, named', outcome)
    /\ replies' = <<sendAnswer(m, outcome.output)>>
    /\ effects' = outcome.effects
    /\ named' \in NamedCommand \cup {NoCommand}

LEMMA FinishesOnce ==
  ASSUME NEW m, m.object \in Objects, NEW outcome, Finish(m, outcome)
  PROVE  /\ replies' = <<sendAnswer(m, outcome.output)>>
         /\ effects' = outcome.effects
BY EmitsOnce, PartsNamed DEF Finish, bwithOutput

LEMMA HonestReplies ==
  ASSUME NEW m \in Message, IsCommand(m), Reject(m) \/ Execute(m) \/ Register(m)
  PROVE  \E outcome : Records(m, outcome)
<1>1. CASE Reject(m)
  <2> DEFINE text == IF m.kind = "old" THEN "nak;" ELSE "nak"
  <2>1. Honest(m.object, m.form, named', Outcome(text, {}))
    BY RefusedHonest
  <2>2. replies' = <<sendAnswer(m, text)>> /\ effects' = {} /\ named' = NoCommand
    BY <1>1, EmitsOnce DEF Reject, PartNames
  <2>3. Records(m, Outcome(text, {}))
    BY <2>1, <2>2 DEF Records, Outcome
  <2>4. QED
    BY <2>3
<1>2. CASE Execute(m)
  <2>1. PICK auth \in BOOLEAN :
          \E outcome \in Outcomes(m.object, getType(m.object), m.form, auth) :
            Finish(m, outcome)
    BY <1>2 DEF Execute
  <2>2. PICK outcome \in Outcomes(m.object, getType(m.object), m.form, auth) :
            Finish(m, outcome)
    BY <2>1
  <2>3. Honest(m.object, m.form, named', outcome)
    BY <1>2, OutcomesHonest DEF Execute
  <2>4. Records(m, outcome)
    BY <1>2, <2>2, <2>3, FinishesOnce DEF Records, Execute
  <2>5. QED
    BY <2>4
<1>3. CASE Register(m)
  <2>1. m.object = "REGISTER" /\ m.form = "good" /\ m.object \in Objects
    BY <1>3 DEF Register, Objects, part
  <2>2. PICK cmd \in NamedCommand :
          /\ named' = cmd
          /\ \/ Finish(m, RegisterNothing(m.form))
             \/ \E auth \in BOOLEAN :
                 \E inner \in Outcomes(cmd.object, {"isQuery"}, cmd.form, auth) :
                  /\ replies' =
                        emitDone(m, part[cmd.object], inner.output, bwithOutput.inner)
                        \o emitDone(m, part[m.object], RegisterNotifier(inner).output,
                                    bwithOutput.outer)
                  /\ effects' = RegisterNotifier(inner).effects
    BY <1>3 DEF Register
  <2>3. CASE Finish(m, RegisterNothing(m.form))
    <3>1. Honest(m.object, m.form, named', RegisterNothing(m.form))
      BY <2>1, RefusedHonest DEF RegisterNothing, isCommand1
    <3>2. Records(m, RegisterNothing(m.form))
      BY <2>1, <2>2, <2>3, <3>1, FinishesOnce DEF Records
    <3>3. QED
      BY <3>2
  <2>4. ASSUME NEW auth \in BOOLEAN,
               NEW inner \in Outcomes(cmd.object, {"isQuery"}, cmd.form, auth),
               replies' = emitDone(m, part[cmd.object], inner.output, bwithOutput.inner)
                          \o emitDone(m, part[m.object], RegisterNotifier(inner).output,
                                      bwithOutput.outer),
               effects' = RegisterNotifier(inner).effects
        PROVE  Records(m, RegisterNotifier(inner))
    <3> DEFINE reply == sendAnswer(m, RegisterNotifier(inner).output)
    <3>1. emitDone(m, part[cmd.object], inner.output, bwithOutput.inner) = <<>>
      BY DEF emitDone, bwithOutput
    <3>2. emitDone(m, part[m.object], RegisterNotifier(inner).output, bwithOutput.outer)
            = <<reply>>
      BY <2>1, EmitsOnce, PartsNamed DEF bwithOutput
    <3>3. replies' = <<reply>>
      BY <2>4, <3>1, <3>2
    <3>4. Honest(m.object, m.form, named', RegisterNotifier(inner))
      BY <2>1, <2>2, RegisterHonest
    <3>5. QED
      BY <2>2, <2>4, <3>3, <3>4 DEF Records
  <2>5. QED
    BY <2>2, <2>3, <2>4
<1>4. QED
  BY <1>1, <1>2, <1>3

\* Every command is answered exactly once, on its connection and under its id
\* and number, for any clients and numbers (AnsweredOnce).
THEOREM AlwaysAnsweredOnce == Spec => []AnsweredOnce
<1>1. Init => AnsweredOnce
  BY DEF Init, AnsweredOnce, IsCommand, NoMessage
<1>2. AnsweredOnce /\ [Next]_vars => AnsweredOnce'
  <2> SUFFICES ASSUME AnsweredOnce, [Next]_vars
               PROVE  AnsweredOnce'
    OBVIOUS
  <2>1. CASE Next
    <3>1. PICK m \in Message : executeCommand(m)
      BY <2>1 DEF Next
    <3>2. msg' = m
      BY <3>1 DEF executeCommand
    <3>3. CASE IsCommand(m)
      <4>1. PICK outcome : replies' = <<sendAnswer(m, outcome.output)>>
        BY <3>1, <3>3, HonestReplies DEF executeCommand, Unanswered, Records
      <4>2. Len(replies') = 1 /\ replies'[1] = sendAnswer(m, outcome.output)
        BY <4>1
      <4>3. QED
        BY <3>2, <3>3, <4>2 DEF AnsweredOnce, IsCommand, sendAnswer
    <3>4. CASE ~IsCommand(m)
      <4>1. replies' = <<>>
        BY <3>1, <3>4 DEF executeCommand, Unanswered, Reject, Execute, Register
      <4>2. QED
        BY <3>2, <3>4, <4>1 DEF AnsweredOnce, IsCommand
    <3>5. QED
      BY <3>3, <3>4
  <2>2. CASE UNCHANGED vars
    BY <2>2 DEF vars, AnsweredOnce, IsCommand
  <2>3. QED
    BY <2>1, <2>2
<1>3. QED
  BY <1>1, <1>2, PTL DEF Spec

\* What an answer refuses had no effect and what it acknowledges the one asked, but
\* for the three exceptions, whatever the command (RtypeTellsOutcome).
THEOREM RtypeIsTrue == Spec => []RtypeTellsOutcome
<1>1. Init => RtypeTellsOutcome
  BY DEF Init, RtypeTellsOutcome
<1>2. RtypeTellsOutcome /\ [Next]_vars => RtypeTellsOutcome'
  <2> SUFFICES ASSUME RtypeTellsOutcome, [Next]_vars
               PROVE  RtypeTellsOutcome'
    OBVIOUS
  <2>1. CASE Next
    <3>1. PICK m \in Message : executeCommand(m)
      BY <2>1 DEF Next
    <3>2. msg' = m
      BY <3>1 DEF executeCommand
    <3>3. CASE IsCommand(m)
      <4>1. PICK outcome : Records(m, outcome)
        BY <3>1, <3>3, HonestReplies DEF executeCommand, Unanswered
      <4>2. ASSUME NEW i \in DOMAIN replies'
            PROVE  /\ replies'[i].rtype \in {"NACK", "ERROR"} => effects' = {}
                   /\ replies'[i].rtype = "ACK" =>
                        purpose(msg'.object, msg'.form) \in effects' \/ ToldOnly(msg', named')
        <5>1. replies'[i] = sendAnswer(m, outcome.output)
          BY <4>1 DEF Records
        <5>2. replies'[i].rtype \in {"none", ReplyType(outcome.output)}
          BY <5>1 DEF sendAnswer
        <5>3. QED
          BY <3>2, <4>1, <5>2 DEF Records, Honest, ToldOnly
      <4>3. QED
        BY <4>2 DEF RtypeTellsOutcome
    <3>4. CASE ~IsCommand(m)
      <4>1. replies' = <<>>
        BY <3>1, <3>4 DEF executeCommand, Unanswered, Reject, Execute, Register
      <4>2. QED
        BY <4>1 DEF RtypeTellsOutcome
    <3>5. QED
      BY <3>3, <3>4
  <2>2. CASE UNCHANGED vars
    BY <2>2 DEF vars, RtypeTellsOutcome
  <2>3. QED
    BY <2>1, <2>2
<1>3. QED
  BY <1>1, <1>2, PTL DEF Spec

\* Answers have the type of their style.
LEMMA AnswerTyped ==
  ASSUME NEW m \in Message, IsCommand(m), NEW output \in Outputs
  PROVE  sendAnswer(m, output) \in Reply
<1>1. CASE m.kind = "numbered"
  <2>1. m.peer \in Peers /\ m.id \in ClientIds /\ m.nr \in Numbers
    BY <1>1 DEF Message
  <2>2. ReplyType(output) \in {"ACK", "NACK", "ERROR"}
    BY DEF ReplyType
  <2>3. QED
    BY <1>1, <2>1, <2>2 DEF sendAnswer, Reply
<1>2. CASE m.kind = "old"
  <2>1. m.peer \in Peers /\ m.id \in {EmptyId} /\ m.nr \in {0}
    BY <1>2 DEF Message
  <2>2. QED
    BY <1>2, <2>1 DEF sendAnswer, Reply
<1>3. QED
  BY <1>1, <1>2 DEF IsCommand

\* Messages, answers and outcomes keep their types (TypeOK).
THEOREM TypeCorrect == Spec => []TypeOK
<1>1. Init => TypeOK
  <2>1. <<>> \in Seq(Reply)
    OBVIOUS
  <2>2. QED
    BY <2>1 DEF Init, TypeOK
<1>2. TypeOK /\ [Next]_vars => TypeOK'
  <2> SUFFICES ASSUME TypeOK, [Next]_vars
               PROVE  TypeOK'
    OBVIOUS
  <2>1. CASE Next
    <3>1. PICK m \in Message : executeCommand(m)
      BY <2>1 DEF Next
    <3>2. msg' = m
      BY <3>1 DEF executeCommand
    <3>3. CASE IsCommand(m)
      <4>1. PICK outcome : Records(m, outcome)
        BY <3>1, <3>3, HonestReplies DEF executeCommand, Unanswered
      <4>2. outcome.output \in Outputs /\ outcome.effects \in SUBSET Effects
        BY <4>1 DEF Records, Honest, Typed
      <4>3. sendAnswer(m, outcome.output) \in Reply
        BY <3>3, <4>2, AnswerTyped
      <4>4. replies' \in Seq(Reply)
        BY <4>1, <4>3 DEF Records
      <4>5. effects' \in SUBSET Effects /\ named' \in NamedCommand \cup {NoCommand}
        BY <4>1, <4>2 DEF Records
      <4>6. QED
        BY <3>2, <4>4, <4>5 DEF TypeOK
    <3>4. CASE ~IsCommand(m)
      <4>1. replies' = <<>> /\ effects' \in SUBSET Effects /\ named' = NoCommand
        BY <3>1, <3>4 DEF executeCommand, Unanswered, Reject, Execute, Register, Effects
      <4>2. QED
        BY <3>2, <4>1 DEF TypeOK
    <3>5. QED
      BY <3>3, <3>4
  <2>2. CASE UNCHANGED vars
    BY <2>2 DEF vars, TypeOK
  <2>3. QED
    BY <2>1, <2>2
<1>3. QED
  BY <1>1, <1>2, PTL DEF Spec
=============================================================================
