--------------------------- MODULE MadsLinkProofs ---------------------------
(***************************************************************************)
(* The link to the FMU for every set of points and errors and every bound  *)
(* of the wire: LinkInv is inductive, and the link implements Machine.     *)
(***************************************************************************)
EXTENDS MadsLink, SequenceTheorems, TLAPS

\* The types of each part of the state.
ThreadTypeOK ==
  /\ step \in {"boot", "idle", "tick", "receive", "end", "aborted"}
  /\ call \in {"connect", "set", "reset", "metrics"}
  /\ setpoint \in Complete \cup {NoPoint, NaNPoint}
  /\ position \in Complete \cup {NoPoint}
  /\ error \in NearErrors \cup FarErrors \cup {NaN}
  /\ command \in Command
  /\ goal \in Points \cup {None}
  /\ before \in [setpoint : Complete \cup {NoPoint, NaNPoint}, fmuCmd : Complete]

OtherEndTypeOK ==
  /\ last \in Messages \cup {Empty}
  /\ queue \in Seq(Messages) /\ Len(queue) <= HighWatermark
  /\ wire \in Seq(Messages) /\ Len(wire) <= WireCap
  /\ fmuCmd \in Complete /\ fmuPos \in Complete

LEMMA Types == TypeOK <=> ThreadTypeOK /\ OtherEndTypeOK
BY DEF TypeOK, ThreadTypeOK, OtherEndTypeOK

\* Nothing is called before connect().
ConnectsFirst == step = "boot" => call = "connect"

\* A rapid has a target; a command holds something only during its call.
RapidHasGoal == step \in {"tick", "end"} => goal # None
ClearBetweenCalls == step \notin {"receive", "aborted"} => command = Cleared

\* What a call in progress has done since it began: the setpoint the FMU has is
\* the one it had or what it makes of the one ordered.
CallUnderWay ==
  InCall =>
    /\ call \in {"set", "reset"}
    /\ call = "set" => /\ setpoint # NoPoint
                       /\ fmuCmd \in {before.fmuCmd} \cup Abs!Understood(setpoint)
    /\ call = "reset" => setpoint = before.setpoint

\* The inductive invariant.
LinkInv ==
  /\ TypeOK /\ ConnectsFirst /\ RapidHasGoal /\ ClearBetweenCalls
  /\ PublishedIsOrdered /\ DiesOutsideSync /\ CallUnderWay

-----------------------------------------------------------------------------
\* The values the operators of the machine take.

LEMMA CompleteIs == Complete = Points \cup {Elsewhere}
BY DEF Complete, Abs!Complete

LEMMA ErrorsType ==
  ASSUME NEW s, NEW p
  PROVE  Abs!ErrorsOf(s, p) \subseteq NearErrors \cup FarErrors \cup {NaN}
BY DEF Abs!ErrorsOf

\* Outside a call the machine and the link agree on the FMU's command.
LEMMA UnderstoodType ==
  ASSUME TypeOK, ~InCall, NEW p \in Complete \cup {NaNPoint}
  PROVE  /\ Abs!Understood(p) \subseteq Complete
         /\ Abs!Understood(p) = IF p = NaNPoint THEN {fmuCmd, Elsewhere} ELSE {p}
<1>1. Abs!Understood(p) = IF p = NaNPoint THEN {fmuCmd, Elsewhere} ELSE {p}
  BY DEF Abs!Understood
<1>2. fmuCmd \in Complete /\ Elsewhere \in Complete
  BY CompleteIs DEF TypeOK
<1> QED
  BY <1>1, <1>2

LEMMA PositionsType ==
  ASSUME TypeOK, NEW m \in Messages \cup {Empty}
  PROVE  PositionsFrom(m) \subseteq Complete \cup {NoPoint}
<1>1. position \in Complete \cup {NoPoint}
  BY DEF TypeOK
<1>2. CASE m.kind = "state"
  <2>1. m.at \in Complete
    BY <1>2 DEF Messages, State, Partial, Own, Empty
  <2> QED
    BY <1>2, <2>1 DEF PositionsFrom
<1>3. CASE m.kind = "partial"
  BY <1>3 DEF PositionsFrom
<1>4. CASE m.kind \notin {"state", "partial"}
  BY <1>1, <1>4 DEF PositionsFrom
<1> QED
  BY <1>2, <1>3, <1>4

LEMMA ClearedIsCommand == Cleared \in Command
BY DEF Cleared, Command

-----------------------------------------------------------------------------
\* The parts of a call keep the invariant.

\* Nothing of the thread but what Settle and Publish leave to be said.
LEMMA SettleInv ==
  ASSUME LinkInv, Settle, OtherEndTypeOK', setpoint' \in Complete \cup {NoPoint, NaNPoint},
         position' \in Complete \cup {NoPoint}, call' \in {"set", "reset"},
         goal' = goal
  PROVE  LinkInv'
<1>1. error' \in NearErrors \cup FarErrors \cup {NaN}
  BY ErrorsType DEF Settle
<1>2. step' \in {"idle", "end", "tick"} /\ (step' # "idle" => goal # None)
  BY DEF Settle, Resume
<1>3. command' = Cleared /\ command' \in Command
  BY ClearedIsCommand DEF Settle
<1>4. before' \in [setpoint : Complete \cup {NoPoint, NaNPoint}, fmuCmd : Complete]
  BY CompleteIs, PointsAssumption DEF Settle
<1>5. goal' \in Points \cup {None}
  BY DEF LinkInv, TypeOK
<1>6. TypeOK'
  BY <1>1, <1>2, <1>3, <1>4, <1>5, Types DEF ThreadTypeOK, OtherEndTypeOK, TypeOK
<1> QED
  BY <1>2, <1>3, <1>6 DEF LinkInv, ConnectsFirst, RapidHasGoal, ClearBetweenCalls,
     PublishedIsOrdered, DiesOutsideSync, CallUnderWay, InCall

\* sync() from its beginning: command c is that of the call, and the FMU takes
\* it for what the machine says it does.
LEMMA PublishInv ==
  ASSUME LinkInv, step \in {"idle", "tick"},
         NEW c \in Command, NEW meant, NEW how, Publish(c, meant, how),
         meant \subseteq Complete,
         call' \in {"set", "reset"}, setpoint' \in Complete \cup {NoPoint, NaNPoint},
         call' = "set" => /\ c = [setpoint |-> setpoint', reset |-> FALSE]
                          /\ setpoint' # NoPoint
                          /\ meant = Abs!Understood(setpoint'),
         call' = "reset" => /\ c = [setpoint |-> None, reset |-> TRUE]
                            /\ setpoint' = setpoint,
         UNCHANGED <<goal, agent, wire, fmuPos>>
  PROVE  LinkInv'
<1>1. ~InCall
  BY DEF InCall
<1>2. fmuCmd \in Complete /\ setpoint \in Complete \cup {NoPoint, NaNPoint}
  BY DEF LinkInv, TypeOK
<1>3. fmuCmd' \in Complete
  BY <1>2 DEF Publish
<1>4. OtherEndTypeOK'
  BY <1>3 DEF LinkInv, TypeOK, OtherEndTypeOK, agent
<1>5. CASE how = "throws"
  <2>1. Settle /\ position' = position
    BY <1>5 DEF Publish
  <2> QED
    BY <1>4, <2>1, SettleInv DEF LinkInv, TypeOK
<1>6. CASE how # "throws"
  <2>1. /\ command' = c /\ step' = "receive"
        /\ fmuCmd' \in {fmuCmd} \cup meant
        /\ before' = [setpoint |-> setpoint, fmuCmd |-> fmuCmd]
        /\ UNCHANGED <<position, error>>
    BY <1>6 DEF Publish
  <2>2. before' \in [setpoint : Complete \cup {NoPoint, NaNPoint}, fmuCmd : Complete]
    BY <1>2, <2>1
  <2>3. TypeOK'
    BY <1>4, <2>1, <2>2, Types DEF LinkInv, TypeOK, ThreadTypeOK, OtherEndTypeOK
  <2>4. InCall' /\ before'.fmuCmd = fmuCmd /\ before'.setpoint = setpoint
    BY <2>1 DEF InCall
  <2>5. ASSUME call' = "set"
        PROVE  fmuCmd' \in {before'.fmuCmd} \cup Abs!Understood(setpoint)'
    <3>1. Abs!Understood(setpoint') = IF setpoint' = NaNPoint THEN {fmuCmd, Elsewhere}
                                      ELSE {setpoint'}
      BY <1>1 DEF Abs!Understood
    <3>2. Abs!Understood(setpoint)' = IF setpoint' = NaNPoint
                                      THEN {before'.fmuCmd, Elsewhere} ELSE {setpoint'}
      BY <2>4 DEF Abs!Understood
    <3> QED
      BY <2>1, <2>4, <2>5, <3>1, <3>2
  <2>6. CallUnderWay'
    BY <2>4, <2>5 DEF CallUnderWay
  <2>7. PublishedIsOrdered'
    BY <2>1 DEF PublishedIsOrdered
  <2> QED
    BY <2>1, <2>3, <2>6, <2>7 DEF LinkInv, ConnectsFirst, RapidHasGoal, ClearBetweenCalls,
       DiesOutsideSync
<1> QED
  BY <1>5, <1>6

-----------------------------------------------------------------------------
\* LinkInv is inductive.

LEMMA InitLink == Init => LinkInv
<1> SUFFICES ASSUME Init
             PROVE  LinkInv
  OBVIOUS
<1>1. Zero \in Complete /\ Elsewhere \in Complete
  BY CompleteIs, PointsAssumption
<1>2. before \in [setpoint : Complete \cup {NoPoint, NaNPoint}, fmuCmd : Complete]
  BY <1>1 DEF Init
<1>3. TypeOK
  BY <1>1, <1>2, ClearedIsCommand, LinkAssumption, EmptySeq
     DEF Init, TypeOK, HighWatermark
<1> QED
  BY <1>3 DEF Init, LinkInv, ConnectsFirst, RapidHasGoal, ClearBetweenCalls, PublishedIsOrdered,
     DiesOutsideSync, CallUnderWay, InCall

\* A setpoint, commanded in a rapid or not.
LEMMA SetSetpointInv ==
  ASSUME LinkInv, step \in {"idle", "tick"}, NEW p \in Complete \cup {NoPoint, NaNPoint},
         NEW how, SetSetpoint(p, how)
  PROVE  LinkInv'
<1>1. /\ call' = "set" /\ setpoint' = p
      /\ UNCHANGED <<goal, agent, wire, fmuPos>>
  BY DEF SetSetpoint
<1>2. CASE p = NoPoint
  <2>1. step' = "aborted" /\ UNCHANGED <<position, error, command, before, fmuCmd>>
    BY <1>2 DEF SetSetpoint
  <2>2. TypeOK'
    BY <1>1, <2>1 DEF LinkInv, TypeOK, agent
  <2> QED
    BY <1>1, <1>2, <2>1, <2>2 DEF LinkInv, ConnectsFirst, RapidHasGoal, ClearBetweenCalls,
       PublishedIsOrdered, DiesOutsideSync, CallUnderWay, InCall
<1>3. CASE p # NoPoint
  <2> DEFINE c == [setpoint |-> p, reset |-> command.reset]
  <2>1. Publish(c, Abs!Understood(p), how)
    BY <1>3 DEF SetSetpoint
  <2>2. c = [setpoint |-> p, reset |-> FALSE] /\ c \in Command
    <3>1. command = [setpoint |-> None, reset |-> FALSE]
      BY DEF LinkInv, ClearBetweenCalls, Cleared
    <3>2. command.reset = FALSE
      BY <3>1
    <3>3. c = [setpoint |-> p, reset |-> FALSE]
      BY <3>2, Zenon
    <3> QED
      BY <1>3, <3>3 DEF Command
  <2>3. Abs!Understood(p) \subseteq Complete
    BY <1>3, UnderstoodType DEF LinkInv, InCall
  <2> HIDE DEF c
  <2> QED
    BY <1>1, <1>3, <2>1, <2>2, <2>3, PublishInv
<1> QED
  BY <1>2, <1>3

LEMMA ResetInv ==
  ASSUME LinkInv, NEW how, Reset(how)
  PROVE  LinkInv'
<1> DEFINE c == [setpoint |-> command.setpoint, reset |-> TRUE]
<1>1. c = [setpoint |-> None, reset |-> TRUE] /\ c \in Command
  <2>1. command = [setpoint |-> None, reset |-> FALSE]
    BY DEF Reset, LinkInv, ClearBetweenCalls, Cleared
  <2>2. command.setpoint = None
    BY <2>1
  <2>3. c = [setpoint |-> None, reset |-> TRUE]
    BY <2>2, Zenon
  <2> QED
    BY <2>3 DEF Command
<1>2. Publish(c, Complete, how)
  BY DEF Reset
<1> HIDE DEF c
<1> QED
  BY <1>1, <1>2, PublishInv DEF Reset, LinkInv, TypeOK

\* What the agent holds after it has returned a message.
LEMMA TakenType ==
  ASSUME TypeOK, Receive
  PROVE  /\ last' \in Messages \cup {Empty}
         /\ queue' \in Seq(Messages) /\ Len(queue') <= HighWatermark
<1>1. CASE queue = <<>>
  BY <1>1 DEF TypeOK, Receive, agent
<1>2. CASE queue # <<>>
  <2>1. last' = Head(queue) /\ queue' = Tail(queue)
    BY <1>2 DEF Receive
  <2>2. queue \in Seq(Messages) /\ Len(queue) <= 1
    BY DEF TypeOK, HighWatermark
  <2>3. Head(queue) \in Messages /\ Tail(queue) \in Seq(Messages)
        /\ Len(Tail(queue)) = Len(queue) - 1
    BY <1>2, <2>2, HeadTailProperties
  <2>4. Len(queue) \in Nat
    BY <2>2, LenProperties
  <2> QED
    BY <2>1, <2>2, <2>3, <2>4 DEF HighWatermark
<1> QED
  BY <1>1, <1>2

LEMMA ReceiveInv ==
  ASSUME LinkInv, Receive \/ ReceiveThrows
  PROVE  LinkInv'
<1>1. /\ Settle /\ InCall /\ UNCHANGED <<call, setpoint, goal, wire, fmu>>
  BY DEF Receive, ReceiveThrows, InCall
<1>2. call' \in {"set", "reset"} /\ setpoint' \in Complete \cup {NoPoint, NaNPoint}
  BY <1>1 DEF LinkInv, CallUnderWay, TypeOK
<1>3. CASE Receive
  <2>1. position' \in Complete \cup {NoPoint}
    BY <1>3, TakenType, PositionsType DEF Receive, LinkInv
  <2>2. OtherEndTypeOK'
    BY <1>1, <1>3, TakenType DEF LinkInv, TypeOK, OtherEndTypeOK, fmu
  <2> QED
    BY <1>1, <1>2, <2>1, <2>2, SettleInv
<1>4. CASE ReceiveThrows
  <2>1. position' \in Complete \cup {NoPoint} /\ OtherEndTypeOK'
    BY <1>4 DEF ReceiveThrows, LinkInv, TypeOK, OtherEndTypeOK, agent, fmu
  <2> QED
    BY <1>1, <1>2, <2>1, SettleInv
<1> QED
  BY <1>3, <1>4

\* Putting a message on the wire keeps within its bound.
LEMMA WireType ==
  ASSUME TypeOK, NEW m \in Messages, Len(wire) < WireCap, wire' = Append(wire, m)
  PROVE  wire' \in Seq(Messages) /\ Len(wire') <= WireCap
<1>1. wire \in Seq(Messages) /\ Len(wire) \in Nat
  BY LenProperties DEF TypeOK
<1>2. wire' \in Seq(Messages) /\ Len(wire') = Len(wire) + 1
  BY <1>1, AppendProperties
<1> QED
  BY <1>1, <1>2, LinkAssumption

LEMMA SendMetricsInv ==
  ASSUME LinkInv, step \in {"idle", "end"}, NEW next \in {"idle", "tick"}, SendMetrics(next),
         goal' \in Points \cup {None}, next = "tick" => goal' # None
  PROVE  LinkInv'
<1>1. /\ call' = "metrics" /\ step' \in {"aborted", next}
      /\ UNCHANGED <<setpoint, position, error, command, before, agent, fmu>>
  BY DEF SendMetrics
<1>2. wire' \in Seq(Messages) /\ Len(wire') <= WireCap
  BY WireType DEF SendMetrics, LinkInv, TypeOK, Messages
<1>3. TypeOK'
  BY <1>1, <1>2 DEF LinkInv, TypeOK, agent, fmu
<1> QED
  BY <1>1, <1>3 DEF LinkInv, ConnectsFirst, RapidHasGoal, ClearBetweenCalls, PublishedIsOrdered,
     DiesOutsideSync, CallUnderWay, InCall

\* The other end changes nothing the thread has.
LEMMA OtherEndInv ==
  ASSUME LinkInv, UNCHANGED thread, fmuCmd' = fmuCmd, OtherEndTypeOK'
  PROVE  LinkInv'
<1>1. TypeOK'
  BY Types DEF LinkInv, TypeOK, ThreadTypeOK, OtherEndTypeOK, thread
<1>2. CallUnderWay'
  <2> SUFFICES ASSUME InCall
               PROVE  CallUnderWay'
    BY DEF CallUnderWay, InCall, thread
  <2>1. Abs!Understood(setpoint)' = Abs!Understood(setpoint)
    BY DEF Abs!Understood, InCall, thread
  <2> QED
    BY <2>1 DEF LinkInv, CallUnderWay, InCall, thread
<1> QED
  BY <1>1, <1>2 DEF LinkInv, ConnectsFirst, RapidHasGoal, ClearBetweenCalls, PublishedIsOrdered,
     DiesOutsideSync, InCall, thread

LEMMA DeliverType ==
  ASSUME TypeOK, Deliver
  PROVE  OtherEndTypeOK'
<1>1. wire \in Seq(Messages) /\ wire # <<>> /\ queue \in Seq(Messages)
      /\ Len(queue) \in Nat /\ Len(wire) \in Nat /\ Len(queue) < HighWatermark
      /\ Len(wire) <= WireCap
  BY LenProperties DEF TypeOK, Deliver
<1>2. /\ Head(wire) \in Messages /\ Tail(wire) \in Seq(Messages)
      /\ Len(Tail(wire)) = Len(wire) - 1
  BY <1>1, HeadTailProperties
<1>3. /\ Append(queue, Head(wire)) \in Seq(Messages)
      /\ Len(Append(queue, Head(wire))) = Len(queue) + 1
  BY <1>1, <1>2, AppendProperties
<1>4. Len(queue') <= HighWatermark /\ Len(wire') <= WireCap
  BY <1>1, <1>2, <1>3, LinkAssumption DEF Deliver, HighWatermark
<1> QED
  BY <1>2, <1>3, <1>4 DEF TypeOK, Deliver, OtherEndTypeOK, fmu

LEMMA ConnectInv ==
  ASSUME LinkInv, Connect
  PROVE  LinkInv'
<1>1. /\ step' \in {"idle", "aborted"} /\ command' = Cleared /\ call = "connect"
      /\ UNCHANGED <<call, setpoint, position, error, goal, before, last, queue,
                     wire, fmuCmd, fmuPos>>
  BY DEF Connect, LinkInv, ConnectsFirst, agent, fmu
<1>2. command' \in Command
  BY <1>1, ClearedIsCommand
<1>3. TypeOK'
  BY <1>1, <1>2 DEF LinkInv, TypeOK
<1> QED
  BY <1>1, <1>3 DEF LinkInv, ConnectsFirst, RapidHasGoal, ClearBetweenCalls, PublishedIsOrdered,
     DiesOutsideSync, CallUnderWay, InCall

LEMMA StepLink == LinkInv /\ [Next]_vars => LinkInv'
<1> SUFFICES ASSUME LinkInv, [Next]_vars
             PROVE  LinkInv'
  OBVIOUS
<1>1. CASE Connect
  BY <1>1, ConnectInv
<1>2. ASSUME NEW how \in Outcomes, NEW p \in Complete \cup {NoPoint, NaNPoint},
             OtherSetpoint(p, how)
      PROVE  LinkInv'
  BY <1>2, SetSetpointInv DEF OtherSetpoint
<1>3. ASSUME NEW how \in Outcomes, RapidTick(how)
      PROVE  LinkInv'
  <2>1. goal \in Complete
    BY <1>3, CompleteIs DEF RapidTick, LinkInv, TypeOK, RapidHasGoal
  <2> QED
    BY <1>3, <2>1, SetSetpointInv DEF RapidTick
<1>4. ASSUME NEW how \in Outcomes, Reset(how)
      PROVE  LinkInv'
  BY <1>4, ResetInv
<1>5. CASE Receive \/ ReceiveThrows
  BY <1>5, ReceiveInv
<1>6. CASE ReportLine
  BY <1>6, SendMetricsInv DEF ReportLine, LinkInv, TypeOK
<1>7. CASE EndRapid
  BY <1>7, SendMetricsInv DEF EndRapid
<1>8. ASSUME NEW p \in Points, BeginRapid(p)
      PROVE  LinkInv'
  BY <1>8, SendMetricsInv, LinkAssumption DEF BeginRapid
<1>9. ASSUME NEW p \in Complete, FmuMove(p)
      PROVE  LinkInv'
  <2>1. OtherEndTypeOK'
    BY <1>9 DEF FmuMove, LinkInv, TypeOK, OtherEndTypeOK, agent
  <2> QED
    BY <1>9, <2>1, OtherEndInv DEF FmuMove
<1>10. ASSUME NEW m \in Messages, FmuPublish(m)
       PROVE  LinkInv'
  <2>1. wire' \in Seq(Messages) /\ Len(wire') <= WireCap
    BY <1>10, WireType DEF FmuPublish, LinkInv
  <2>2. OtherEndTypeOK'
    BY <1>10, <2>1 DEF FmuPublish, LinkInv, TypeOK, OtherEndTypeOK, agent, fmu
  <2> QED
    BY <1>10, <2>2, OtherEndInv DEF FmuPublish, fmu
<1>11. CASE Deliver
  BY <1>11, DeliverType, OtherEndInv DEF Deliver, LinkInv, fmu
<1>12. CASE UNCHANGED vars
  <2>1. OtherEndTypeOK'
    BY <1>12 DEF vars, agent, fmu, LinkInv, TypeOK, OtherEndTypeOK
  <2> QED
    BY <1>12, <2>1, OtherEndInv DEF vars, fmu
<1> QED
  BY <1>1, <1>2, <1>3, <1>4, <1>5, <1>6, <1>7, <1>8, <1>9, <1>10, <1>11, <1>12
     DEF Next, Gone

\* LinkInv holds of the link, however many points, errors and messages.
THEOREM LinkInvariance == Spec => []LinkInv
<1>1. Init => LinkInv
  BY InitLink
<1>2. LinkInv /\ [Next]_vars => LinkInv'
  BY StepLink
<1> QED
  BY <1>1, <1>2, PTL DEF Spec

\* What sync() publishes is the order of the call under way: a command left
\* over from a call that ended with an exception is never published again.
THEOREM OrdersPublished == Spec => []PublishedIsOrdered
<1>1. LinkInv => PublishedIsOrdered
  BY DEF LinkInv
<1> QED
  BY <1>1, LinkInvariance, PTL

\* Whatever an exchange of sync() loses or throws, the process goes on.
THEOREM SyncNeverKills == Spec => []DiesOutsideSync
<1>1. LinkInv => DiesOutsideSync
  BY DEF LinkInv
<1> QED
  BY <1>1, LinkInvariance, PTL

\* The values of the link's state.
THEOREM LinkTypeCorrect == Spec => []TypeOK
<1>1. LinkInv => TypeOK
  BY DEF LinkInv
<1> QED
  BY <1>1, LinkInvariance, PTL

-----------------------------------------------------------------------------
\* The link implements the machine.

\* The machine's setpoint and the FMU's command, as Abs is instantiated.
AbsSetpoint == IF InCall THEN before.setpoint ELSE setpoint
AbsFmuCmd   == IF InCall THEN before.fmuCmd ELSE fmuCmd

Gots == {"state", "other", "nothing", "torn"}

LEMMA ExchangeIs ==
  ASSUME NEW s \in BOOLEAN, NEW g \in Gots
  PROVE  /\ [sent |-> s, got |-> g] \in Abs!Exchanges
         /\ [sent |-> s, got |-> g].got = g
         /\ [sent |-> s, got |-> g].sent = s
BY DEF Abs!Exchanges, Abs!Exchange, Gots

\* A call of the machine, told by what it leaves.
LEMMA SetImplements ==
  ASSUME NEW p \in Complete \cup {NaNPoint}, NEW x \in Abs!Exchanges,
         AbsSetpoint' = p, fmuPos' = fmuPos,
         AbsFmuCmd' \in IF x.sent THEN Abs!Understood(p) ELSE {AbsFmuCmd},
         position' \in Abs!PositionsAfter(x), error' \in Abs!ErrorsOf(p, position')
  PROVE  Abs!MachineNext
<1>1. p # NoPoint
  BY CompleteIs, PointsAssumption
<1>2. Abs!Sync(p, x)
  BY DEF Abs!Sync, AbsFmuCmd
<1>3. Abs!SetSetpoint(p, x)
  BY <1>1, <1>2 DEF Abs!SetSetpoint, AbsSetpoint
<1> QED
  BY <1>3, CompleteIs DEF Abs!MachineNext, Abs!Complete

LEMMA ResetImplements ==
  ASSUME NEW x \in Abs!Exchanges,
         AbsSetpoint' = AbsSetpoint, fmuPos' = fmuPos,
         AbsFmuCmd' \in IF x.sent THEN Complete ELSE {AbsFmuCmd},
         position' \in Abs!PositionsAfter(x),
         error' \in Abs!ErrorsOf(AbsSetpoint, position')
  PROVE  Abs!MachineNext
<1>1. Abs!ResetMachine(x)
  BY CompleteIs DEF Abs!ResetMachine, AbsFmuCmd, AbsSetpoint, Abs!Complete
<1> QED
  BY <1>1 DEF Abs!MachineNext

\* The machine's positions depend on what was got alone, and the link's are
\* those of some message the machine may get.
LEMMA GotAlone ==
  ASSUME NEW s \in BOOLEAN, NEW t \in BOOLEAN, NEW g \in Gots
  PROVE  Abs!PositionsAfter([sent |-> s, got |-> g])
           = Abs!PositionsAfter([sent |-> t, got |-> g])
BY DEF Abs!PositionsAfter

LEMMA GotOf ==
  ASSUME TypeOK, NEW m \in Messages \cup {Empty}
  PROVE  \E g \in Gots :
           PositionsFrom(m) \subseteq Abs!PositionsAfter([sent |-> TRUE, got |-> g])
<1>1. CASE m.kind = "state"
  <2>1. m.at \in Complete
    BY <1>1 DEF Messages, State, Partial, Own, Empty
  <2>2. Abs!PositionsAfter([sent |-> TRUE, got |-> "other"]) = Complete
    BY CompleteIs DEF Abs!PositionsAfter, Abs!Complete
  <2>3. PositionsFrom(m) \subseteq Complete
    BY <1>1, <2>1 DEF PositionsFrom
  <2> QED
    BY <2>2, <2>3 DEF Gots
<1>2. CASE m.kind = "partial"
  <2>1. Abs!PositionsAfter([sent |-> TRUE, got |-> "torn"])
          = IF position = NoPoint THEN {NoPoint} ELSE Complete
    BY CompleteIs DEF Abs!PositionsAfter, Abs!Complete
  <2>2. PositionsFrom(m) = IF position = NoPoint THEN {NoPoint} ELSE Complete
    BY <1>2 DEF PositionsFrom
  <2> QED
    BY <2>1, <2>2 DEF Gots
<1>3. CASE m.kind \notin {"state", "partial"}
  <2>1. Abs!PositionsAfter([sent |-> TRUE, got |-> "nothing"]) = {position}
    BY DEF Abs!PositionsAfter
  <2>2. PositionsFrom(m) = {position}
    BY <1>3 DEF PositionsFrom
  <2> QED
    BY <2>1, <2>2 DEF Gots
<1> QED
  BY <1>1, <1>2, <1>3

\* The end of sync() is where the call happens to the machine.
LEMMA CallEnds ==
  ASSUME LinkInv, InCall, Settle, UNCHANGED <<call, setpoint, fmu>>,
         NEW g \in Gots,
         position' \in Abs!PositionsAfter([sent |-> TRUE, got |-> g])
  PROVE  Abs!MachineNext
<1>1. ~InCall'
  BY DEF Settle, Resume, InCall
<1>2. /\ AbsSetpoint' = setpoint /\ AbsFmuCmd' = fmuCmd /\ fmuPos' = fmuPos
      /\ AbsSetpoint = before.setpoint /\ AbsFmuCmd = before.fmuCmd
  BY <1>1 DEF AbsSetpoint, AbsFmuCmd, fmu
<1>3. error' \in Abs!ErrorsOf(setpoint, position')
  BY DEF Settle
<1>4. CASE call = "set"
  <2>1. setpoint \in Complete \cup {NaNPoint}
    BY <1>4 DEF LinkInv, CallUnderWay, TypeOK
  <2>2. fmuCmd \in {before.fmuCmd} \cup Abs!Understood(setpoint)
    BY <1>4 DEF LinkInv, CallUnderWay
  <2>3. CASE fmuCmd \in Abs!Understood(setpoint)
    <3> DEFINE x == [sent |-> TRUE, got |-> g]
    <3>1. x \in Abs!Exchanges /\ x.sent
      BY ExchangeIs
    <3> HIDE DEF x
    <3> QED
      BY <1>2, <1>3, <2>1, <2>3, <3>1, SetImplements DEF x
  <2>4. CASE fmuCmd = before.fmuCmd
    <3> DEFINE x == [sent |-> FALSE, got |-> g]
    <3>1. x \in Abs!Exchanges /\ ~x.sent
      BY ExchangeIs
    <3>2. position' \in Abs!PositionsAfter(x)
      BY GotAlone
    <3> HIDE DEF x
    <3> QED
      BY <1>2, <1>3, <2>1, <2>4, <3>1, <3>2, SetImplements
  <2> QED
    BY <2>2, <2>3, <2>4
<1>5. CASE call = "reset"
  <2> DEFINE x == [sent |-> TRUE, got |-> g]
  <2>1. x \in Abs!Exchanges /\ x.sent
    BY ExchangeIs
  <2>2. fmuCmd \in Complete /\ setpoint = before.setpoint
    BY <1>5 DEF LinkInv, TypeOK, CallUnderWay
  <2>3. position' \in Abs!PositionsAfter(x)
    OBVIOUS
  <2> HIDE DEF x
  <2> QED
    BY <1>2, <1>3, <2>1, <2>2, <2>3, ResetImplements
<1> QED
  BY <1>4, <1>5 DEF LinkInv, CallUnderWay

\* Between calls the machine has what the link has.
LEMMA Outside ==
  /\ ~InCall => AbsSetpoint = setpoint /\ AbsFmuCmd = fmuCmd
  /\ ~InCall' => AbsSetpoint' = setpoint' /\ AbsFmuCmd' = fmuCmd'
BY DEF AbsSetpoint, AbsFmuCmd

LEMMA StutterIs ==
  ASSUME UNCHANGED <<AbsSetpoint, AbsFmuCmd, position, error, fmuPos>>
  PROVE  UNCHANGED Abs!machVars
BY DEF Abs!machVars, AbsSetpoint, AbsFmuCmd

\* A call that throws when it publishes ends at once; one that publishes has not
\* happened yet.
LEMMA PublishWaits ==
  ASSUME ~InCall, NEW c, NEW meant, NEW how, how # "throws", Publish(c, meant, how),
         fmuPos' = fmuPos
  PROVE  UNCHANGED Abs!machVars
<1>1. InCall' /\ before'.setpoint = setpoint /\ before'.fmuCmd = fmuCmd
      /\ UNCHANGED <<position, error>>
  BY DEF Publish, InCall
<1>2. AbsSetpoint' = setpoint /\ AbsFmuCmd' = fmuCmd
  BY <1>1 DEF AbsSetpoint, AbsFmuCmd
<1> QED
  BY <1>1, <1>2, Outside, StutterIs

LEMMA PublishThrows ==
  ASSUME ~InCall, NEW c, NEW meant, Publish(c, meant, "throws")
  PROVE  /\ ~InCall' /\ fmuCmd' = fmuCmd
         /\ \E x \in Abs!Exchanges : ~x.sent /\ position' \in Abs!PositionsAfter(x)
         /\ error' \in Abs!ErrorsOf(setpoint', position')
<1>1. Settle /\ UNCHANGED <<fmuCmd, position>>
  BY DEF Publish
<1>2. ~InCall' /\ error' \in Abs!ErrorsOf(setpoint', position')
  BY <1>1 DEF Settle, Resume, InCall
<1> DEFINE x == [sent |-> FALSE, got |-> "nothing"]
<1>3. x \in Abs!Exchanges /\ ~x.sent /\ x.got = "nothing"
  BY ExchangeIs DEF Gots
<1>4. position' \in Abs!PositionsAfter(x)
  BY <1>1, <1>3 DEF Abs!PositionsAfter
<1> HIDE DEF x
<1> QED
  BY <1>1, <1>2, <1>3, <1>4

LEMMA SetSetpointImplements ==
  ASSUME ~InCall, NEW p \in Complete \cup {NoPoint, NaNPoint}, NEW how,
         SetSetpoint(p, how)
  PROVE  [Abs!MachineNext]_(Abs!machVars)
<1>1. setpoint' = p /\ fmuPos' = fmuPos
  BY DEF SetSetpoint
<1>2. CASE p = NoPoint
  <2>1. ~InCall' /\ UNCHANGED <<position, error, fmuCmd>>
    BY <1>2 DEF SetSetpoint, InCall
  <2>2. AbsSetpoint' = p /\ AbsFmuCmd' = AbsFmuCmd
    BY <1>1, <2>1, Outside
  <2> DEFINE x == [sent |-> FALSE, got |-> "nothing"]
  <2>3. x \in Abs!Exchanges
    BY ExchangeIs DEF Gots
  <2> HIDE DEF x
  <2>4. Abs!SetSetpoint(p, x)
    BY <1>1, <1>2, <2>1, <2>2 DEF Abs!SetSetpoint, AbsSetpoint, AbsFmuCmd
  <2> QED
    BY <2>3, <2>4, CompleteIs DEF Abs!MachineNext, Abs!Complete
<1>3. CASE p # NoPoint
  <2>1. PICK c : Publish(c, Abs!Understood(p), how)
    BY <1>3 DEF SetSetpoint
  <2>2. CASE how = "throws"
    BY <1>1, <1>3, <2>1, <2>2, PublishThrows, Outside, SetImplements
  <2> QED
    BY <1>1, <2>1, <2>2, PublishWaits
<1> QED
  BY <1>2, <1>3

LEMMA ResetStepImplements ==
  ASSUME NEW how, Reset(how)
  PROVE  [Abs!MachineNext]_(Abs!machVars)
<1>1. /\ ~InCall /\ setpoint' = setpoint /\ fmuPos' = fmuPos
      /\ \E c : Publish(c, Complete, how)
  BY DEF Reset, InCall
<1>2. PICK c : Publish(c, Complete, how)
  BY <1>1
<1>3. CASE how = "throws"
  BY <1>1, <1>2, <1>3, PublishThrows, Outside, ResetImplements
<1> QED
  BY <1>1, <1>2, <1>3, PublishWaits

LEMMA ReceiveImplements ==
  ASSUME LinkInv, Receive \/ ReceiveThrows
  PROVE  Abs!MachineNext
<1>1. InCall /\ Settle /\ UNCHANGED <<call, setpoint, fmu>>
  BY DEF Receive, ReceiveThrows, InCall
<1>2. CASE Receive
  <2>1. last' \in Messages \cup {Empty} /\ position' \in PositionsFrom(last')
    BY <1>2, TakenType DEF Receive, LinkInv
  <2>2. PICK g \in Gots :
          PositionsFrom(last') \subseteq Abs!PositionsAfter([sent |-> TRUE, got |-> g])
    BY <2>1, GotOf DEF LinkInv
  <2> QED
    BY <1>1, <2>1, <2>2, CallEnds
<1>3. CASE ReceiveThrows
  <2>1. position' = position
    BY <1>3 DEF ReceiveThrows
  <2>2. position' \in Abs!PositionsAfter([sent |-> TRUE, got |-> "nothing"])
    BY <2>1 DEF Abs!PositionsAfter
  <2> QED
    BY <1>1, <2>2, CallEnds DEF Gots
<1> QED
  BY <1>2, <1>3

\* A step that leaves the call, the machine's values and the FMU's alone.
LEMMA QuietStep ==
  ASSUME (InCall <=> InCall'), UNCHANGED <<setpoint, position, error, before, fmuCmd>>,
         fmuPos' = fmuPos
  PROVE  UNCHANGED Abs!machVars
BY StutterIs DEF AbsSetpoint, AbsFmuCmd

LEMMA RefinesStep ==
  ASSUME LinkInv, [Next]_vars
  PROVE  [Abs!MachineNext]_(Abs!machVars)
<1>1. CASE Connect
  BY <1>1, QuietStep DEF Connect, InCall, fmu
<1>2. ASSUME NEW how \in Outcomes, NEW p \in Complete \cup {NoPoint, NaNPoint},
             OtherSetpoint(p, how)
      PROVE  [Abs!MachineNext]_(Abs!machVars)
  BY <1>2, SetSetpointImplements DEF OtherSetpoint, InCall
<1>3. ASSUME NEW how \in Outcomes, RapidTick(how)
      PROVE  [Abs!MachineNext]_(Abs!machVars)
  <2>1. goal \in Complete
    BY <1>3, CompleteIs DEF RapidTick, LinkInv, TypeOK, RapidHasGoal
  <2> QED
    BY <1>3, <2>1, SetSetpointImplements DEF RapidTick, InCall
<1>4. ASSUME NEW how \in Outcomes, Reset(how)
      PROVE  [Abs!MachineNext]_(Abs!machVars)
  BY <1>4, ResetStepImplements
<1>5. CASE Receive \/ ReceiveThrows
  BY <1>5, ReceiveImplements
<1>6. ASSUME step \in {"idle", "end"}, NEW next \in {"idle", "tick"}, SendMetrics(next)
      PROVE  UNCHANGED Abs!machVars
  BY <1>6, QuietStep DEF SendMetrics, InCall, fmu
<1>7. CASE ReportLine \/ EndRapid \/ \E p \in Points : BeginRapid(p)
  BY <1>6, <1>7 DEF ReportLine, EndRapid, BeginRapid
<1>8. ASSUME NEW p \in Complete, FmuMove(p)
      PROVE  [Abs!MachineNext]_(Abs!machVars)
  <2>1. /\ AbsSetpoint' = AbsSetpoint /\ AbsFmuCmd' = AbsFmuCmd
        /\ fmuPos' = p /\ UNCHANGED <<position, error>>
    BY <1>8 DEF FmuMove, AbsSetpoint, AbsFmuCmd, InCall, thread
  <2>2. Abs!FmuMove(p)
    BY <2>1 DEF Abs!FmuMove, AbsSetpoint, AbsFmuCmd
  <2> QED
    BY <2>2, CompleteIs DEF Abs!MachineNext, Abs!Complete
<1>9. ASSUME UNCHANGED thread, UNCHANGED fmu
      PROVE  UNCHANGED Abs!machVars
  BY <1>9, QuietStep DEF thread, fmu, InCall
<1>10. ASSUME NEW m \in Messages, FmuPublish(m)
       PROVE  UNCHANGED Abs!machVars
  BY <1>9, <1>10 DEF FmuPublish
<1>11. CASE Deliver
  BY <1>9, <1>11 DEF Deliver
<1>12. CASE UNCHANGED vars
  BY <1>9, <1>12 DEF vars
<1> QED
  BY <1>1, <1>2, <1>3, <1>4, <1>5, <1>7, <1>8, <1>10, <1>11, <1>12 DEF Next, Gone

LEMMA RefinesInit == Init => Abs!MachineInit
BY DEF Init, InCall, Abs!MachineInit

\* Every behaviour of the link, whatever it loses, repeats or interleaves, is
\* one of the machine whose calls are single steps: what the controller's model
\* assumes of set_setpoint and reset.
THEOREM LinkImplementsMachine == Spec => MachineRefined
<1>1. Init => Abs!MachineInit
  BY RefinesInit
<1>2. LinkInv /\ [Next]_vars => [Abs!MachineNext]_(Abs!machVars)
  BY RefinesStep
<1> QED
  BY <1>1, <1>2, LinkInvariance, PTL DEF Spec, MachineRefined, Abs!MachineSpec
=============================================================================
