-------------------------- MODULE AlarmSystemProofs --------------------------
(***************************************************************************)
(* The composition is sound: a behaviour of AlarmSystem, projected on the  *)
(* server, is one of SecurityPanel and, projected on the channel, one of   *)
(* CameraChannel.  What is proved of the panel is carried over here; what  *)
(* is proved of every behaviour of the channel holds of this use of it.    *)
(*                                                                         *)
(* With one client, moreover, the camera watches just while the system is  *)
(* locked, as long as no call got or sent what was not its own             *)
(* (CameraFollowsLock), for any limit of the queue.  That proof follows    *)
(* the message of the client's call: there is one just while the call      *)
(* runs, in one place, of the call's command and, once it has been         *)
(* executed, true of flagActive.                                           *)
(***************************************************************************)
EXTENDS AlarmSystem, SecurityPanelProofs, FiniteSetTheorems, SequenceTheorems

\* The channel of this system, with what is proved of it.
Camera == INSTANCE CameraChannelProofs

\* A step of the system is a step, or none, of the server and of the channel.
LEMMA SystemProjects ==
    TypeOK /\ [SystemNext]_systemVars
        => [Next]_vars /\ [Channel!Next]_(Channel!vars)
<1> SUFFICES ASSUME TypeOK, [SystemNext]_systemVars
             PROVE  /\ Next \/ UNCHANGED vars
                    /\ Channel!Next \/ UNCHANGED Channel!vars
  OBVIOUS
<1> USE DEF panelVars
<1> DEFINE OnPanel   == Next \/ UNCHANGED vars
           OnChannel == Channel!Next \/ UNCHANGED Channel!vars
<1>0. UNCHANGED channelVars => UNCHANGED Channel!vars
  BY DEF channelVars, Channel!vars, Channel!callerVars, Channel!kernelVars,
     Channel!parserVars, Channel!flagVars, Channel!historyVars
<1>1. CASE ServerStep
  BY <1>0, <1>1 DEF ServerStep, Next
<1>2. ASSUME NEW o \in Operators, CallCamera(o) PROVE OnPanel /\ OnChannel
  <2>1. cmd[o] \in PanelCommands
    BY <1>2 DEF CallCamera, TypeOK
  <2>2. CameraCommand[cmd[o]] \in Commands /\ o \in Callers
    BY <2>1 DEF Commands, Callers
  <2> QED
    BY <1>2, <2>2 DEF CallCamera, Channel!Next
<1>3. CASE BtnCallCamera
  <2>1. ButtonCommand \in Commands /\ Button \in Callers
    BY DEF Commands, Callers
  <2> QED
    BY <1>3, <2>1 DEF BtnCallCamera, Channel!Next
<1>4. ASSUME NEW c \in Callers, SendRequest(c) PROVE OnPanel /\ OnChannel
  BY <1>4 DEF SendRequest, Channel!Next
<1>5. ASSUME NEW c \in Callers, LeaveCamera(c) PROVE OnPanel /\ OnChannel
  <2>1. c = Button \/ c \in Operators
    BY DEF Callers
  <2> QED
    BY <1>5, <2>1 DEF LeaveCamera, Channel!Next, Next
<1>6. CASE CameraStep
  BY <1>6 DEF CameraStep, Channel!Next
<1>7. CASE UNCHANGED systemVars
  BY <1>0, <1>7 DEF systemVars
<1> QED
  BY <1>1, <1>2, <1>3, <1>4, <1>5, <1>6, <1>7 DEF SystemNext

\* The server of the composed system is the SecurityPanel, step by step.
LEMMA ServerIsPanel == SystemSpec => Spec
<1>1. SystemInit => Init
  BY DEF SystemInit
<1>2. Init => TypeOK
  BY DEF Init, TypeOK, Steps, BtnPcs, Bit
<1>3. TypeOK /\ [SystemNext]_systemVars => TypeOK' /\ [Next]_vars
  BY SystemProjects, TypeNext
<1> QED
  BY <1>1, <1>2, <1>3, PTL DEF SystemSpec, Spec

\* ... so with the real channel between server and camera an alarm that stays
\* on is still heard.
THEOREM SystemAlarmIsHeard == SystemSpec => []NoSilentAlarm
  BY ServerIsPanel, AlarmIsHeard, PTL

\* The server's threads use the channel as CameraChannel expects.
THEOREM SystemUsesChannel == SystemSpec => Channel!Spec
<1>1. SystemInit => Channel!Init
  BY DEF SystemInit
<1>2. Spec => []TypeOK
  BY PanelTypeCorrect
<1>3. TypeOK /\ [SystemNext]_systemVars => [Channel!Next]_(Channel!vars)
  BY SystemProjects
<1> QED
  BY <1>1, <1>2, <1>3, ServerIsPanel, PTL DEF SystemSpec, Channel!Spec

-----------------------------------------------------------------------------
(* What is proved of the channel holds of this channel. *)

\* The server keeps the assumptions of the channel.
LEMMA ChannelAssumed == Camera!ChannelAssumption
<1>1. IsFiniteSet(Callers)
  BY SystemAssumption, FS_AddElement DEF SystemAssumption, Callers
<1>2. Parser \notin Callers
  BY SystemAssumption DEF SystemAssumption, Callers
<1>3. Commands = {"active", "suspend", "close_alarm", "trigger_alarm"}
  BY DEF Commands, CameraCommand, PanelCommands, ButtonCommand
<1>4. Commands \subseteq Camera!CommandIds /\ Commands # {}
  BY <1>3 DEF Camera!CommandIds
<1> QED
  BY <1>1, <1>2, <1>4, SystemAssumption
  DEF SystemAssumption, Camera!IsFiniteSet, IsFiniteSet

\* Both instances of the channel have the same queue operations ...
LEMMA SameQueue ==
    /\ \A m, p, q : Channel!Msgsnd(m, p, q) <=> Camera!Msgsnd(m, p, q)
    /\ \A t, p, q : Channel!Msgrcv(t, p, q) <=> Camera!Msgrcv(t, p, q)
  BY DEF Channel!Msgsnd, Camera!Msgsnd, Channel!Msgrcv, Camera!Msgrcv,
         Channel!Deliver, Camera!Deliver

\* ... and the same steps.
LEMMA SameSteps ==
    /\ Channel!Init => Camera!Init
    /\ \A c \in Callers :
          /\ \A k : Channel!SetCommand(c, k) => Camera!SetCommand(c, k)
          /\ Channel!Dispatch(c) => Camera!Dispatch(c)
          /\ Channel!Receive(c) => Camera!Receive(c)
          /\ Channel!Return(c) => Camera!Return(c)
    /\ Channel!ParserReceive => Camera!ParserReceive
    /\ Channel!ParserExecute => Camera!ParserExecute
    /\ Channel!ParserReply => Camera!ParserReply
<1> USE DEF Channel!callerVars, Camera!callerVars, Channel!kernelVars, Camera!kernelVars,
            Channel!parserVars, Camera!parserVars, Channel!flagVars, Camera!flagVars,
            Channel!historyVars, Camera!historyVars
<1>1. Channel!Init => Camera!Init
  BY DEF Channel!Init, Camera!Init, Channel!None, Camera!None,
         Channel!NoMessage, Camera!NoMessage
<1>2. ASSUME NEW c \in Callers, NEW k, Channel!SetCommand(c, k) PROVE Camera!SetCommand(c, k)
  BY <1>2 DEF Channel!SetCommand, Camera!SetCommand, Channel!Offer, Camera!Offer
<1>3. ASSUME NEW c \in Callers, Channel!Dispatch(c) PROVE Camera!Dispatch(c)
  BY <1>3, SameQueue DEF Channel!Dispatch, Camera!Dispatch, Channel!Request, Camera!Request
<1>4. ASSUME NEW c \in Callers, Channel!Receive(c) PROVE Camera!Receive(c)
  BY <1>4, SameQueue DEF Channel!Receive, Camera!Receive
<1>5. ASSUME NEW c \in Callers, Channel!Return(c) PROVE Camera!Return(c)
  BY <1>5 DEF Channel!Return, Camera!Return, Channel!Running, Camera!Running,
              Channel!None, Camera!None, Channel!NoMessage, Camera!NoMessage
<1>6. Channel!ParserReceive => Camera!ParserReceive
  BY SameQueue DEF Channel!ParserReceive, Camera!ParserReceive
<1>7. Channel!ParserExecute => Camera!ParserExecute
  BY DEF Channel!ParserExecute, Camera!ParserExecute, Channel!Answer, Camera!Answer
<1>8. Channel!ParserReply => Camera!ParserReply
  BY SameQueue DEF Channel!ParserReply, Camera!ParserReply
<1> QED
  BY <1>1, <1>2, <1>3, <1>4, <1>5, <1>6, <1>7, <1>8

\* So the invariant of the channel holds here.
LEMMA ChannelInvariant ==
    /\ SystemInit => Camera!IInv
    /\ TypeOK /\ Camera!IInv /\ [SystemNext]_systemVars => Camera!IInv'
<1>1. SystemInit => Camera!IInv
  BY ChannelAssumed, SameSteps, Camera!InitInv DEF SystemInit
<1>2. ASSUME TypeOK, Camera!IInv, [SystemNext]_systemVars PROVE Camera!IInv'
  <2>1. Channel!Next \/ UNCHANGED Channel!vars
    BY <1>2, SystemProjects
  <2>2. Channel!Next => Camera!Next
    BY SameSteps DEF Channel!Next, Camera!Next
  <2>3. UNCHANGED Channel!vars => UNCHANGED Camera!vars
    BY DEF Channel!vars, Camera!vars, Channel!callerVars, Camera!callerVars,
           Channel!kernelVars, Camera!kernelVars, Channel!parserVars, Camera!parserVars,
           Channel!flagVars, Camera!flagVars, Channel!historyVars, Camera!historyVars
  <2>4. Camera!Next \/ UNCHANGED Camera!vars
    BY <2>1, <2>2, <2>3
  <2> QED
    BY <1>2, <2>4, ChannelAssumed, Camera!NextInv
<1> QED
  BY <1>1, <1>2

-----------------------------------------------------------------------------
(* The message of the client's call.  o is the one client. *)

\* All messages but those of Btn_Handler's call.
OfClient(m) == m.cmd # ButtonCommand

InQueue     == \E i \in 1..Len(queue) : OfClient(queue[i])
AtParser    == parserPc \in {"exec", "reply"} /\ OfClient(RxCommand)
AtCaller(c) == pc[c] = "got" /\ OfClient(msg[c])

Somewhere(o) == InQueue \/ AtParser \/ AtCaller(o) \/ AtCaller(Button)

\* It is in one place at most.
OnePlace(o) ==
    /\ ~(InQueue /\ AtParser)
    /\ \A c \in {o, Button} : ~(InQueue /\ AtCaller(c)) /\ ~(AtParser /\ AtCaller(c))
    /\ ~(AtCaller(o) /\ AtCaller(Button))
    /\ \A i, j \in 1..Len(queue) : OfClient(queue[i]) /\ OfClient(queue[j]) => i = j

\* A message that is handed over or enqueued by msgsnd has left its sender.
LEMMA HandOver ==
    ASSUME Camera!IInv, NEW o \in Operators, Operators = {o}, OnePlace(o),
           NEW m \in Camera!Message, NEW callerPc, NEW ppc, Camera!Msgsnd(m, callerPc, ppc),
           callerPc \in [Callers -> Camera!CallerPcs],
           \A c \in Callers : callerPc[c] = "got" <=> pc[c] = "got",
           \/ ppc = parserPc /\ (OfClient(m) => ~Somewhere(o))
           \/ ppc = "recv" /\ parserPc = "reply" /\ m = RxCommand
    PROVE  OnePlace(o)' /\ (Somewhere(o)' <=> Somewhere(o) \/ OfClient(m))
<1>0. /\ o \in Callers /\ Button \in Callers /\ o # Button /\ Parser \notin Callers
      /\ Callers = {o, Button}
  BY SystemAssumption DEF SystemAssumption, Callers
<1>1. /\ pc \in [Callers -> Camera!CallerPcs] /\ msg \in [Callers -> Camera!Message]
      /\ queue \in Seq(Camera!Message)
  BY DEF Camera!IInv, Camera!TypeOK
<1>2. CASE Camera!ToParser(m, callerPc)
  <2>1. /\ queue = <<>> /\ queue' = queue /\ parserPc' = "exec" /\ RxCommand' = m
        /\ pc' = callerPc /\ msg' = msg
    BY <1>2 DEF Camera!ToParser
  <2>2. parserPc = "asleep"
    BY <1>0, <1>2 DEF Camera!ToParser, Camera!Asleep
  <2>3. ~InQueue /\ ~InQueue' /\ ~AtParser /\ (AtParser' <=> OfClient(m))
    BY <2>1, <2>2 DEF InQueue, AtParser, OfClient
  <2>4. \A c \in {o, Button} : AtCaller(c)' <=> AtCaller(c)
    BY <1>0, <2>1 DEF AtCaller, OfClient
  <2> QED
    BY <2>1, <2>2, <2>3, <2>4 DEF OnePlace, Somewhere
<1>3. ASSUME NEW t \in Callers, Camera!ToCaller(t, m, callerPc, ppc)
      PROVE  OnePlace(o)' /\ (Somewhere(o)' <=> Somewhere(o) \/ OfClient(m))
  <2>1. /\ queue = <<>> /\ queue' = queue /\ parserPc' = ppc /\ RxCommand' = RxCommand
        /\ pc' = [callerPc EXCEPT ![t] = "got"] /\ msg' = [msg EXCEPT ![t] = m]
    BY <1>3 DEF Camera!ToCaller
  <2>2. pc[t] = "asleep"
    BY <1>0, <1>3 DEF Camera!ToCaller, Camera!Asleep
  <2>3. ~InQueue /\ ~InQueue'
    BY <2>1 DEF InQueue
  <2>4. ~AtCaller(t) /\ (AtCaller(t)' <=> OfClient(m))
    BY <1>1, <2>1, <2>2 DEF AtCaller, OfClient
  <2>5. \A c \in Callers \ {t} : AtCaller(c)' <=> AtCaller(c)
    BY <1>1, <2>1 DEF AtCaller, OfClient
  <2>6. ppc = parserPc => (AtParser' <=> AtParser)
    BY <2>1 DEF AtParser, OfClient
  <2>7. ppc = "recv" /\ parserPc = "reply" /\ m = RxCommand =>
           ~AtParser' /\ (AtParser <=> OfClient(m))
    BY <2>1 DEF AtParser, OfClient
  <2> QED
    BY <1>0, <2>1, <2>3, <2>4, <2>5, <2>6, <2>7 DEF OnePlace, Somewhere
<1>4. CASE Camera!ToQueue(m, callerPc, ppc)
  <2>1. /\ queue' = Append(queue, m) /\ parserPc' = ppc /\ RxCommand' = RxCommand
        /\ pc' = callerPc /\ msg' = msg
    BY <1>4 DEF Camera!ToQueue
  <2>2. /\ Len(queue) \in Nat /\ Len(queue') = Len(queue) + 1
        /\ queue'[Len(queue) + 1] = m
        /\ \A i \in 1..Len(queue) : queue'[i] = queue[i]
    BY <1>1, <2>1
  <2>3. InQueue' <=> InQueue \/ OfClient(m)
    BY <2>2 DEF InQueue, OfClient
  <2>4. \A c \in {o, Button} : AtCaller(c)' <=> AtCaller(c)
    BY <1>0, <2>1 DEF AtCaller, OfClient
  <2>5. /\ ppc = parserPc => (AtParser' <=> AtParser)
        /\ ppc = "recv" /\ parserPc = "reply" /\ m = RxCommand =>
              ~AtParser' /\ (AtParser <=> OfClient(m))
    BY <2>1 DEF AtParser, OfClient
  <2>6. OfClient(m) => ~InQueue
    BY <2>5 DEF OnePlace, Somewhere
  <2>7. \A i, j \in 1..Len(queue') : OfClient(queue'[i]) /\ OfClient(queue'[j]) => i = j
    <3>1. \A i \in 1..Len(queue') : i \in 1..Len(queue) \/ i = Len(queue) + 1
      BY <2>2
    <3> QED
      BY <2>2, <2>6, <3>1 DEF OnePlace, InQueue
  <2>8. OnePlace(o)'
    <3>1. /\ ~(InQueue' /\ AtParser')
          /\ \A c \in {o, Button} : ~(InQueue' /\ AtCaller(c)') /\ ~(AtParser' /\ AtCaller(c)')
          /\ ~(AtCaller(o)' /\ AtCaller(Button)')
      BY <2>3, <2>4, <2>5 DEF OnePlace, Somewhere
    <3> QED
      BY <2>7, <3>1 DEF OnePlace, OfClient
  <2>9. Somewhere(o)' <=> Somewhere(o) \/ OfClient(m)
    BY <2>3, <2>4, <2>5 DEF Somewhere
  <2> QED
    BY <2>8, <2>9
<1> QED
  BY <1>2, <1>3, <1>4, ChannelAssumed, Camera!MsgsndCases

\* A message that msgrcv takes has left the queue.
LEMMA TakeOver ==
    ASSUME Camera!IInv, NEW o \in Operators, Operators = {o}, OnePlace(o),
           NEW t \in Callers \cup {Parser}, Camera!TakeOldest(t),
           t = Parser => parserPc = "recv",
           t \in Callers => pc[t] = "sent"
    PROVE  OnePlace(o)' /\ (Somewhere(o)' <=> Somewhere(o))
<1> DEFINE m == Head(queue)
<1>0. /\ o \in Callers /\ Button \in Callers /\ o # Button /\ Parser \notin Callers
      /\ Callers = {o, Button}
  BY SystemAssumption DEF SystemAssumption, Callers
<1>1. /\ pc \in [Callers -> Camera!CallerPcs] /\ msg \in [Callers -> Camera!Message]
      /\ queue \in Seq(Camera!Message) /\ queue # <<>> /\ queue' = Tail(queue)
      /\ Camera!Deliver(t, m, pc, parserPc)
  BY DEF Camera!IInv, Camera!TypeOK, Camera!TakeOldest
<1>2. /\ Len(queue) \in Nat \ {0} /\ m = queue[1]
      /\ Len(queue') = Len(queue) - 1
      /\ \A i \in 1..Len(queue') : queue'[i] = queue[i + 1]
  BY <1>1, HeadTailProperties
<1>3. OfClient(m) => ~InQueue'
  BY <1>2 DEF InQueue, OnePlace
<1>4. InQueue <=> InQueue' \/ OfClient(m)
  <2>1. ASSUME NEW i \in 1..Len(queue), OfClient(queue[i]), i # 1 PROVE InQueue'
    <3>1. i - 1 \in 1..Len(queue') /\ queue'[i - 1] = queue[i]
      BY <1>2, <2>1
    <3> QED
      BY <2>1, <3>1 DEF InQueue, OfClient
  <2>2. InQueue' => InQueue
    BY <1>2 DEF InQueue, OfClient
  <2>3. OfClient(m) => InQueue
    BY <1>2 DEF InQueue
  <2> QED
    BY <1>2, <2>1, <2>2, <2>3 DEF InQueue
<1>5. \A i, j \in 1..Len(queue') : OfClient(queue'[i]) /\ OfClient(queue'[j]) => i = j
  BY <1>2 DEF OnePlace
<1>6. CASE t = Parser
  <2>1. parserPc' = "exec" /\ RxCommand' = m /\ pc' = pc /\ msg' = msg /\ parserPc = "recv"
    BY <1>1, <1>6 DEF Camera!Deliver
  <2>2. ~AtParser /\ (AtParser' <=> OfClient(m))
    BY <2>1 DEF AtParser, OfClient
  <2>3. \A c \in {o, Button} : AtCaller(c)' <=> AtCaller(c)
    BY <2>1 DEF AtCaller, OfClient
  <2>4. OnePlace(o)'
    <3>1. /\ ~(InQueue' /\ AtParser')
          /\ \A c \in {o, Button} : ~(InQueue' /\ AtCaller(c)') /\ ~(AtParser' /\ AtCaller(c)')
          /\ ~(AtCaller(o)' /\ AtCaller(Button)')
      BY <1>3, <1>4, <2>2, <2>3 DEF OnePlace
    <3> QED
      BY <1>5, <3>1 DEF OnePlace, OfClient
  <2> QED
    BY <1>4, <2>2, <2>3, <2>4 DEF Somewhere
<1>7. CASE t \in Callers
  <2>1. /\ pc' = [pc EXCEPT ![t] = "got"] /\ msg' = [msg EXCEPT ![t] = m]
        /\ parserPc' = parserPc /\ RxCommand' = RxCommand /\ pc[t] = "sent"
    BY <1>0, <1>1, <1>7 DEF Camera!Deliver
  <2>2. ~AtCaller(t) /\ (AtCaller(t)' <=> OfClient(m))
    BY <1>1, <1>7, <2>1 DEF AtCaller, OfClient
  <2>3. \A c \in Callers \ {t} : AtCaller(c)' <=> AtCaller(c)
    BY <1>1, <2>1 DEF AtCaller, OfClient
  <2>4. AtParser' <=> AtParser
    BY <2>1 DEF AtParser, OfClient
  <2>5. OnePlace(o)'
    <3>1. /\ ~(InQueue' /\ AtParser')
          /\ \A c \in {o, Button} : ~(InQueue' /\ AtCaller(c)') /\ ~(AtParser' /\ AtCaller(c)')
          /\ ~(AtCaller(o)' /\ AtCaller(Button)')
      BY <1>0, <1>3, <1>4, <1>7, <2>2, <2>3, <2>4 DEF OnePlace
    <3> QED
      BY <1>5, <3>1 DEF OnePlace, OfClient
  <2> QED
    BY <1>0, <1>4, <1>7, <2>2, <2>3, <2>4, <2>5 DEF Somewhere
<1> QED
  BY <1>6, <1>7

-----------------------------------------------------------------------------
(* What the message says of the camera. *)

\* A message of the client has the command of its call; executed (its length is
\* then set), it is true of flagActive.
Right(o, m) ==
    OfClient(m) =>
        /\ m.cmd = arg[o]
        /\ m.length # 0 /\ m.cmd = "active" => flagActive
        /\ m.length # 0 /\ m.cmd = "suspend" => ~flagActive

AllRight(o) ==
    /\ \A i \in 1..Len(queue) : Right(o, queue[i])
    /\ parserPc \in {"exec", "reply"} => Right(o, RxCommand)
    /\ \A c \in Callers : pc[c] = "got" => Right(o, msg[c])

\* msgsnd keeps all messages right ...
LEMMA HandOverRight ==
    ASSUME Camera!IInv, NEW o \in Operators, AllRight(o),
           NEW m \in Camera!Message, NEW callerPc, NEW ppc, Camera!Msgsnd(m, callerPc, ppc),
           Right(o, m),
           callerPc \in [Callers -> Camera!CallerPcs],
           \A c \in Callers : callerPc[c] = "got" <=> pc[c] = "got",
           ppc \in {parserPc, "recv"},
           UNCHANGED <<arg, flagActive>>
    PROVE  AllRight(o)'
<1>1. /\ msg \in [Callers -> Camera!Message] /\ queue \in Seq(Camera!Message)
  BY DEF Camera!IInv, Camera!TypeOK
<1>2. CASE Camera!ToParser(m, callerPc)
  BY <1>2 DEF Camera!ToParser, AllRight, Right, OfClient
<1>3. ASSUME NEW t \in Callers, Camera!ToCaller(t, m, callerPc, ppc) PROVE AllRight(o)'
  <2>1. /\ queue' = queue /\ parserPc' = ppc /\ RxCommand' = RxCommand
        /\ pc' = [callerPc EXCEPT ![t] = "got"] /\ msg' = [msg EXCEPT ![t] = m]
    BY <1>3 DEF Camera!ToCaller
  <2>2. \A c \in Callers : pc'[c] = "got" => Right(o, msg'[c])
    BY <1>1, <2>1 DEF AllRight
  <2> QED
    BY <2>1, <2>2 DEF AllRight, Right, OfClient
<1>4. CASE Camera!ToQueue(m, callerPc, ppc)
  <2>1. /\ queue' = Append(queue, m) /\ parserPc' = ppc /\ RxCommand' = RxCommand
        /\ pc' = callerPc /\ msg' = msg
    BY <1>4 DEF Camera!ToQueue
  <2>2. \A i \in 1..Len(queue') : Right(o, queue'[i])
    BY <1>1, <2>1, AppendProperties DEF AllRight
  <2> QED
    BY <2>1, <2>2 DEF AllRight, Right, OfClient
<1> QED
  BY <1>2, <1>3, <1>4, ChannelAssumed, Camera!MsgsndCases

\* ... and so does msgrcv.
LEMMA TakeOverRight ==
    ASSUME Camera!IInv, NEW o \in Operators, AllRight(o),
           NEW t \in Callers \cup {Parser}, Camera!TakeOldest(t),
           UNCHANGED <<arg, flagActive>>
    PROVE  AllRight(o)'
<1> DEFINE m == Head(queue)
<1>1. /\ msg \in [Callers -> Camera!Message] /\ pc \in [Callers -> Camera!CallerPcs]
      /\ queue \in Seq(Camera!Message) /\ queue # <<>> /\ queue' = Tail(queue)
      /\ Camera!Deliver(t, m, pc, parserPc)
  BY DEF Camera!IInv, Camera!TypeOK, Camera!TakeOldest
<1>2. /\ Len(queue) \in Nat \ {0} /\ m = queue[1]
      /\ Len(queue') = Len(queue) - 1
      /\ \A i \in 1..Len(queue') : queue'[i] = queue[i + 1]
  BY <1>1, HeadTailProperties
<1>3. Right(o, m)
  BY <1>2 DEF AllRight
<1>4. \A i \in 1..Len(queue') : Right(o, queue'[i])
  BY <1>2 DEF AllRight
<1>5. CASE t = Parser
  <2>1. parserPc' = "exec" /\ RxCommand' = m /\ pc' = pc /\ msg' = msg
    BY <1>1, <1>5 DEF Camera!Deliver
  <2> QED
    BY <1>3, <1>4, <2>1 DEF AllRight, Right, OfClient
<1>6. CASE t # Parser
  <2>1. /\ pc' = [pc EXCEPT ![t] = "got"] /\ msg' = [msg EXCEPT ![t] = m]
        /\ parserPc' = parserPc /\ RxCommand' = RxCommand
    BY <1>1, <1>6 DEF Camera!Deliver
  <2>2. \A c \in Callers : pc'[c] = "got" => Right(o, msg'[c])
    BY <1>1, <1>3, <2>1 DEF AllRight
  <2> QED
    BY <1>4, <2>1, <2>2 DEF AllRight, Right, OfClient
<1> QED
  BY <1>5, <1>6

-----------------------------------------------------------------------------
(* The invariant. *)

\* Only a thread that has come to its call is in camera_ctl, with its command.
Calls(o) ==
    /\ pc[o] # "idle" => step[o] = "camera" /\ arg[o] = CameraCommand[cmd[o]]
    /\ pc[Button] # "idle" => btnPc = "camera" /\ arg[Button] = ButtonCommand

Calling(o) == pc[o] \in {"sent", "asleep", "got"}

Watching == flagActive <=> security = 1

\* How flagActive relates to security, by where the client's thread is.
FlagOf(o) ==
    /\ (step[o] \in {"idle", "passcode"} \/ (step[o] = "camera" /\ ~Calling(o))
            \/ cmd[o] = "clearalarm") => Watching
    /\ step[o] \in {"device", "db"} => (cmd[o] = "lock" => flagActive)
    /\ step[o] \in {"device", "db"} => (cmd[o] = "unlock" => ~flagActive)

Follows(o) ==
    /\ OnePlace(o)
    /\ Somewhere(o) <=> Calling(o)
    /\ AllRight(o)
    /\ parserPc = "reply" => RxCommand.length # 0
    /\ FlagOf(o)

LInv(o) == TypeOK /\ Camera!IInv /\ Calls(o) /\ (~mixed => Follows(o))

\* The commands of the client's calls.
LEMMA ClientCommands ==
    \A k \in PanelCommands :
        /\ CameraCommand[k] \in {"active", "suspend", "close_alarm"}
        /\ CameraCommand[k] = "active"  <=> k = "lock"
        /\ CameraCommand[k] = "suspend" <=> k = "unlock"
  BY DEF PanelCommands, CameraCommand

\* Nothing of the channel has changed.
LEMMA ChannelRests ==
    ASSUME NEW o \in Operators, UNCHANGED channelVars
    PROVE  /\ OnePlace(o)' <=> OnePlace(o)
           /\ Somewhere(o)' <=> Somewhere(o)
           /\ AllRight(o)' <=> AllRight(o)
           /\ Calling(o)' <=> Calling(o)
<1> USE DEF channelVars
<1>1. OnePlace(o)' <=> OnePlace(o)
  BY DEF OnePlace, InQueue, AtParser, AtCaller, OfClient
<1>2. Somewhere(o)' <=> Somewhere(o)
  BY DEF Somewhere, InQueue, AtParser, AtCaller, OfClient
<1>3. AllRight(o)' <=> AllRight(o)
  BY DEF AllRight, Right, OfClient
<1>4. Calling(o)' <=> Calling(o)
  BY DEF Calling
<1> QED
  BY <1>1, <1>2, <1>3, <1>4

\* The steps of the server between its calls.
LEMMA ServerFollows ==
    ASSUME NEW o \in Operators, Operators = {o}, LInv(o), ServerStep
    PROVE  Calls(o)' /\ (~mixed' => Follows(o)')
<1>1. /\ UNCHANGED channelVars /\ mixed' = mixed
      /\ pc' = pc /\ arg' = arg /\ flagActive' = flagActive
      /\ parserPc' = parserPc /\ RxCommand' = RxCommand
  BY DEF ServerStep, channelVars
<1>2. TypeOK /\ Calls(o) /\ (~mixed => Follows(o))
  BY DEF LInv
<1>3. Calling(o) => step[o] = "camera" /\ pc[o] # "idle"
  BY <1>2 DEF Calls, Calling
<1>4. Calls(o)' /\ (FlagOf(o) => FlagOf(o)')
  <2> USE DEF TypeOK
  <2>1. CASE Lock(o) \/ Unlock(o) \/ ClearAlarm(o)
    BY <1>1, <1>2, <1>3, <2>1 DEF Lock, Unlock, ClearAlarm, Accept, Calls, FlagOf, Calling,
                              Watching, dbVars
  <2>2. CASE RightPasscode(o) \/ WrongPasscode(o)
    BY <1>1, <1>2, <1>3, <2>2 DEF RightPasscode, WrongPasscode, Calls, FlagOf, Calling,
                              Watching, dbVars
  <2>3. CASE WriteLed(o) \/ StopBuzzer(o)
    BY <1>1, <1>2, <1>3, <2>3 DEF WriteLed, StopBuzzer, Calls, FlagOf, Calling,
                              Watching, dbVars
  <2>4. CASE WriteSecurity(o)
    <3>1. step[o] = "db" /\ cmd[o] \in {"lock", "unlock"}
      BY <2>4 DEF WriteSecurity, LedWritten
    <3>2. pc[o] = "idle"
      BY <1>2, <3>1 DEF Calls
    <3>3. /\ step'[o] = "idle" /\ cmd'[o] = "none" /\ btnPc' = btnPc
          /\ security' = IF cmd[o] = "lock" THEN 1 ELSE 0
      BY <1>2, <2>4 DEF WriteSecurity
    <3> QED
      BY <1>1, <1>2, <3>1, <3>2, <3>3 DEF Calls, FlagOf, Calling, Watching
  <2>5. CASE ResetAlarm(o)
    BY <1>1, <1>2, <1>3, <2>5 DEF ResetAlarm, Calls, FlagOf, Calling, Watching
  <2>6. CASE BtnRead \/ BtnTestSecurity \/ BtnTestAlarm \/ BtnRaise \/ BtnBuzzer \/ MoveDoor
    <3>1. step' = step /\ cmd' = cmd /\ security' = security
      BY <2>6 DEF BtnRead, BtnTestSecurity, BtnTestAlarm, BtnRaise, BtnBuzzer, MoveDoor,
                  operatorVars, dbVars
    <3>2. btnPc = "camera" => btnPc' = "camera"
      BY <2>6 DEF BtnRead, BtnTestSecurity, BtnTestAlarm, BtnRaise, BtnBuzzer, MoveDoor
    <3> QED
      BY <1>1, <1>2, <3>1, <3>2 DEF Calls, FlagOf, Calling, Watching
  <2> QED
    BY <2>1, <2>2, <2>3, <2>4, <2>5, <2>6 DEF ServerStep
<1> QED
  BY <1>1, <1>2, <1>4, ChannelRests DEF Follows

\* A thread calls camera_ctl.
LEMMA CallFollows ==
    ASSUME NEW o \in Operators, Operators = {o}, LInv(o), CallCamera(o) \/ BtnCallCamera
    PROVE  Calls(o)' /\ (~mixed' => Follows(o)')
<1>0. /\ o \in Callers /\ Button \in Callers /\ o # Button /\ Callers = {o, Button}
  BY SystemAssumption DEF SystemAssumption, Callers
<1>1. TypeOK /\ Calls(o) /\ (~mixed => Follows(o))
  BY DEF LInv
<1>2. pc \in [Callers -> Camera!CallerPcs] /\ arg \in [Callers -> Commands \cup {Camera!None}]
  BY DEF LInv, Camera!IInv, Camera!TypeOK
<1>3. PICK c \in Callers, k \in Commands :
         /\ Camera!SetCommand(c, k)
         /\ c = o => step[o] = "camera" /\ k = CameraCommand[cmd[o]]
         /\ c = Button => btnPc = "camera" /\ k = ButtonCommand
  <2>1. CASE CallCamera(o)
    <3>1. cmd[o] \in PanelCommands /\ CameraCommand[cmd[o]] \in Commands
      BY <1>1, <2>1 DEF CallCamera, TypeOK, Commands
    <3> QED
      BY <1>0, <2>1, <3>1, SameSteps DEF CallCamera
  <2>2. CASE BtnCallCamera
    <3>1. ButtonCommand \in Commands
      BY DEF Commands
    <3> QED
      BY <1>0, <2>2, <3>1, SameSteps DEF BtnCallCamera
  <2> QED
    BY <2>1, <2>2
<1>4. /\ UNCHANGED panelVars /\ mixed' = mixed
      /\ step' = step /\ cmd' = cmd /\ btnPc' = btnPc /\ security' = security
  BY DEF CallCamera, BtnCallCamera, panelVars, vars, operatorVars, dbVars
<1>5. /\ pc[c] = "idle" /\ pc' = [pc EXCEPT ![c] = "set"] /\ arg' = [arg EXCEPT ![c] = k]
      /\ msg' = msg /\ queue' = queue /\ parserPc' = parserPc /\ RxCommand' = RxCommand
      /\ flagActive' = flagActive
  BY <1>3 DEF Camera!SetCommand, Camera!kernelVars, Camera!parserVars, Camera!flagVars
<1>6. Calls(o)'
  BY <1>0, <1>1, <1>2, <1>3, <1>4, <1>5 DEF Calls
<1>7. ASSUME ~mixed PROVE Follows(o)'
  <2>1. Calling(o)' <=> Calling(o)
    BY <1>0, <1>2, <1>5 DEF Calling
  <2>2. \A d \in Callers : AtCaller(d)' <=> AtCaller(d)
    BY <1>2, <1>5 DEF AtCaller, OfClient
  <2>3. (InQueue' <=> InQueue) /\ (AtParser' <=> AtParser)
    BY <1>5 DEF InQueue, AtParser, OfClient
  <2>4. OnePlace(o)' /\ (Somewhere(o)' <=> Somewhere(o))
    BY <1>0, <1>1, <1>5, <1>7, <2>2, <2>3 DEF Follows, OnePlace, Somewhere, OfClient
  <2>5. c = o => ~Somewhere(o)
    BY <1>1, <1>5, <1>7 DEF Follows, Calling
  <2>6. AllRight(o)'
    <3>1. CASE c = o
      <4>1. ~InQueue /\ ~AtParser /\ \A d \in Callers : ~AtCaller(d)
        BY <1>0, <2>5, <3>1 DEF Somewhere
      <4>2. \A i \in 1..Len(queue) : ~OfClient(queue[i])
        BY <4>1 DEF InQueue
      <4>3. parserPc \in {"exec", "reply"} => ~OfClient(RxCommand)
        BY <4>1 DEF AtParser
      <4>4. \A d \in Callers : pc'[d] = "got" => ~OfClient(msg[d])
        BY <1>2, <1>5, <4>1 DEF AtCaller
      <4> QED
        BY <1>5, <4>2, <4>3, <4>4 DEF AllRight, Right, OfClient
    <3>2. CASE c # o
      <4>1. arg'[o] = arg[o]
        BY <1>0, <1>2, <1>5, <3>2
      <4>2. \A d \in Callers : pc'[d] = "got" => pc[d] = "got"
        BY <1>2, <1>5
      <4> QED
        BY <1>1, <1>5, <1>7, <4>1, <4>2 DEF Follows, AllRight, Right, OfClient
    <3> QED
      BY <3>1, <3>2
  <2>7. FlagOf(o)'
    BY <1>1, <1>4, <1>5, <1>7, <2>1 DEF Follows, FlagOf, Watching
  <2> QED
    BY <1>1, <1>5, <1>7, <2>1, <2>4, <2>6, <2>7 DEF Follows
<1> QED
  BY <1>4, <1>6, <1>7

\* camera_ctl sends its request: of the thread's own command, or mixed is set.
LEMMA SendFollows ==
    ASSUME NEW o \in Operators, Operators = {o}, LInv(o), NEW c \in Callers, SendRequest(c)
    PROVE  Calls(o)' /\ (~mixed' => Follows(o)')
<1> DEFINE m == Camera!Request(CommandNumber)
           callerPc == [pc EXCEPT ![c] = "sent"]
<1>0. /\ o \in Callers /\ Button \in Callers /\ o # Button /\ Callers = {o, Button}
  BY SystemAssumption DEF SystemAssumption, Callers
<1>1. TypeOK /\ Calls(o) /\ (~mixed => Follows(o)) /\ Camera!IInv
  BY DEF LInv
<1>2. /\ pc \in [Callers -> Camera!CallerPcs] /\ arg \in [Callers -> Commands \cup {Camera!None}]
      /\ pc[c] = "set" => CommandNumber \in Commands
  BY DEF LInv, Camera!IInv, Camera!TypeOK, Camera!CommandSet
<1>3. /\ Camera!Dispatch(c) /\ mixed' = (mixed \/ CommandNumber # arg[c])
      /\ step' = step /\ cmd' = cmd /\ btnPc' = btnPc /\ security' = security
  BY SameSteps DEF SendRequest, panelVars, vars, operatorVars, dbVars
<1>4. /\ pc[c] = "set" /\ Camera!Msgsnd(m, callerPc, parserPc)
      /\ arg' = arg /\ flagActive' = flagActive
  BY <1>3 DEF Camera!Dispatch, Camera!flagVars
<1>5. m \in Camera!Message
  BY <1>2, <1>4, ChannelAssumed, Camera!RequestType
<1>6. /\ callerPc \in [Callers -> Camera!CallerPcs]
      /\ \A d \in Callers : callerPc[d] = "got" <=> pc[d] = "got"
  BY <1>2, <1>4 DEF Camera!CallerPcs
<1> HIDE DEF m, callerPc
<1>7. /\ pc'[c] \in {"sent", "got"}
      /\ \A d \in Callers \ {c} : pc'[d] = pc[d] \/ (pc[d] = "asleep" /\ pc'[d] = "got")
      /\ parserPc' = "reply" => parserPc = "reply" /\ RxCommand' = RxCommand
  <2>1. CASE Camera!ToParser(m, callerPc)
    BY <1>2, <2>1 DEF Camera!ToParser, callerPc
  <2>2. ASSUME NEW t \in Callers, Camera!ToCaller(t, m, callerPc, parserPc)
        PROVE  /\ pc'[c] \in {"sent", "got"}
               /\ \A d \in Callers \ {c} : pc'[d] = pc[d] \/ (pc[d] = "asleep" /\ pc'[d] = "got")
               /\ parserPc' = "reply" => parserPc = "reply" /\ RxCommand' = RxCommand
    <3>1. /\ pc' = [callerPc EXCEPT ![t] = "got"] /\ parserPc' = parserPc
          /\ RxCommand' = RxCommand /\ t \in Camera!Asleep
      BY <2>2 DEF Camera!ToCaller
    <3>2. pc[t] = "asleep"
      BY <2>2, <3>1, ChannelAssumed, SystemAssumption
      DEF Camera!Asleep, SystemAssumption, Callers
    <3> QED
      BY <1>2, <2>2, <3>1, <3>2 DEF callerPc
  <2>3. CASE Camera!ToQueue(m, callerPc, parserPc)
    BY <1>2, <2>3 DEF Camera!ToQueue, callerPc
  <2> QED
    BY <1>1, <1>4, <2>1, <2>2, <2>3, ChannelAssumed, Camera!MsgsndCases
<1>8. Calls(o)'
  BY <1>0, <1>1, <1>3, <1>4, <1>7 DEF Calls
<1>9. ASSUME ~mixed' PROVE Follows(o)'
  <2>1. ~mixed /\ CommandNumber = arg[c] /\ Follows(o)
    BY <1>1, <1>3, <1>9
  <2>2. m.cmd = arg[c] /\ m.length = (IF arg[c] = "loopback" THEN 16 ELSE 0)
    BY <2>1 DEF m, Camera!Request
  <2>3. CASE c = o
    <3>1. step[o] = "camera" /\ arg[o] = CameraCommand[cmd[o]] /\ cmd[o] \in PanelCommands
      BY <1>1, <1>4, <2>3 DEF Calls, TypeOK
    <3>2. OfClient(m) /\ m.length = 0
      BY <2>2, <2>3, <3>1, ClientCommands DEF OfClient, ButtonCommand
    <3>3. Right(o, m)
      BY <2>2, <2>3, <3>2 DEF Right
    <3>4. ~Calling(o) /\ ~Somewhere(o)
      BY <1>4, <2>1, <2>3 DEF Follows, Calling
    <3>5. OnePlace(o)' /\ (Somewhere(o)' <=> Somewhere(o) \/ OfClient(m))
      BY <1>1, <1>4, <1>5, <1>6, <2>1, <3>4, HandOver DEF Follows
    <3>6. AllRight(o)'
      BY <1>1, <1>4, <1>5, <1>6, <2>1, <3>3, HandOverRight DEF Follows
    <3>7. Calling(o)'
      BY <1>7, <2>3 DEF Calling
    <3>8. FlagOf(o)'
      BY <1>3, <1>4, <2>1, <3>1, <3>7 DEF Follows, FlagOf, Watching
    <3> QED
      BY <1>7, <2>1, <3>2, <3>5, <3>6, <3>7, <3>8 DEF Follows
  <2>4. CASE c = Button
    <3>1. ~OfClient(m)
      BY <1>1, <1>4, <2>2, <2>4 DEF Calls, OfClient
    <3>2. Right(o, m)
      BY <3>1 DEF Right
    <3>3. OnePlace(o)' /\ (Somewhere(o)' <=> Somewhere(o) \/ OfClient(m))
      BY <1>1, <1>4, <1>5, <1>6, <2>1, <3>1, HandOver DEF Follows
    <3>4. AllRight(o)'
      BY <1>1, <1>4, <1>5, <1>6, <2>1, <3>2, HandOverRight DEF Follows
    <3>5. Calling(o)' <=> Calling(o)
      BY <1>0, <1>7, <2>4 DEF Calling
    <3>6. FlagOf(o)'
      BY <1>3, <1>4, <2>1, <3>5 DEF Follows, FlagOf, Watching
    <3> QED
      BY <1>7, <2>1, <3>1, <3>3, <3>4, <3>5, <3>6 DEF Follows
  <2> QED
    BY <1>0, <2>3, <2>4
<1> QED
  BY <1>8, <1>9

\* camera_ctl returns: with a message of the thread's own command that has been
\* executed, or mixed is set.
LEMMA LeaveFollows ==
    ASSUME NEW o \in Operators, Operators = {o}, LInv(o), NEW c \in Callers, LeaveCamera(c)
    PROVE  Calls(o)' /\ (~mixed' => Follows(o)')
<1>0. /\ o \in Callers /\ Button \in Callers /\ o # Button /\ Callers = {o, Button}
  BY SystemAssumption DEF SystemAssumption, Callers
<1>1. TypeOK /\ Calls(o) /\ (~mixed => Follows(o))
  BY DEF LInv
<1>2. /\ pc \in [Callers -> Camera!CallerPcs] /\ arg \in [Callers -> Commands \cup {Camera!None}]
      /\ msg \in [Callers -> Camera!Message]
  BY DEF LInv, Camera!IInv, Camera!TypeOK
<1>3. /\ Camera!Return(c) /\ mixed' = (mixed \/ msg[c].cmd # arg[c] \/ msg[c].length = 0)
      /\ IF c = Button THEN BtnCameraReturns ELSE CameraReturns(c)
  BY SameSteps DEF LeaveCamera
<1>4. /\ pc[c] = "got" /\ pc' = [pc EXCEPT ![c] = "idle"]
      /\ arg' = [arg EXCEPT ![c] = Camera!None] /\ msg' = [msg EXCEPT ![c] = Camera!NoMessage]
      /\ queue' = queue /\ parserPc' = parserPc /\ RxCommand' = RxCommand
      /\ flagActive' = flagActive
  BY <1>3 DEF Camera!Return, Camera!kernelVars, Camera!parserVars, Camera!flagVars
<1>5. /\ cmd' = cmd /\ security' = security
      /\ c = Button => step' = step /\ btnPc' = "read"
      /\ c = o => step[o] = "camera" /\ step'[o] = "device" /\ btnPc' = btnPc
  BY <1>0, <1>1, <1>3 DEF BtnCameraReturns, CameraReturns, operatorVars, dbVars, TypeOK
<1>6. pc'[c] = "idle" /\ \A d \in Callers \ {c} : pc'[d] = pc[d] /\ arg'[d] = arg[d]
                                               /\ msg'[d] = msg[d]
  BY <1>2, <1>4
<1>7. Calls(o)'
  BY <1>0, <1>1, <1>5, <1>6 DEF Calls
<1>8. ASSUME ~mixed' PROVE Follows(o)'
  <2>1. ~mixed /\ msg[c].cmd = arg[c] /\ msg[c].length # 0 /\ Follows(o)
    BY <1>1, <1>3, <1>8
  <2>2. (InQueue' <=> InQueue) /\ (AtParser' <=> AtParser) /\ ~AtCaller(c)'
    BY <1>4, <1>6 DEF InQueue, AtParser, AtCaller, OfClient
  <2>3. \A d \in Callers \ {c} : AtCaller(d)' <=> AtCaller(d)
    BY <1>6 DEF AtCaller, OfClient
  <2>4. OnePlace(o)'
    BY <1>0, <1>4, <2>1, <2>2, <2>3 DEF Follows, OnePlace, OfClient
  <2>5. CASE c = o
    <3>1. step[o] = "camera" /\ arg[o] = CameraCommand[cmd[o]] /\ cmd[o] \in PanelCommands
      BY <1>1, <1>4, <1>5, <2>5 DEF Calls, TypeOK
    <3>2. AtCaller(o)
      BY <1>4, <2>1, <2>5, <3>1, ClientCommands DEF AtCaller, OfClient, ButtonCommand
    <3>3. ~InQueue /\ ~AtParser /\ ~AtCaller(Button)
      BY <2>1, <3>2 DEF Follows, OnePlace
    <3>4. ~Somewhere(o)' /\ ~Calling(o)'
      BY <1>0, <1>6, <2>2, <2>3, <2>5, <3>3 DEF Somewhere, Calling
    <3>5. AllRight(o)'
      <4>1. \A i \in 1..Len(queue) : ~OfClient(queue[i])
        BY <3>3 DEF InQueue
      <4>2. parserPc \in {"exec", "reply"} => ~OfClient(RxCommand)
        BY <3>3 DEF AtParser
      <4>3. \A d \in Callers : pc'[d] = "got" => ~OfClient(msg'[d])
        BY <1>0, <1>6, <2>5, <3>3 DEF AtCaller
      <4> QED
        BY <1>4, <4>1, <4>2, <4>3 DEF AllRight, Right, OfClient
    <3>6. /\ cmd[o] = "lock" => flagActive
          /\ cmd[o] = "unlock" => ~flagActive
      <4>1. Right(o, msg[o])
        BY <1>0, <1>4, <2>1, <2>5 DEF Follows, AllRight
      <4>2. /\ msg[o].cmd = "active" => flagActive
            /\ msg[o].cmd = "suspend" => ~flagActive
        BY <2>1, <2>5, <3>2, <4>1 DEF Right, AtCaller
      <4> QED
        BY <2>1, <2>5, <3>1, <4>2, ClientCommands
    <3>7. FlagOf(o)'
      BY <1>4, <1>5, <2>1, <2>5, <3>6 DEF Follows, FlagOf, Watching
    <3> QED
      BY <1>4, <2>1, <2>4, <3>4, <3>5, <3>7 DEF Follows
  <2>6. CASE c = Button
    <3>1. ~AtCaller(Button)
      BY <1>1, <1>4, <2>1, <2>6 DEF Calls, AtCaller, OfClient
    <3>2. (Somewhere(o)' <=> Somewhere(o)) /\ (Calling(o)' <=> Calling(o))
      BY <1>0, <1>6, <2>2, <2>3, <2>6, <3>1 DEF Somewhere, Calling
    <3>3. AllRight(o)'
      <4>1. arg'[o] = arg[o]
        BY <1>0, <1>6, <2>6
      <4>2. \A d \in Callers : pc'[d] = "got" => pc[d] = "got" /\ msg'[d] = msg[d]
        BY <1>6
      <4> QED
        BY <1>4, <2>1, <4>1, <4>2 DEF Follows, AllRight, Right, OfClient
    <3>4. FlagOf(o)'
      BY <1>4, <1>5, <2>1, <2>6, <3>2 DEF Follows, FlagOf, Watching
    <3> QED
      BY <1>4, <2>1, <2>4, <3>2, <3>3, <3>4 DEF Follows
  <2> QED
    BY <1>0, <2>5, <2>6
<1> QED
  BY <1>7, <1>8

\* msgrcv of a caller or of the parser.
LEMMA ReceiveFollows ==
    ASSUME NEW o \in Operators, Operators = {o}, LInv(o), NEW t \in Callers \cup {Parser},
           \/ t \in Callers /\ Camera!Receive(t)
           \/ t = Parser /\ Camera!ParserReceive,
           UNCHANGED <<panelVars, mixed>>
    PROVE  Calls(o)' /\ (~mixed' => Follows(o)')
<1>0. /\ o \in Callers /\ Button \in Callers /\ o # Button /\ Callers = {o, Button}
      /\ Parser \notin Callers
  BY SystemAssumption DEF SystemAssumption, Callers
<1>1. TypeOK /\ Calls(o) /\ (~mixed => Follows(o)) /\ Camera!IInv
  BY DEF LInv
<1>2. pc \in [Callers -> Camera!CallerPcs]
  BY DEF LInv, Camera!IInv, Camera!TypeOK
<1>3. /\ mixed' = mixed /\ arg' = arg /\ flagActive' = flagActive
      /\ step' = step /\ cmd' = cmd /\ btnPc' = btnPc /\ security' = security
  BY DEF Camera!Receive, Camera!ParserReceive, Camera!flagVars, panelVars, vars,
         operatorVars, dbVars
<1>4. \/ Camera!TakeOldest(t)
      \/ t \in Callers /\ Camera!FallAsleep(t, [pc EXCEPT ![t] = "asleep"], parserPc)
      \/ t = Parser /\ Camera!FallAsleep(t, pc, "asleep")
  <2>1. CASE t \in Callers /\ Camera!Receive(t)
    <3>1. pc[t] = "sent" /\ Camera!Msgrcv(t, [pc EXCEPT ![t] = "asleep"], parserPc)
      BY <2>1 DEF Camera!Receive
    <3>2. queue = <<>> => Camera!Asleep = {}
      BY <1>1, <2>1, <3>1, ChannelAssumed, Camera!CallerAlone
    <3> QED
      BY <1>1, <2>1, <3>1, <3>2, ChannelAssumed, Camera!MsgrcvCases
  <2>2. CASE t = Parser /\ Camera!ParserReceive
    <3>1. parserPc = "recv" /\ Camera!Msgrcv(Parser, pc, "asleep")
      BY <2>2 DEF Camera!ParserReceive
    <3>2. queue = <<>> => Camera!Asleep = {}
      BY <1>1, <3>1, ChannelAssumed, Camera!ParserAlone
    <3> QED
      BY <1>1, <2>2, <3>1, <3>2, ChannelAssumed, Camera!MsgrcvCases
  <2> QED
    BY <2>1, <2>2
<1>5. /\ t \in Callers => pc[t] = "sent"
      /\ t = Parser => parserPc = "recv"
  BY <1>0 DEF Camera!Receive, Camera!ParserReceive
<1>6. /\ \A c \in Callers : pc'[c] = pc[c] \/ (pc[c] = "sent" /\ pc'[c] \in {"asleep", "got"})
      /\ parserPc' = "reply" => parserPc = "reply" /\ RxCommand' = RxCommand
  <2>1. CASE Camera!TakeOldest(t)
    <3>1. Camera!Deliver(t, Head(queue), pc, parserPc)
      BY <2>1 DEF Camera!TakeOldest
    <3> QED
      BY <1>0, <1>2, <1>5, <3>1 DEF Camera!Deliver
  <2>2. CASE t \in Callers /\ Camera!FallAsleep(t, [pc EXCEPT ![t] = "asleep"], parserPc)
    BY <1>2, <1>5, <2>2 DEF Camera!FallAsleep
  <2>3. CASE t = Parser /\ Camera!FallAsleep(t, pc, "asleep")
    BY <2>3 DEF Camera!FallAsleep
  <2> QED
    BY <1>4, <2>1, <2>2, <2>3
<1>7. Calls(o)' /\ (Calling(o)' <=> Calling(o))
  BY <1>0, <1>1, <1>3, <1>6 DEF Calls, Calling
<1>8. ASSUME ~mixed PROVE Follows(o)'
  <2>1. Follows(o)
    BY <1>1, <1>8
  <2>2. OnePlace(o)' /\ (Somewhere(o)' <=> Somewhere(o)) /\ AllRight(o)'
    <3>1. CASE Camera!TakeOldest(t)
      BY <1>1, <1>3, <1>5, <2>1, <3>1, TakeOver, TakeOverRight DEF Follows
    <3>2. CASE ~Camera!TakeOldest(t)
      <4>1. /\ queue' = queue /\ RxCommand' = RxCommand /\ msg' = msg
            /\ (parserPc' \in {"exec", "reply"}) <=> (parserPc \in {"exec", "reply"})
            /\ \A c \in Callers : (pc'[c] = "got") <=> (pc[c] = "got")
        BY <1>2, <1>4, <1>5, <3>2 DEF Camera!FallAsleep
      <4>2. /\ (InQueue' <=> InQueue) /\ (AtParser' <=> AtParser)
            /\ \A c \in Callers : AtCaller(c)' <=> AtCaller(c)
        BY <4>1 DEF InQueue, AtParser, AtCaller, OfClient
      <4>3. OnePlace(o)' /\ (Somewhere(o)' <=> Somewhere(o))
        BY <1>0, <2>1, <4>1, <4>2 DEF Follows, OnePlace, Somewhere, OfClient
      <4>4. AllRight(o)'
        BY <1>3, <2>1, <4>1 DEF Follows, AllRight, Right, OfClient
      <4> QED
        BY <4>3, <4>4
    <3> QED
      BY <3>1, <3>2
  <2>3. FlagOf(o)'
    BY <1>3, <1>7, <2>1 DEF Follows, FlagOf, Watching
  <2> QED
    BY <1>6, <1>7, <2>1, <2>2, <2>3 DEF Follows
<1> QED
  BY <1>3, <1>7, <1>8

\* The parser executes a command: the client's turns flagActive as it says, that
\* of Btn_Handler leaves it.
LEMMA ExecuteFollows ==
    ASSUME NEW o \in Operators, Operators = {o}, LInv(o), Camera!ParserExecute,
           UNCHANGED <<panelVars, mixed>>
    PROVE  Calls(o)' /\ (~mixed' => Follows(o)')
<1>0. /\ o \in Callers /\ Button \in Callers /\ o # Button /\ Callers = {o, Button}
  BY SystemAssumption DEF SystemAssumption, Callers
<1>1. TypeOK /\ Calls(o) /\ (~mixed => Follows(o)) /\ Camera!IInv
  BY DEF LInv
<1>2. RxCommand \in Camera!Message
  BY DEF LInv, Camera!IInv, Camera!TypeOK
<1>3. /\ mixed' = mixed /\ arg' = arg /\ pc' = pc /\ msg' = msg /\ queue' = queue
      /\ step' = step /\ cmd' = cmd /\ btnPc' = btnPc /\ security' = security
      /\ parserPc = "exec" /\ parserPc' = "reply" /\ RxCommand' = Camera!Answer(RxCommand)
      /\ flagActive' = CASE RxCommand.cmd = "active"  -> TRUE
                         [] RxCommand.cmd = "suspend" -> FALSE
                         [] OTHER                     -> flagActive
  BY DEF Camera!ParserExecute, Camera!callerVars, Camera!kernelVars, panelVars, vars,
         operatorVars, dbVars
<1>4. /\ RxCommand'.cmd = RxCommand.cmd
      /\ RxCommand.cmd # "loopback" => RxCommand'.length = 1
  BY <1>2, <1>3 DEF Camera!Answer, Camera!Message
<1>5. Calls(o)' /\ (Calling(o)' <=> Calling(o))
  BY <1>1, <1>3 DEF Calls, Calling
<1>6. RxCommand.cmd \notin {"active", "suspend"} => flagActive' = flagActive
  BY <1>3
<1>7. step' = step /\ cmd' = cmd /\ security' = security
  BY <1>3
<1>8. ASSUME ~mixed PROVE Follows(o)'
  <2>1. Follows(o)
    BY <1>1, <1>8
  <2>2. (InQueue' <=> InQueue) /\ (AtParser' <=> AtParser)
    BY <1>3, <1>4 DEF InQueue, AtParser, OfClient
  <2>3. \A c \in Callers : AtCaller(c)' <=> AtCaller(c)
    BY <1>3 DEF AtCaller, OfClient
  <2>4. OnePlace(o)' /\ (Somewhere(o)' <=> Somewhere(o))
    BY <1>0, <1>3, <2>1, <2>2, <2>3 DEF Follows, OnePlace, Somewhere, OfClient
  <2>5. CASE OfClient(RxCommand)
    <3>1. AtParser /\ Calling(o)
      BY <1>3, <2>1, <2>5 DEF Follows, Somewhere, AtParser
    <3>2. step[o] = "camera" /\ arg[o] = CameraCommand[cmd[o]] /\ cmd[o] \in PanelCommands
      BY <1>1, <3>1 DEF Calls, Calling, TypeOK
    <3>3. RxCommand.cmd = arg[o]
      BY <1>3, <2>1, <2>5 DEF Follows, AllRight, Right
    <3>4. RxCommand'.length = 1
      BY <1>4, <3>2, <3>3, ClientCommands
    <3>5. ~InQueue /\ ~AtCaller(o) /\ ~AtCaller(Button)
      BY <2>1, <3>1 DEF Follows, OnePlace
    <3>6. /\ \A i \in 1..Len(queue) : ~OfClient(queue[i])
          /\ \A d \in Callers : pc[d] = "got" => ~OfClient(msg[d])
      BY <1>0, <3>5 DEF InQueue, AtCaller
    <3>7. Right(o, RxCommand)'
      BY <1>3, <1>4, <3>3 DEF Right
    <3>8. AllRight(o)'
      BY <1>3, <3>6, <3>7 DEF AllRight, Right, OfClient
    <3>9. cmd[o] = "clearalarm" => flagActive' = flagActive
      <4>1. cmd[o] = "clearalarm" => RxCommand.cmd \notin {"active", "suspend"}
        BY <3>2, <3>3, ClientCommands
      <4> QED
        BY <1>6, <4>1
    <3>10. FlagOf(o)'
      BY <1>5, <1>7, <2>1, <3>1, <3>2, <3>9 DEF Follows, FlagOf, Watching
    <3> QED
      BY <1>5, <2>1, <2>4, <3>4, <3>8, <3>10 DEF Follows
  <2>6. CASE ~OfClient(RxCommand)
    <3>1. RxCommand.cmd = "trigger_alarm"
      BY <2>6 DEF OfClient, ButtonCommand
    <3>2. flagActive' = flagActive /\ RxCommand'.length = 1 /\ RxCommand'.cmd = "trigger_alarm"
      BY <1>3, <1>4, <3>1
    <3>3. AllRight(o)'
      BY <1>3, <2>1, <3>2 DEF Follows, AllRight, Right, OfClient, ButtonCommand
    <3>4. FlagOf(o)'
      BY <1>5, <1>7, <2>1, <3>2 DEF Follows, FlagOf, Watching
    <3> QED
      BY <1>5, <2>1, <2>4, <3>2, <3>3, <3>4 DEF Follows
  <2> QED
    BY <2>5, <2>6
<1> QED
  BY <1>3, <1>5, <1>8

\* The parser sends its answer.
LEMMA ReplyFollows ==
    ASSUME NEW o \in Operators, Operators = {o}, LInv(o), Camera!ParserReply,
           UNCHANGED <<panelVars, mixed>>
    PROVE  Calls(o)' /\ (~mixed' => Follows(o)')
<1>0. /\ o \in Callers /\ Button \in Callers /\ o # Button /\ Callers = {o, Button}
  BY SystemAssumption DEF SystemAssumption, Callers
<1>1. TypeOK /\ Calls(o) /\ (~mixed => Follows(o)) /\ Camera!IInv
  BY DEF LInv
<1>2. pc \in [Callers -> Camera!CallerPcs] /\ RxCommand \in Camera!Message
  BY DEF LInv, Camera!IInv, Camera!TypeOK
<1>3. /\ mixed' = mixed /\ arg' = arg /\ flagActive' = flagActive
      /\ step' = step /\ cmd' = cmd /\ btnPc' = btnPc /\ security' = security
      /\ parserPc = "reply" /\ Camera!Msgsnd(RxCommand, pc, "recv")
  BY DEF Camera!ParserReply, Camera!flagVars, panelVars, vars, operatorVars, dbVars
<1>4. /\ \A c \in Callers : pc'[c] = pc[c] \/ (pc[c] = "asleep" /\ pc'[c] = "got")
      /\ parserPc' # "reply"
  <2>1. CASE Camera!ToParser(RxCommand, pc)
    BY <2>1 DEF Camera!ToParser
  <2>2. ASSUME NEW t \in Callers, Camera!ToCaller(t, RxCommand, pc, "recv")
        PROVE  /\ \A c \in Callers : pc'[c] = pc[c] \/ (pc[c] = "asleep" /\ pc'[c] = "got")
               /\ parserPc' # "reply"
    <3>1. /\ pc' = [pc EXCEPT ![t] = "got"] /\ parserPc' = "recv" /\ t \in Camera!Asleep
      BY <2>2 DEF Camera!ToCaller
    <3>2. pc[t] = "asleep"
      BY <2>2, <3>1, SystemAssumption DEF Camera!Asleep, SystemAssumption, Callers
    <3> QED
      BY <1>2, <3>1, <3>2
  <2>3. CASE Camera!ToQueue(RxCommand, pc, "recv")
    BY <2>3 DEF Camera!ToQueue
  <2> QED
    BY <1>1, <1>3, <2>1, <2>2, <2>3, ChannelAssumed, Camera!MsgsndCases
<1>5. Calls(o)' /\ (Calling(o)' <=> Calling(o))
  BY <1>0, <1>1, <1>3, <1>4 DEF Calls, Calling
<1>6. ASSUME ~mixed PROVE Follows(o)'
  <2>1. Follows(o)
    BY <1>1, <1>6
  <2>2. Right(o, RxCommand)
    BY <1>3, <2>1 DEF Follows, AllRight
  <2>3. OfClient(RxCommand) => Somewhere(o)
    BY <1>3 DEF Somewhere, AtParser
  <2>4. OnePlace(o)' /\ (Somewhere(o)' <=> Somewhere(o))
    BY <1>1, <1>2, <1>3, <2>1, <2>3, HandOver DEF Follows
  <2>5. AllRight(o)'
    BY <1>1, <1>2, <1>3, <2>1, <2>2, HandOverRight DEF Follows
  <2>6. FlagOf(o)'
    BY <1>3, <1>5, <2>1 DEF Follows, FlagOf, Watching
  <2> QED
    BY <1>4, <1>5, <2>1, <2>4, <2>5, <2>6 DEF Follows
<1> QED
  BY <1>3, <1>5, <1>6

-----------------------------------------------------------------------------
(* The theorems. *)

\* The panel starts well typed.
LEMMA SystemTypeInit == SystemInit => TypeOK
  BY DEF SystemInit, Init, TypeOK, Steps, BtnPcs, Bit

\* The invariant holds at the start ...
LEMMA InitFollows ==
    ASSUME NEW o \in Operators, Operators = {o}, SystemInit
    PROVE  LInv(o)
<1>0. o \in Callers /\ Button \in Callers
  BY DEF Callers
<1>1. TypeOK /\ Camera!IInv
  BY SystemTypeInit, ChannelInvariant
<1>2. /\ pc = [c \in Callers |-> "idle"] /\ queue = <<>> /\ parserPc = "recv"
      /\ flagActive = FALSE /\ security = 0 /\ step[o] = "idle" /\ cmd[o] = "none"
  BY DEF SystemInit, Init, Channel!Init
<1>3. ~InQueue /\ ~AtParser /\ ~AtCaller(o) /\ ~AtCaller(Button)
  BY <1>0, <1>2 DEF InQueue, AtParser, AtCaller
<1>4. OnePlace(o) /\ ~Somewhere(o) /\ ~Calling(o)
  BY <1>0, <1>2, <1>3 DEF OnePlace, Somewhere, Calling
<1>5. Calls(o) /\ AllRight(o) /\ FlagOf(o)
  BY <1>0, <1>2 DEF Calls, AllRight, FlagOf, Watching
<1> QED
  BY <1>1, <1>2, <1>4, <1>5 DEF LInv, Follows

\* ... and every step keeps it.
LEMMA NextFollows ==
    ASSUME NEW o \in Operators, Operators = {o}, LInv(o), [SystemNext]_systemVars
    PROVE  LInv(o)'
<1>0. /\ o \in Callers /\ Button \in Callers /\ Callers = {o, Button}
  BY SystemAssumption DEF SystemAssumption, Callers
<1>1. TypeOK /\ Calls(o) /\ (~mixed => Follows(o)) /\ Camera!IInv
  BY DEF LInv
<1>2. TypeOK' /\ Camera!IInv'
  <2>1. Camera!IInv'
    BY <1>1, ChannelInvariant
  <2>2. [Next]_vars
    BY <1>1, SystemProjects
  <2> QED
    BY <1>1, <2>1, <2>2, TypeNext
<1>3. Calls(o)' /\ (~mixed' => Follows(o)')
  <2>1. CASE ServerStep
    BY <2>1, ServerFollows
  <2>2. CASE (\E p \in Operators : CallCamera(p)) \/ BtnCallCamera
    BY <2>2, CallFollows
  <2>3. CASE \E c \in Callers : SendRequest(c)
    BY <2>3, SendFollows
  <2>4. CASE \E c \in Callers : LeaveCamera(c)
    BY <2>4, LeaveFollows
  <2>5. CASE CameraStep
    <3>1. UNCHANGED <<panelVars, mixed>>
      BY <2>5 DEF CameraStep
    <3>2. \/ \E c \in Callers : Camera!Receive(c)
          \/ Camera!ParserReceive \/ Camera!ParserExecute \/ Camera!ParserReply
      BY <2>5, SameSteps DEF CameraStep
    <3>3. CASE \E c \in Callers : Camera!Receive(c)
      BY <3>1, <3>3, ReceiveFollows
    <3>4. CASE Camera!ParserReceive
      BY <3>1, <3>4, ReceiveFollows
    <3>5. CASE Camera!ParserExecute
      BY <3>1, <3>5, ExecuteFollows
    <3>6. CASE Camera!ParserReply
      BY <3>1, <3>6, ReplyFollows
    <3> QED
      BY <3>2, <3>3, <3>4, <3>5, <3>6
  <2>6. CASE UNCHANGED systemVars
    <3>1. /\ UNCHANGED channelVars /\ mixed' = mixed
          /\ step' = step /\ cmd' = cmd /\ btnPc' = btnPc /\ security' = security
          /\ pc' = pc /\ arg' = arg /\ flagActive' = flagActive
          /\ parserPc' = parserPc /\ RxCommand' = RxCommand
      BY <2>6 DEF systemVars, channelVars, panelVars, vars, operatorVars, dbVars
    <3> QED
      BY <1>1, <3>1, ChannelRests DEF Follows, Calls, FlagOf, Watching
  <2> QED
    BY <2>1, <2>2, <2>3, <2>4, <2>5, <2>6 DEF SystemNext
<1> QED
  BY <1>2, <1>3 DEF LInv

\* With one client, whatever the limit of the queue, and however its commands,
\* the calls of Btn_Handler and the steps of the parser interleave, the camera
\* watches just while the system is locked.
THEOREM CameraFollows == SystemSpec => []CameraFollowsLock
<1>1. CASE Cardinality(Operators) = 1
  <2>1. PICK o : Operators = {o}
    BY <1>1, SystemAssumption, FS_Singleton DEF SystemAssumption
  <2>2. o \in Operators
    BY <2>1
  <2>3. SystemInit => LInv(o)
    BY <2>1, <2>2, InitFollows
  <2>4. LInv(o) /\ [SystemNext]_systemVars => LInv(o)'
    BY <2>1, <2>2, NextFollows
  <2>5. LInv(o) => CameraFollowsLock
    BY <2>1 DEF LInv, Follows, FlagOf, Watching, CameraFollowsLock
  <2> QED
    BY <2>3, <2>4, <2>5, PTL DEF SystemSpec
<1>2. CASE Cardinality(Operators) # 1
  <2>1. CameraFollowsLock
    BY <1>2 DEF CameraFollowsLock
  <2> QED
    BY <2>1, PTL
<1> QED
  BY <1>1, <1>2

\* What is proved of the channel alone holds of it inside the whole system, with
\* its queue of any limit: no answer is lost or left over, no wake-up misdirected.
THEOREM ChannelSound ==
    SystemSpec => [](Camera!MessagePerCall /\ Camera!OneSleeper)
<1>1. SystemInit => TypeOK /\ Camera!IInv
  BY SystemTypeInit, ChannelInvariant
<1>2. (TypeOK /\ Camera!IInv) /\ [SystemNext]_systemVars => (TypeOK /\ Camera!IInv)'
  <2>1. ASSUME TypeOK, Camera!IInv, [SystemNext]_systemVars PROVE TypeOK'
    BY <2>1, SystemProjects, TypeNext
  <2> QED
    BY <2>1, ChannelInvariant
<1>3. TypeOK /\ Camera!IInv => Camera!MessagePerCall /\ Camera!OneSleeper
  BY DEF Camera!IInv
<1> QED
  BY <1>1, <1>2, <1>3, PTL DEF SystemSpec
=============================================================================
