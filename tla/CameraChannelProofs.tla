------------------------- MODULE CameraChannelProofs -------------------------
(***************************************************************************)
(* Theorems about CameraChannel, for every finite set of callers, every    *)
(* set of commands and every queue limit.                                  *)
(*                                                                         *)
(* MessagePerCall alone is not inductive: that a hand-over leaves the      *)
(* count of messages alone needs to know that whoever sleeps in msgrcv is  *)
(* on the kernel's list (OneSleeper), and that a call executes a command   *)
(* at all needs to know that CommandNumber has been set (CommandSet), and  *)
(* set by a call that was made no earlier.                                 *)
(***************************************************************************)
EXTENDS CameraChannel, FiniteSetTheorems, SequenceTheorems, TLAPS

\* A thread inside camera_ctl finds a command in the global, and one that has been
\* passed since it came in.
CommandSet == \A c \in Callers : pc[c] = "set" => CommandNumber \in offered[c]

IInv == TypeOK /\ CommandSet /\ MessagePerCall /\ OneSleeper

-----------------------------------------------------------------------------
(* What one system call on the queue can do. *)

\* The message goes to the sleeping parser.
ToParser(m, callerPc) ==
    /\ Asleep = {Parser} /\ sleepers = <<Parser>> /\ queue = <<>>
    /\ sleepers' = <<>> /\ queue' = queue
    /\ parserPc' = "exec" /\ RxCommand' = m
    /\ pc' = callerPc /\ msg' = msg

\* The message goes to the sleeping caller t.
ToCaller(t, m, callerPc, ppc) ==
    /\ t \in Callers
    /\ Asleep = {t} /\ sleepers = <<t>> /\ queue = <<>>
    /\ sleepers' = <<>> /\ queue' = queue
    /\ parserPc' = ppc /\ RxCommand' = RxCommand
    /\ pc' = [callerPc EXCEPT ![t] = "got"] /\ msg' = [msg EXCEPT ![t] = m]

\* Nobody sleeps: the message is enqueued.
ToQueue(m, callerPc, ppc) ==
    /\ Asleep = {} /\ sleepers = <<>> /\ sleepers' = sleepers
    /\ queue' = Append(queue, m)
    /\ parserPc' = ppc /\ RxCommand' = RxCommand
    /\ pc' = callerPc /\ msg' = msg

\* msgsnd of a message: the parser has it, a caller has it, or the queue has it.
LEMMA MsgsndCases ==
    ASSUME IInv, NEW m, NEW callerPc, NEW ppc, Msgsnd(m, callerPc, ppc)
    PROVE  \/ ToParser(m, callerPc)
           \/ \E t \in Callers : ToCaller(t, m, callerPc, ppc)
           \/ ToQueue(m, callerPc, ppc)
<1>1. CASE sleepers = <<>>
  <2>1. Asleep = {}
    BY <1>1 DEF IInv, OneSleeper
  <2> QED
    BY <1>1, <2>1 DEF Msgsnd, ToQueue
<1>2. CASE sleepers # <<>>
  <2>1. PICK t \in Callers \cup {Parser} :
            Asleep = {t} /\ sleepers = <<t>> /\ queue = <<>>
    BY <1>2 DEF IInv, OneSleeper
  <2>2. Head(sleepers) = t /\ Tail(sleepers) = <<>>
    BY <2>1
  <2>3. sleepers' = <<>> /\ queue' = queue /\ Deliver(t, m, callerPc, ppc)
    BY <1>2, <2>2 DEF Msgsnd
  <2>4. CASE t = Parser
    BY <2>1, <2>3, <2>4 DEF Deliver, ToParser
  <2>5. CASE t # Parser
    BY <2>1, <2>3, <2>5 DEF Deliver, ToCaller
  <2> QED
    BY <2>4, <2>5
<1> QED
  BY <1>1, <1>2

\* The oldest message is taken from the queue.
TakeOldest(t) ==
    /\ queue # <<>> /\ queue' = Tail(queue)
    /\ Asleep = {} /\ sleepers = <<>> /\ sleepers' = sleepers
    /\ Deliver(t, Head(queue), pc, parserPc)

\* The queue is empty: t becomes the only sleeper.
FallAsleep(t, callerPc, ppc) ==
    /\ queue = <<>> /\ queue' = queue
    /\ Asleep = {} /\ sleepers = <<>> /\ sleepers' = <<t>>
    /\ parserPc' = ppc /\ RxCommand' = RxCommand
    /\ pc' = callerPc /\ msg' = msg

\* msgrcv takes the oldest message or, without one, puts the thread to sleep.
LEMMA MsgrcvCases ==
    ASSUME IInv, NEW t, NEW callerPc, NEW ppc, Msgrcv(t, callerPc, ppc),
           queue = <<>> => Asleep = {}
    PROVE  TakeOldest(t) \/ FallAsleep(t, callerPc, ppc)
<1>1. CASE queue # <<>>
  <2>1. Asleep = {} /\ sleepers = <<>>
    BY <1>1 DEF IInv, OneSleeper
  <2> QED
    BY <1>1, <2>1 DEF Msgrcv, TakeOldest
<1>2. CASE queue = <<>>
  <2>1. Asleep = {} /\ sleepers = <<>>
    BY <1>2 DEF IInv, OneSleeper
  <2>2. Append(sleepers, t) = <<t>>
    BY <2>1
  <2> QED
    BY <1>2, <2>1, <2>2 DEF Msgrcv, FallAsleep
<1> QED
  BY <1>1, <1>2

-----------------------------------------------------------------------------
(* Counting the outstanding calls. *)

\* The outstanding calls can be counted.
LEMMA OutstandingFinite ==
    IsFiniteSet(Outstanding) /\ Cardinality(Outstanding) \in Nat
<1>1. Outstanding \subseteq Callers
  BY DEF Outstanding
<1>2. IsFiniteSet(Outstanding)
  BY <1>1, ChannelAssumption, FS_Subset DEF ChannelAssumption
<1> QED
  BY <1>2, FS_CardinalityType

\* A caller that is about to wait on an empty queue finds nobody asleep.
LEMMA CallerAlone ==
    ASSUME IInv, NEW c \in Callers, pc[c] = "sent", queue = <<>>
    PROVE  Asleep = {}
<1>1. c \in Outstanding /\ c \notin Asleep
  BY ChannelAssumption DEF Outstanding, Asleep, ChannelAssumption
<1>2. Cardinality(Outstanding) = InParser
  BY OutstandingFinite DEF IInv, MessagePerCall, InParser
<1>3. Cardinality(Outstanding) # 0
  BY <1>1, OutstandingFinite, FS_EmptySet
<1>4. InParser = 1 /\ parserPc # "asleep"
  BY <1>2, <1>3 DEF InParser
<1>5. PICK d : Outstanding = {d}
  BY <1>2, <1>4, OutstandingFinite, FS_Singleton
<1>6. \A b \in Callers : pc[b] # "asleep"
  BY <1>1, <1>5 DEF Outstanding, Asleep
<1> QED
  BY <1>4, <1>6 DEF Asleep

\* The parser, about to wait on an empty queue, finds nobody asleep.
LEMMA ParserAlone ==
    ASSUME IInv, parserPc = "recv", queue = <<>>
    PROVE  Asleep = {}
<1>1. Cardinality(Outstanding) = 0
  BY DEF IInv, MessagePerCall, InParser
<1>2. Outstanding = {}
  BY <1>1, OutstandingFinite, FS_EmptySet
<1> QED
  BY <1>2 DEF Outstanding, Asleep

\* What a call finds in the global when it dispatches is a command.
LEMMA CommandType ==
    ASSUME IInv, NEW c \in Callers, pc[c] = "set"
    PROVE  CommandNumber \in Commands
<1>1. CommandNumber \in offered[c]
  BY DEF IInv, CommandSet
<1>2. offered[c] \in SUBSET Commands
  BY DEF IInv, TypeOK
<1> QED
  BY <1>1, <1>2

\* Every request camera_ctl builds is a packet.
LEMMA RequestType == ASSUME NEW k \in Commands PROVE Request(k) \in Message
  BY ChannelAssumption DEF Request, Message, ChannelAssumption, CommandIds

\* Every answer the parser writes over a packet is a packet.
LEMMA AnswerType ==
    ASSUME TypeOK, NEW m \in Message
    PROVE  Answer(m) \in Message /\ Answer(m).cmd = m.cmd
  BY DEF TypeOK, Answer, Message

-----------------------------------------------------------------------------
\* The server starts with an empty queue and nobody waiting on it.
THEOREM InitInv == Init => IInv
<1> SUFFICES ASSUME Init PROVE IInv
  OBVIOUS
<1>1. NoMessage \in Message
  BY DEF NoMessage, Message
<1>2. TypeOK
  <2>1. pc \in [Callers -> CallerPcs] /\ parserPc \in ParserPcs
    BY DEF Init, CallerPcs, ParserPcs
  <2>2. arg \in [Callers -> Commands \cup {None}] /\ branch \in [Callers -> Commands \cup {None}]
    BY DEF Init
  <2>3. msg \in [Callers -> Message] /\ RxCommand \in Message
    BY <1>1 DEF Init
  <2>4. queue \in Seq(Message) /\ sleepers \in Seq(Callers \cup {Parser})
    BY DEF Init
  <2> QED
    BY <2>1, <2>2, <2>3, <2>4 DEF Init, TypeOK
<1>7. CommandSet
  BY DEF Init, CommandSet
<1>3. Outstanding = {} /\ Asleep = {} /\ InParser = 0
  BY DEF Init, Outstanding, Asleep, InParser
<1>4. Cardinality(Outstanding) = 0 /\ Len(queue) = 0
  BY <1>3, FS_EmptySet DEF Init
<1>5. MessagePerCall
  BY <1>3, <1>4 DEF MessagePerCall
<1>6. OneSleeper
  BY <1>3 DEF Init, OneSleeper
<1> QED
  BY <1>2, <1>7, <1>5, <1>6 DEF IInv
-----------------------------------------------------------------------------
(* Every step preserves the invariant: one lemma per action that uses the  *)
(* queue, one for the actions that do not.                                 *)

\* A request that is sent adds one call and one message.
LEMMA DispatchInv ==
    ASSUME IInv, NEW c \in Callers, Dispatch(c)
    PROVE  IInv'
<1> DEFINE K == CommandNumber
           callerPc == [pc EXCEPT ![c] = "sent"]
<1>1. K \in Commands /\ Request(K) \in Message /\ pc[c] = "set"
  BY RequestType, CommandType DEF Dispatch
<1>2. c \notin Outstanding /\ c \notin Asleep
  BY <1>1, ChannelAssumption DEF Outstanding, Asleep, ChannelAssumption
<1>3. callerPc \in [Callers -> CallerPcs]
  BY DEF IInv, TypeOK, CallerPcs
<1>4. Msgsnd(Request(K), callerPc, parserPc)
  BY DEF Dispatch
<1>5. Cardinality(Outstanding \cup {c}) = Cardinality(Outstanding) + 1
  BY <1>2, OutstandingFinite, FS_AddElement
<1>6. /\ branch' \in [Callers -> Commands \cup {None}]
      /\ CommandNumber' = K /\ arg' = arg
      /\ flagActive' = flagActive /\ flagAlarm' = flagAlarm
      /\ burst' \subseteq Commands
      /\ offered' = [offered EXCEPT ![c] = {}]
      /\ offered' \in [Callers -> SUBSET Commands]
  BY <1>1 DEF Dispatch, flagVars, IInv, TypeOK
<1>7. CASE ToParser(Request(K), callerPc)
  <2>1. TypeOK' /\ CommandSet'
    BY <1>1, <1>3, <1>6, <1>7 DEF ToParser, IInv, TypeOK, CommandSet, ParserPcs
  <2>2. Outstanding' = Outstanding \cup {c}
    BY <1>3, <1>7 DEF ToParser, Outstanding, IInv, TypeOK
  <2>3. InParser = 0 /\ InParser' = 1 /\ Len(queue') = Len(queue)
    BY <1>7, ChannelAssumption DEF ToParser, InParser, Asleep, ChannelAssumption
  <2>4. MessagePerCall'
    BY <1>5, <2>2, <2>3, OutstandingFinite DEF IInv, MessagePerCall
  <2>5. Asleep' = {}
    BY <1>3, <1>7, ChannelAssumption DEF ToParser, Asleep, IInv, TypeOK, ChannelAssumption
  <2>6. OneSleeper'
    BY <1>7, <2>5 DEF ToParser, OneSleeper
  <2> QED
    BY <2>1, <2>4, <2>6 DEF IInv
<1>8. ASSUME NEW t \in Callers, ToCaller(t, Request(K), callerPc, parserPc)
      PROVE  IInv'
  <2>1. t # c /\ pc[t] = "asleep"
    BY <1>2, <1>8, ChannelAssumption DEF ToCaller, Asleep, ChannelAssumption
  <2>2. TypeOK' /\ CommandSet'
    BY <1>1, <1>3, <1>6, <1>8, <2>1 DEF ToCaller, IInv, TypeOK, CommandSet, CallerPcs
  <2>3. t \in Outstanding \cup {c}
    BY <2>1 DEF Outstanding
  <2>4. Outstanding' = (Outstanding \cup {c}) \ {t}
    BY <1>3, <1>8, <2>1 DEF ToCaller, Outstanding, IInv, TypeOK
  <2>5. IsFiniteSet(Outstanding \cup {c})
    BY OutstandingFinite, FS_AddElement
  <2>6. Cardinality(Outstanding') = Cardinality(Outstanding \cup {c}) - 1
    BY <2>3, <2>4, <2>5, FS_RemoveElement
  <2>7. InParser' = InParser /\ Len(queue') = Len(queue)
    BY <1>8 DEF ToCaller, InParser
  <2>8. MessagePerCall'
    BY <1>5, <2>6, <2>7, OutstandingFinite DEF IInv, MessagePerCall
  <2>9. Asleep' = {}
    BY <1>3, <1>8, <2>1, ChannelAssumption DEF ToCaller, Asleep, IInv, TypeOK, ChannelAssumption
  <2>10. OneSleeper'
    BY <1>8, <2>9 DEF ToCaller, OneSleeper
  <2> QED
    BY <2>2, <2>8, <2>10 DEF IInv
<1>9. CASE ToQueue(Request(K), callerPc, parserPc)
  <2>1. queue' \in Seq(Message) /\ Len(queue') = Len(queue) + 1
    BY <1>1, <1>9 DEF ToQueue, IInv, TypeOK
  <2>2. TypeOK' /\ CommandSet'
    BY <1>1, <1>3, <1>6, <1>9, <2>1 DEF ToQueue, IInv, TypeOK, CommandSet
  <2>3. Outstanding' = Outstanding \cup {c} /\ InParser' = InParser
    BY <1>3, <1>9 DEF ToQueue, Outstanding, InParser, IInv, TypeOK
  <2>4. MessagePerCall'
    BY <1>5, <2>1, <2>3, OutstandingFinite DEF IInv, MessagePerCall, TypeOK, InParser
  <2>5. Asleep' = {}
    BY <1>3, <1>9, ChannelAssumption DEF ToQueue, Asleep, IInv, TypeOK, ChannelAssumption
  <2>6. OneSleeper'
    BY <1>9, <2>5 DEF ToQueue, OneSleeper
  <2> QED
    BY <2>2, <2>4, <2>6 DEF IInv
<1> QED
  BY <1>4, <1>7, <1>8, <1>9, MsgsndCases

\* A thread that takes the oldest message leaves one message less.
LEMMA TakeFacts ==
    ASSUME IInv, NEW t \in Callers \cup {Parser}, TakeOldest(t)
    PROVE  /\ Head(queue) \in Message
           /\ queue' \in Seq(Message)
           /\ Len(queue') = Len(queue) - 1
<1>1. queue \in Seq(Message) /\ queue # <<>> /\ queue' = Tail(queue)
  BY DEF IInv, TypeOK, TakeOldest
<1> QED
  BY <1>1, HeadTailProperties

\* A caller that receives ends one call and takes one message.
LEMMA ReceiveInv ==
    ASSUME IInv, NEW c \in Callers, Receive(c)
    PROVE  IInv'
<1> DEFINE callerPc == [pc EXCEPT ![c] = "asleep"]
<1>1. pc[c] = "sent" /\ c \in Outstanding /\ c # Parser
  BY ChannelAssumption DEF Receive, Outstanding, ChannelAssumption
<1>2. /\ arg' = arg /\ branch' = branch /\ CommandNumber' = CommandNumber
      /\ flagActive' = flagActive /\ flagAlarm' = flagAlarm /\ burst' = burst
      /\ offered' = offered
  BY DEF Receive, flagVars, historyVars
<1>3. CASE TakeOldest(c)
  <2>1. /\ pc' = [pc EXCEPT ![c] = "got"] /\ msg' = [msg EXCEPT ![c] = Head(queue)]
        /\ parserPc' = parserPc /\ RxCommand' = RxCommand /\ sleepers' = sleepers
    BY <1>1, <1>3 DEF TakeOldest, Deliver
  <2>2. Head(queue) \in Message /\ queue' \in Seq(Message) /\ Len(queue') = Len(queue) - 1
    BY <1>3, TakeFacts
  <2>3. TypeOK' /\ CommandSet'
    BY <1>2, <2>1, <2>2 DEF IInv, TypeOK, CommandSet, CallerPcs
  <2>4. Outstanding' = Outstanding \ {c} /\ InParser' = InParser
    BY <2>1 DEF Outstanding, InParser, IInv, TypeOK
  <2>5. Cardinality(Outstanding') = Cardinality(Outstanding) - 1
    BY <1>1, <2>4, OutstandingFinite, FS_RemoveElement
  <2>6. MessagePerCall'
    BY <2>2, <2>4, <2>5, OutstandingFinite DEF IInv, MessagePerCall, TypeOK, InParser
  <2>7. Asleep' = {} /\ sleepers' = <<>>
    BY <1>3, <2>1, ChannelAssumption
    DEF TakeOldest, Asleep, IInv, TypeOK, ChannelAssumption
  <2> QED
    BY <2>3, <2>6, <2>7 DEF IInv, OneSleeper
<1>4. CASE FallAsleep(c, callerPc, parserPc)
  <2>1. TypeOK' /\ CommandSet'
    BY <1>2, <1>4 DEF FallAsleep, IInv, TypeOK, CommandSet, CallerPcs
  <2>2. Outstanding' = Outstanding /\ InParser' = InParser
    BY <1>1, <1>4 DEF FallAsleep, Outstanding, InParser, IInv, TypeOK
  <2>3. MessagePerCall'
    BY <1>4, <2>2 DEF FallAsleep, IInv, MessagePerCall
  <2>4. Asleep' = {c}
    BY <1>1, <1>4, ChannelAssumption
    DEF FallAsleep, Asleep, IInv, TypeOK, ChannelAssumption
  <2>5. OneSleeper'
    BY <1>4, <2>4 DEF FallAsleep, OneSleeper
  <2> QED
    BY <2>1, <2>3, <2>5 DEF IInv
<1>5. queue = <<>> => Asleep = {}
  BY <1>1, CallerAlone
<1> QED
  BY <1>3, <1>4, <1>5, MsgrcvCases DEF Receive

\* A message the parser takes from the queue is in its hands.
LEMMA ParserReceiveInv ==
    ASSUME IInv, ParserReceive
    PROVE  IInv'
<1>1. /\ parserPc = "recv" /\ InParser = 0
      /\ arg' = arg /\ branch' = branch /\ CommandNumber' = CommandNumber
      /\ flagActive' = flagActive /\ flagAlarm' = flagAlarm /\ burst' = burst
      /\ offered' = offered
  BY DEF ParserReceive, flagVars, historyVars, InParser
<1>2. CASE TakeOldest(Parser)
  <2>1. /\ parserPc' = "exec" /\ RxCommand' = Head(queue) /\ sleepers' = sleepers
        /\ pc' = pc /\ msg' = msg
    BY <1>2 DEF TakeOldest, Deliver
  <2>2. Head(queue) \in Message /\ queue' \in Seq(Message) /\ Len(queue') = Len(queue) - 1
    BY <1>2, TakeFacts
  <2>3. TypeOK' /\ CommandSet'
    BY <1>1, <2>1, <2>2 DEF IInv, TypeOK, CommandSet, ParserPcs
  <2>4. Outstanding' = Outstanding /\ InParser' = 1
    BY <2>1 DEF Outstanding, InParser
  <2>5. MessagePerCall'
    BY <1>1, <2>2, <2>4 DEF IInv, MessagePerCall, TypeOK
  <2>6. Asleep' = {} /\ sleepers' = <<>>
    BY <1>2, <2>1 DEF TakeOldest, Asleep
  <2> QED
    BY <2>3, <2>5, <2>6 DEF IInv, OneSleeper
<1>3. CASE FallAsleep(Parser, pc, "asleep")
  <2>1. TypeOK' /\ CommandSet'
    BY <1>1, <1>3 DEF FallAsleep, IInv, TypeOK, CommandSet, ParserPcs
  <2>2. Outstanding' = Outstanding /\ InParser' = 0
    BY <1>3 DEF FallAsleep, Outstanding, InParser
  <2>3. MessagePerCall'
    BY <1>1, <1>3, <2>2 DEF FallAsleep, IInv, MessagePerCall
  <2>4. Asleep' = {Parser}
    BY <1>1, <1>3 DEF FallAsleep, Asleep
  <2>5. OneSleeper'
    BY <1>3, <2>4 DEF FallAsleep, OneSleeper
  <2> QED
    BY <2>1, <2>3, <2>5 DEF IInv
<1>4. queue = <<>> => Asleep = {}
  BY <1>1, ParserAlone
<1> QED
  BY <1>2, <1>3, <1>4, MsgrcvCases DEF ParserReceive

\* An answer leaves the parser's hands for a caller or the queue.
LEMMA ParserReplyInv ==
    ASSUME IInv, ParserReply
    PROVE  IInv'
<1>1. /\ parserPc = "reply" /\ InParser = 1 /\ RxCommand \in Message
      /\ arg' = arg /\ branch' = branch /\ CommandNumber' = CommandNumber
      /\ flagActive' = flagActive /\ flagAlarm' = flagAlarm /\ burst' = burst
      /\ offered' = offered
  BY DEF ParserReply, flagVars, historyVars, InParser, IInv, TypeOK
<1>2. Msgsnd(RxCommand, pc, "recv")
  BY DEF ParserReply
<1>3. ~ToParser(RxCommand, pc)
  BY <1>1, ChannelAssumption DEF ToParser, Asleep, ChannelAssumption
<1>4. ASSUME NEW t \in Callers, ToCaller(t, RxCommand, pc, "recv")
      PROVE  IInv'
  <2>1. pc[t] = "asleep" /\ t \in Outstanding
    BY <1>4, ChannelAssumption DEF ToCaller, Asleep, Outstanding, ChannelAssumption
  <2>2. TypeOK' /\ CommandSet'
    BY <1>1, <1>4 DEF ToCaller, IInv, TypeOK, CommandSet, CallerPcs, ParserPcs
  <2>3. Outstanding' = Outstanding \ {t} /\ InParser' = 0
    BY <1>4 DEF ToCaller, Outstanding, InParser, IInv, TypeOK
  <2>4. Cardinality(Outstanding') = Cardinality(Outstanding) - 1
    BY <2>1, <2>3, OutstandingFinite, FS_RemoveElement
  <2>5. MessagePerCall'
    BY <1>1, <1>4, <2>3, <2>4, OutstandingFinite DEF ToCaller, IInv, MessagePerCall, TypeOK
  <2>6. Asleep' = {}
    BY <1>1, <1>4, ChannelAssumption
    DEF ToCaller, Asleep, IInv, TypeOK, ChannelAssumption
  <2> QED
    BY <1>4, <2>2, <2>5, <2>6 DEF ToCaller, IInv, OneSleeper
<1>5. CASE ToQueue(RxCommand, pc, "recv")
  <2>1. queue' \in Seq(Message) /\ Len(queue') = Len(queue) + 1
    BY <1>1, <1>5 DEF ToQueue, IInv, TypeOK
  <2>2. TypeOK' /\ CommandSet'
    BY <1>1, <1>5, <2>1 DEF ToQueue, IInv, TypeOK, CommandSet, ParserPcs
  <2>3. Outstanding' = Outstanding /\ InParser' = 0
    BY <1>5 DEF ToQueue, Outstanding, InParser
  <2>4. MessagePerCall'
    BY <1>1, <2>1, <2>3 DEF IInv, MessagePerCall, TypeOK
  <2>5. Asleep' = {}
    BY <1>5 DEF ToQueue, Asleep
  <2> QED
    BY <1>5, <2>2, <2>4, <2>5 DEF ToQueue, IInv, OneSleeper
<1> QED
  BY <1>2, <1>3, <1>4, <1>5, MsgsndCases

\* Steps that do not touch the queue.
LEMMA LocalInv ==
    ASSUME IInv,
           \/ \E c \in Callers, k \in Commands : SetCommand(c, k)
           \/ \E c \in Callers : Return(c)
           \/ ParserExecute
    PROVE  IInv'
<1>1. ASSUME NEW c \in Callers, NEW k \in Commands, SetCommand(c, k) PROVE IInv'
  <2>1. TypeOK' /\ CommandSet'
    BY <1>1 DEF SetCommand, Offer, IInv, TypeOK, CommandSet, CallerPcs, kernelVars, parserVars, flagVars
  <2>2. Outstanding' = Outstanding /\ Asleep' = Asleep /\ InParser' = InParser
    BY <1>1 DEF SetCommand, IInv, TypeOK, Outstanding, Asleep, InParser, parserVars
  <2> QED
    BY <1>1, <2>1, <2>2 DEF SetCommand, IInv, MessagePerCall, OneSleeper, kernelVars
<1>2. ASSUME NEW c \in Callers, Return(c) PROVE IInv'
  <2>1. NoMessage \in Message
    BY DEF NoMessage, Message
  <2>2. TypeOK' /\ CommandSet'
    BY <1>2, <2>1 DEF Return, IInv, TypeOK, CommandSet, CallerPcs, kernelVars, parserVars, flagVars
  <2>3. Outstanding' = Outstanding /\ Asleep' = Asleep /\ InParser' = InParser
    BY <1>2 DEF Return, IInv, TypeOK, Outstanding, Asleep, InParser, parserVars
  <2> QED
    BY <1>2, <2>2, <2>3 DEF Return, IInv, MessagePerCall, OneSleeper, kernelVars
<1>3. CASE ParserExecute
  <2>1. Answer(RxCommand) \in Message
    BY AnswerType DEF IInv, TypeOK
  <2>2. TypeOK' /\ CommandSet'
    BY <1>3, <2>1 DEF ParserExecute, IInv, TypeOK, CommandSet, ParserPcs, callerVars, kernelVars, historyVars
  <2>3. Outstanding' = Outstanding /\ Asleep' = Asleep /\ InParser' = InParser
    BY <1>3 DEF ParserExecute, Outstanding, Asleep, InParser, callerVars
  <2> QED
    BY <1>3, <2>2, <2>3 DEF ParserExecute, IInv, MessagePerCall, OneSleeper, callerVars, kernelVars
<1> QED
  BY <1>1, <1>2, <1>3

\* Every step of the callers and of the parser keeps the invariant.
LEMMA NextInv == IInv /\ [Next]_vars => IInv'
<1> SUFFICES ASSUME IInv, [Next]_vars PROVE IInv'
  OBVIOUS
<1>1. CASE UNCHANGED vars
  BY <1>1 DEF vars, callerVars, kernelVars, parserVars, flagVars, historyVars, IInv, TypeOK, CommandSet,
     MessagePerCall, OneSleeper, Outstanding, Asleep, InParser
<1>2. ASSUME NEW c \in Callers, Dispatch(c) PROVE IInv'
  BY <1>2, DispatchInv
<1>3. ASSUME NEW c \in Callers, Receive(c) PROVE IInv'
  BY <1>3, ReceiveInv
<1>4. CASE ParserReceive
  BY <1>4, ParserReceiveInv
<1>5. CASE ParserReply
  BY <1>5, ParserReplyInv
<1> QED
  BY <1>1, <1>2, <1>3, <1>4, <1>5, LocalInv DEF Next

\* Calls, messages and sleepers stay matched whatever camera_ctl and
\* CommandParser_Handler do.
THEOREM Invariance == Spec => []IInv
<1> QED
  BY InitInv, NextInv, PTL DEF Spec

\* The variables of the model stay in their types: in particular the parser
\* never works on anything that is not a well-formed packet.
THEOREM TypeCorrect == Spec => []TypeOK
<1>1. IInv => TypeOK
  BY DEF IInv
<1> QED
  BY <1>1, Invariance, PTL

\* One message for every call that waits: camera_ctl and CommandParser_Handler
\* neither lose an answer nor leave one behind, for any number of threads.
THEOREM OneMessagePerCall == Spec => []MessagePerCall
<1>1. IInv => MessagePerCall
  BY DEF IInv
<1> QED
  BY <1>1, Invariance, PTL

\* The kernel's list of threads blocked in msgrcv names exactly the one that
\* sleeps, and only while there is nothing to receive.
THEOREM NoLostWakeup == Spec => []OneSleeper
<1>1. IInv => OneSleeper
  BY DEF IInv
<1> QED
  BY <1>1, Invariance, PTL

\* SentryMode's flags only move while a camera_ctl call is outstanding.
THEOREM FlagsStable == Spec => FlagsStableAtRest
<1>1. ASSUME IInv, [Next]_vars, Outstanding = {}
      PROVE  UNCHANGED <<flagActive, flagAlarm>>
  <2>1. InParser = 0
    <3>1. Cardinality(Outstanding) = 0
      BY <1>1, FS_EmptySet
    <3> QED
      BY <1>1, <3>1 DEF IInv, TypeOK, MessagePerCall, InParser
  <2>2. ~ParserExecute
    <3>1. parserPc # "exec"
      BY <2>1 DEF InParser
    <3> QED
      BY <3>1 DEF ParserExecute
  <2> QED
    BY <1>1, <2>2 DEF Next, vars, flagVars, SetCommand, Dispatch, Receive, Return,
       ParserReceive, ParserReply
<1>2. IInv /\ [Next]_vars => [Outstanding = {} => UNCHANGED <<flagActive, flagAlarm>>]_vars
  BY <1>1
<1> QED
  BY <1>2, Invariance, PTL DEF Spec, FlagsStableAtRest

\* A parser that waits for room for its answer leaves a caller that makes room:
\* msgsnd on the full queue is no deadlock, whatever the queue's limit.
THEOREM FullQueueIsDrained == Spec => []FullQueueDrains
<1>1. ASSUME IInv, parserPc = "reply", Len(queue) = QueueLimit
      PROVE  \E c \in Callers : pc[c] = "sent"
  <2>1. queue # <<>> /\ InParser = 1
    BY <1>1, ChannelAssumption DEF InParser, ChannelAssumption
  <2>2. Cardinality(Outstanding) = QueueLimit + 1
    BY <1>1, <2>1 DEF IInv, MessagePerCall
  <2>3. Cardinality(Outstanding) # 0
    BY <2>2, ChannelAssumption DEF ChannelAssumption
  <2>4. Outstanding # {}
    BY <2>3, FS_EmptySet
  <2>5. Asleep = {}
    BY <1>1, <2>1 DEF IInv, OneSleeper
  <2> QED
    BY <2>4, <2>5 DEF Outstanding, Asleep
<1>2. IInv => FullQueueDrains
  BY <1>1 DEF FullQueueDrains
<1> QED
  BY <1>2, Invariance, PTL

-----------------------------------------------------------------------------
(* Commands of the current burst only. *)

CurrentInv == IInv /\ OnlyCurrentCommands

\* The command that is dispatched joins the burst.
LEMMA CurrentDispatch ==
    ASSUME CurrentInv, NEW c \in Callers, Dispatch(c)
    PROVE  OnlyCurrentCommands'
<1> DEFINE callerPc == [pc EXCEPT ![c] = "sent"]
           m == Request(CommandNumber)
<1>1. burst' = burst \cup {CommandNumber} /\ m.cmd = CommandNumber
  BY DEF Dispatch, Request
<1>2. Msgsnd(m, callerPc, parserPc)
  BY DEF Dispatch
<1>3. CASE ToParser(m, callerPc)
  BY <1>1, <1>3 DEF ToParser, CurrentInv, OnlyCurrentCommands
<1>4. ASSUME NEW t \in Callers, ToCaller(t, m, callerPc, parserPc)
      PROVE  OnlyCurrentCommands'
  BY <1>1, <1>4 DEF ToCaller, CurrentInv, OnlyCurrentCommands
<1>5. CASE ToQueue(m, callerPc, parserPc)
  <2>1. queue \in Seq(Message) /\ m \in Message
    BY RequestType, CommandType DEF CurrentInv, IInv, TypeOK, Dispatch
  <2>2. queue' = Append(queue, m)
    BY <1>5 DEF ToQueue
  <2>3. \A i \in 1..Len(queue') : queue'[i].cmd \in burst'
    BY <1>1, <2>1, <2>2, AppendProperties DEF CurrentInv, OnlyCurrentCommands
  <2> QED
    BY <1>1, <1>5, <2>3 DEF ToQueue, CurrentInv, OnlyCurrentCommands
<1> QED
  BY <1>2, <1>3, <1>4, <1>5, MsgsndCases DEF CurrentInv

\* An answer is of the command of the message it is written over.
LEMMA CurrentReply ==
    ASSUME CurrentInv, ParserReply
    PROVE  OnlyCurrentCommands'
<1>1. burst' = burst /\ RxCommand.cmd \in burst /\ parserPc = "reply"
  BY DEF ParserReply, historyVars, CurrentInv, OnlyCurrentCommands
<1>2. Msgsnd(RxCommand, pc, "recv")
  BY DEF ParserReply
<1>3. ~ToParser(RxCommand, pc)
  BY <1>1, ChannelAssumption DEF ToParser, Asleep, ChannelAssumption
<1>4. ASSUME NEW t \in Callers, ToCaller(t, RxCommand, pc, "recv")
      PROVE  OnlyCurrentCommands'
  BY <1>1, <1>4 DEF ToCaller, CurrentInv, OnlyCurrentCommands
<1>5. CASE ToQueue(RxCommand, pc, "recv")
  <2>1. queue \in Seq(Message) /\ RxCommand \in Message
    BY DEF CurrentInv, IInv, TypeOK
  <2>2. queue' = Append(queue, RxCommand) /\ parserPc' = "recv"
    BY <1>5 DEF ToQueue
  <2>3. \A i \in 1..Len(queue') : queue'[i].cmd \in burst'
    BY <1>1, <2>1, <2>2, AppendProperties DEF CurrentInv, OnlyCurrentCommands
  <2> QED
    BY <2>2, <2>3 DEF OnlyCurrentCommands
<1> QED
  BY <1>2, <1>3, <1>4, <1>5, MsgsndCases DEF CurrentInv

\* A message that is taken was one of the current burst.
LEMMA CurrentTake ==
    ASSUME CurrentInv, NEW t \in Callers \cup {Parser}, TakeOldest(t)
    PROVE  /\ Head(queue).cmd \in burst
           /\ \A i \in 1..Len(queue') : queue'[i].cmd \in burst
<1>1. queue \in Seq(Message) /\ queue # <<>> /\ queue' = Tail(queue)
  BY DEF CurrentInv, IInv, TypeOK, TakeOldest
<1>2. Len(queue) \in Nat \ {0} /\ Head(queue) = queue[1]
  BY <1>1, HeadTailProperties
<1>3. Len(queue') = Len(queue) - 1 /\ \A i \in 1..Len(queue') : queue'[i] = queue[i + 1]
  BY <1>1, HeadTailProperties
<1>4. \A i \in 1..Len(queue) : queue[i].cmd \in burst
  BY DEF CurrentInv, OnlyCurrentCommands
<1> QED
  BY <1>2, <1>3, <1>4

\* Whoever receives, nothing new comes into the queue.
LEMMA CurrentReceive ==
    ASSUME CurrentInv,
           ParserReceive \/ \E c \in Callers : Receive(c)
    PROVE  OnlyCurrentCommands'
<1>1. ASSUME NEW c \in Callers, Receive(c) PROVE OnlyCurrentCommands'
  <2>1. burst' = burst /\ c # Parser /\ (queue = <<>> => Asleep = {})
    BY <1>1, CallerAlone, ChannelAssumption
    DEF Receive, historyVars, ChannelAssumption, CurrentInv
  <2>2. CASE TakeOldest(c)
    <3>1. parserPc' = parserPc /\ RxCommand' = RxCommand
      BY <2>1, <2>2 DEF TakeOldest, Deliver
    <3> QED
      BY <2>1, <2>2, <3>1, CurrentTake DEF CurrentInv, OnlyCurrentCommands
  <2>3. CASE FallAsleep(c, [pc EXCEPT ![c] = "asleep"], parserPc)
    BY <2>1, <2>3 DEF FallAsleep, CurrentInv, OnlyCurrentCommands
  <2> QED
    BY <1>1, <2>1, <2>2, <2>3, MsgrcvCases DEF Receive, CurrentInv
<1>2. CASE ParserReceive
  <2>1. burst' = burst /\ (queue = <<>> => Asleep = {})
    BY <1>2, ParserAlone DEF ParserReceive, historyVars, CurrentInv
  <2>2. CASE TakeOldest(Parser)
    <3>1. parserPc' = "exec" /\ RxCommand' = Head(queue)
      BY <2>2 DEF TakeOldest, Deliver
    <3> QED
      BY <2>1, <2>2, <3>1, CurrentTake DEF CurrentInv, OnlyCurrentCommands
  <2>3. CASE FallAsleep(Parser, pc, "asleep")
    BY <2>1, <2>3 DEF FallAsleep, CurrentInv, OnlyCurrentCommands
  <2> QED
    BY <1>2, <2>1, <2>2, <2>3, MsgrcvCases DEF ParserReceive, CurrentInv
<1> QED
  BY <1>1, <1>2

\* When the last running call returns, the channel is empty.
LEMMA CurrentReturn ==
    ASSUME CurrentInv, NEW c \in Callers, Return(c)
    PROVE  OnlyCurrentCommands'
<1>1. queue' = queue /\ parserPc' = parserPc /\ RxCommand' = RxCommand
  BY DEF Return, kernelVars, parserVars
<1>2. CASE Running = {c}
  <2>1. Outstanding = {}
    BY <1>2 DEF Running, Outstanding, Return
  <2>2. Cardinality(Outstanding) = 0
    BY <2>1, FS_EmptySet
  <2>3. Len(queue) = 0 /\ InParser = 0
    BY <2>2 DEF CurrentInv, IInv, TypeOK, MessagePerCall, InParser
  <2>4. parserPc \notin {"exec", "reply"}
    BY <2>3 DEF InParser
  <2> QED
    BY <1>1, <2>3, <2>4 DEF OnlyCurrentCommands
<1>3. CASE Running # {c}
  BY <1>1, <1>3 DEF Return, CurrentInv, OnlyCurrentCommands
<1> QED
  BY <1>2, <1>3

\* Every step keeps the commands in the channel within the burst.
LEMMA CurrentNext == CurrentInv /\ [Next]_vars => CurrentInv'
<1> SUFFICES ASSUME CurrentInv, [Next]_vars PROVE OnlyCurrentCommands'
  BY NextInv DEF CurrentInv
<1>1. ASSUME NEW c \in Callers, NEW k \in Commands, SetCommand(c, k)
      PROVE  OnlyCurrentCommands'
  BY <1>1 DEF SetCommand, CurrentInv, OnlyCurrentCommands, kernelVars, parserVars
<1>2. CASE ParserExecute
  <2>1. queue' = queue /\ burst' = burst /\ RxCommand' = Answer(RxCommand) /\ parserPc = "exec"
    BY <1>2 DEF ParserExecute, kernelVars, historyVars
  <2>2. RxCommand'.cmd = RxCommand.cmd
    BY <2>1, AnswerType DEF CurrentInv, IInv, TypeOK
  <2> QED
    BY <2>1, <2>2 DEF CurrentInv, OnlyCurrentCommands
<1>3. CASE UNCHANGED vars
  BY <1>3 DEF vars, kernelVars, parserVars, historyVars, CurrentInv, OnlyCurrentCommands
<1> QED
  BY <1>1, <1>2, <1>3, CurrentDispatch, CurrentReply, CurrentReceive, CurrentReturn DEF Next

\* The commands in the queue and in the parser are those of the calls that
\* overlap, throughout.
THEOREM CurrentInvariance == Spec => []CurrentInv
<1>1. Init => CurrentInv
  BY InitInv DEF Init, CurrentInv, OnlyCurrentCommands
<1> QED
  BY <1>1, CurrentNext, PTL DEF Spec

\* No command, and no answer that the parser executes again, outlives the
\* calls that overlapped the one it was sent for.
THEOREM NoCommandOutlivesItsBurst == Spec => []OnlyCurrentCommands
<1>1. CurrentInv => OnlyCurrentCommands
  BY DEF CurrentInv
<1> QED
  BY <1>1, CurrentInvariance, PTL

-----------------------------------------------------------------------------
(* A success that camera_ctl reports is true. *)

\* Message m is of a command of the burst b; it has a length only as an answer or a
\* loopback; and, read as a success, it tells the truth about the flag f unless a
\* contrary command is in b.
Tells(m, b, f) ==
    /\ m.cmd \in b
    /\ m.length >= 1 => m.response \/ m.cmd = "loopback"
    /\ (/\ m.cmd \in {"check_active", "suspend", "active"}
        /\ m.response /\ m.length >= 1
        /\ m.cmd # "check_active" => ~m.payload
        /\ b \cap Contrary(m.cmd) = {})
           => f = CASE m.cmd = "active"  -> TRUE
                    [] m.cmd = "suspend" -> FALSE
                    [] OTHER             -> m.payload

\* Every message in the queue, in the parser's hands and in a caller's hands
\* tells the truth.
AllTell ==
    /\ \A i \in 1..Len(queue) : Tells(queue[i], burst, flagActive)
    /\ parserPc \in {"exec", "reply"} => Tells(RxCommand, burst, flagActive)
    /\ \A c \in Callers : pc[c] = "got" => Tells(msg[c], burst, flagActive)

TruthInv == CurrentInv /\ AllTell

\* A request tells nothing.
LEMMA RequestTells ==
    ASSUME NEW k \in Commands, NEW b, NEW f, k \in b
    PROVE  Tells(Request(k), b, f)
<1>1. Request(k).cmd = k /\ Request(k).response = (k = "active")
  BY DEF Request
<1>2. k # "loopback" => Request(k).length = 0
  BY DEF Request
<1>3. CASE k = "loopback"
  <2>1. Request(k).cmd = "loopback"
    BY <1>1, <1>3
  <2> QED
    BY <1>1, <1>3, <2>1 DEF Tells
<1>4. CASE k # "loopback"
  <2>1. ~(Request(k).length >= 1)
    BY <1>2, <1>4
  <2> QED
    BY <1>1, <2>1 DEF Tells
<1> QED
  BY <1>3, <1>4

\* More commands in the burst make a message tell less.
LEMMA TellsLess ==
    ASSUME NEW m, NEW b, NEW f, NEW k, Tells(m, b, f)
    PROVE  Tells(m, b \cup {k}, f)
<1>1. (b \cup {k}) \cap Contrary(m.cmd) = {} => b \cap Contrary(m.cmd) = {}
  OBVIOUS
<1> QED
  BY <1>1 DEF Tells

\* Executing a command of the burst leaves every other message truthful.
LEMMA ExecuteTells ==
    ASSUME NEW m \in Message, CurrentInv, ParserExecute, Tells(m, burst, flagActive)
    PROVE  Tells(m, burst, flagActive')
<1>1. RxCommand.cmd \in burst
  BY DEF ParserExecute, CurrentInv, OnlyCurrentCommands
<1>2. CASE RxCommand.cmd \notin {"active", "suspend"}
  <2>1. flagActive' = flagActive
    BY <1>2 DEF ParserExecute
  <2> QED
    BY <2>1
<1>3. CASE RxCommand.cmd = "active"
  <2>1. flagActive' = TRUE
    BY <1>3 DEF ParserExecute
  <2>2. m.cmd \in {"check_active", "suspend"} => burst \cap Contrary(m.cmd) # {}
    BY <1>1, <1>3 DEF Contrary
  <2> QED
    BY <2>1, <2>2 DEF Tells
<1>4. CASE RxCommand.cmd = "suspend"
  <2>1. flagActive' = FALSE
    BY <1>4 DEF ParserExecute
  <2>2. m.cmd \in {"check_active", "active"} => burst \cap Contrary(m.cmd) # {}
    BY <1>1, <1>4 DEF Contrary
  <2> QED
    BY <2>1, <2>2 DEF Tells
<1> QED
  BY <1>2, <1>3, <1>4

\* The answer the parser writes is true when it is written.
LEMMA AnswerTells ==
    ASSUME CurrentInv, ParserExecute
    PROVE  Tells(RxCommand', burst, flagActive')
<1>1. RxCommand' = Answer(RxCommand) /\ RxCommand \in Message
  BY DEF ParserExecute, CurrentInv, IInv, TypeOK
<1>2. RxCommand'.cmd = RxCommand.cmd
  BY <1>1, AnswerType DEF CurrentInv, IInv
<1>7. RxCommand'.cmd \in burst /\ RxCommand'.response
  BY <1>1, <1>2 DEF ParserExecute, CurrentInv, OnlyCurrentCommands, Answer, Message
<1>3. CASE RxCommand.cmd = "active"
  BY <1>2, <1>3, <1>7 DEF Tells, ParserExecute
<1>4. CASE RxCommand.cmd = "suspend"
  BY <1>2, <1>4, <1>7 DEF Tells, ParserExecute
<1>5. CASE RxCommand.cmd = "check_active"
  <2>1. flagActive' = flagActive
    BY <1>5 DEF ParserExecute
  <2>2. RxCommand'.payload = flagActive
    BY <1>1, <1>5 DEF Answer, Message
  <2> QED
    BY <1>2, <1>5, <1>7, <2>1, <2>2 DEF Tells
<1>6. CASE RxCommand.cmd \notin {"active", "suspend", "check_active"}
  BY <1>2, <1>6, <1>7 DEF Tells
<1> QED
  BY <1>3, <1>4, <1>5, <1>6

\* A message that is handed over or enqueued tells in its new place what it told.
LEMMA SendTells ==
    ASSUME CurrentInv, NEW m \in Message, NEW callerPc, NEW ppc, Msgsnd(m, callerPc, ppc),
           callerPc \in [Callers -> CallerPcs],
           \A c \in Callers : callerPc[c] = "got" => pc[c] = "got",
           ppc \in {"exec", "reply"} => parserPc \in {"exec", "reply"},
           flagActive' = flagActive, AllTell, Tells(m, burst', flagActive),
           burst' = burst \/ \E k : burst' = burst \cup {k}
    PROVE  AllTell'
<1>1. \A n : Tells(n, burst, flagActive) => Tells(n, burst', flagActive')
  BY TellsLess
<1>2. /\ \A i \in 1..Len(queue) : Tells(queue[i], burst', flagActive')
      /\ parserPc \in {"exec", "reply"} => Tells(RxCommand, burst', flagActive')
      /\ \A c \in Callers : pc[c] = "got" => Tells(msg[c], burst', flagActive')
  BY <1>1 DEF AllTell
<1>3. CASE ToParser(m, callerPc)
  BY <1>2, <1>3 DEF ToParser, AllTell
<1>4. ASSUME NEW t \in Callers, ToCaller(t, m, callerPc, ppc) PROVE AllTell'
  <2>1. \A c \in Callers : pc'[c] = "got" => Tells(msg'[c], burst', flagActive')
    BY <1>2, <1>4 DEF ToCaller, CurrentInv, IInv, TypeOK
  <2> QED
    BY <1>2, <1>4, <2>1 DEF ToCaller, AllTell
<1>5. CASE ToQueue(m, callerPc, ppc)
  <2>1. queue \in Seq(Message) /\ queue' = Append(queue, m)
    BY <1>5 DEF ToQueue, CurrentInv, IInv, TypeOK
  <2>2. \A i \in 1..Len(queue') : Tells(queue'[i], burst', flagActive')
    BY <1>2, <2>1, AppendProperties
  <2> QED
    BY <1>2, <1>5, <2>2 DEF ToQueue, AllTell
<1> QED
  BY <1>3, <1>4, <1>5, MsgsndCases DEF CurrentInv

\* A message that is taken tells in its new place what it told in the queue.
LEMMA TakeTells ==
    ASSUME TruthInv, NEW t \in Callers \cup {Parser}, NEW callerPc, NEW ppc,
           Msgrcv(t, callerPc, ppc), queue = <<>> => Asleep = {},
           callerPc \in [Callers -> CallerPcs],
           \A c \in Callers : callerPc[c] = "got" => pc[c] = "got",
           ppc \in {"exec", "reply"} => parserPc \in {"exec", "reply"},
           UNCHANGED <<flagActive, burst>>
    PROVE  AllTell'
<1>1. CASE TakeOldest(t)
  <2>1. queue \in Seq(Message) /\ queue # <<>> /\ queue' = Tail(queue)
    BY <1>1 DEF TruthInv, CurrentInv, IInv, TypeOK, TakeOldest
  <2>2. Len(queue) \in Nat \ {0} /\ Head(queue) = queue[1]
    BY <2>1, HeadTailProperties
  <2>3. Len(queue') = Len(queue) - 1 /\ \A i \in 1..Len(queue') : queue'[i] = queue[i + 1]
    BY <2>1, HeadTailProperties
  <2>4. Tells(Head(queue), burst, flagActive)
    BY <2>2 DEF TruthInv, AllTell
  <2>5. \A i \in 1..Len(queue') : Tells(queue'[i], burst', flagActive')
    BY <2>2, <2>3 DEF TruthInv, AllTell
  <2>6. CASE t = Parser
    BY <1>1, <2>4, <2>5, <2>6 DEF TakeOldest, Deliver, TruthInv, AllTell
  <2>7. CASE t # Parser
    <3>1. /\ pc' = [pc EXCEPT ![t] = "got"] /\ msg' = [msg EXCEPT ![t] = Head(queue)]
          /\ parserPc' = parserPc /\ RxCommand' = RxCommand
      BY <1>1, <2>7 DEF TakeOldest, Deliver
    <3>2. \A c \in Callers : pc'[c] = "got" => Tells(msg'[c], burst', flagActive')
      BY <2>4, <3>1 DEF TruthInv, AllTell, CurrentInv, IInv, TypeOK
    <3> QED
      BY <2>5, <3>1, <3>2 DEF TruthInv, AllTell
  <2> QED
    BY <2>6, <2>7
<1>2. CASE FallAsleep(t, callerPc, ppc)
  BY <1>2 DEF FallAsleep, TruthInv, AllTell
<1> QED
  BY <1>1, <1>2, MsgrcvCases DEF TruthInv, CurrentInv

\* Every step keeps all messages truthful.
LEMMA TruthNext == TruthInv /\ [Next]_vars => TruthInv'
<1> SUFFICES ASSUME TruthInv, [Next]_vars PROVE AllTell'
  BY CurrentNext DEF TruthInv
<1>0. /\ pc \in [Callers -> CallerPcs] /\ queue \in Seq(Message)
      /\ msg \in [Callers -> Message] /\ RxCommand \in Message
  BY DEF TruthInv, CurrentInv, IInv, TypeOK
<1>1. ASSUME NEW c \in Callers, NEW k \in Commands, SetCommand(c, k) PROVE AllTell'
  BY <1>0, <1>1 DEF SetCommand, TruthInv, AllTell, kernelVars, parserVars, flagVars
<1>2. ASSUME NEW c \in Callers, Dispatch(c) PROVE AllTell'
  <2> DEFINE callerPc == [pc EXCEPT ![c] = "sent"]
  <2>1. CommandNumber \in Commands /\ Request(CommandNumber) \in Message
    BY <1>2, RequestType, CommandType DEF Dispatch, TruthInv, CurrentInv
  <2>2. Tells(Request(CommandNumber), burst', flagActive)
    BY <1>2, <2>1, RequestTells DEF Dispatch
  <2>3. /\ Msgsnd(Request(CommandNumber), callerPc, parserPc)
        /\ burst' = burst \cup {CommandNumber} /\ flagActive' = flagActive
    BY <1>2 DEF Dispatch, flagVars
  <2>4. /\ callerPc \in [Callers -> CallerPcs]
        /\ \A d \in Callers : callerPc[d] = "got" => pc[d] = "got"
    BY <1>0 DEF CallerPcs
  <2> QED
    BY <2>1, <2>2, <2>3, <2>4, SendTells DEF TruthInv
<1>3. ASSUME NEW c \in Callers, Receive(c) PROVE AllTell'
  <2> DEFINE callerPc == [pc EXCEPT ![c] = "asleep"]
  <2>1. Msgrcv(c, callerPc, parserPc) /\ UNCHANGED <<flagActive, burst>> /\ pc[c] = "sent"
    BY <1>3 DEF Receive, flagVars, historyVars
  <2>2. queue = <<>> => Asleep = {}
    BY <2>1, CallerAlone DEF TruthInv, CurrentInv
  <2>3. /\ callerPc \in [Callers -> CallerPcs]
        /\ \A d \in Callers : callerPc[d] = "got" => pc[d] = "got"
    BY <1>0 DEF CallerPcs
  <2> QED
    BY <2>1, <2>2, <2>3, TakeTells
<1>4. ASSUME NEW c \in Callers, Return(c) PROVE AllTell'
  <2>1. /\ queue' = queue /\ parserPc' = parserPc /\ RxCommand' = RxCommand
        /\ flagActive' = flagActive
        /\ \A d \in Callers : pc'[d] = "got" => d # c /\ pc[d] = "got" /\ msg'[d] = msg[d]
    BY <1>0, <1>4 DEF Return, kernelVars, parserVars, flagVars
  <2>2. CASE Running = {c}
    <3>1. Outstanding = {} /\ \A d \in Callers : pc[d] = "got" => d = c
      BY <1>4, <2>2 DEF Running, Outstanding, Return
    <3>2. Cardinality(Outstanding) = 0
      BY <3>1, FS_EmptySet
    <3>3. Len(queue) = 0 /\ InParser = 0
      BY <1>0, <3>2 DEF TruthInv, CurrentInv, IInv, MessagePerCall, InParser
    <3>4. parserPc \notin {"exec", "reply"}
      BY <3>3 DEF InParser
    <3> QED
      BY <2>1, <3>1, <3>3, <3>4 DEF AllTell
  <2>3. CASE Running # {c}
    <3>1. burst' = burst
      BY <1>4, <2>3 DEF Return
    <3> QED
      BY <2>1, <3>1 DEF TruthInv, AllTell
  <2> QED
    BY <2>2, <2>3
<1>5. CASE ParserReceive
  <2>1. Msgrcv(Parser, pc, "asleep") /\ UNCHANGED <<flagActive, burst>> /\ parserPc = "recv"
    BY <1>5 DEF ParserReceive, flagVars, historyVars
  <2>2. queue = <<>> => Asleep = {}
    BY <2>1, ParserAlone DEF TruthInv, CurrentInv
  <2> QED
    BY <1>0, <2>1, <2>2, TakeTells
<1>6. CASE ParserReply
  <2>1. Msgsnd(RxCommand, pc, "recv") /\ UNCHANGED <<flagActive, burst>> /\ parserPc = "reply"
    BY <1>6 DEF ParserReply, flagVars, historyVars
  <2>2. Tells(RxCommand, burst', flagActive)
    BY <2>1 DEF TruthInv, AllTell
  <2> QED
    BY <1>0, <2>1, <2>2, SendTells DEF TruthInv
<1>7. CASE ParserExecute
  <2>1. queue' = queue /\ pc' = pc /\ msg' = msg /\ burst' = burst /\ parserPc = "exec"
    BY <1>7 DEF ParserExecute, callerVars, kernelVars, historyVars
  <2>2. \A i \in 1..Len(queue) : queue[i] \in Message
    BY <1>0, ElementOfSeq
  <2>3. \A i \in 1..Len(queue') : Tells(queue'[i], burst', flagActive')
    BY <1>7, <2>1, <2>2, ExecuteTells DEF TruthInv, AllTell
  <2>4. \A c \in Callers : pc'[c] = "got" => Tells(msg'[c], burst', flagActive')
    BY <1>0, <1>7, <2>1, ExecuteTells DEF TruthInv, AllTell
  <2>5. Tells(RxCommand', burst', flagActive')
    BY <1>7, <2>1, AnswerTells DEF TruthInv
  <2> QED
    BY <2>3, <2>4, <2>5 DEF AllTell
<1>8. CASE UNCHANGED vars
  BY <1>8 DEF vars, callerVars, kernelVars, parserVars, flagVars, historyVars, TruthInv, AllTell
<1> QED
  BY <1>1, <1>2, <1>3, <1>4, <1>5, <1>6, <1>7, <1>8 DEF Next

\* A "Successful" of camera_ctl is true of the camera unless an overlapping call sent
\* a contrary command, for any number of threads, if the line before it reports no
\* error or if the calls that overlap have one command.
THEOREM SuccessCanBeTrusted == Spec => []SuccessIsTrue
<1>1. Init => TruthInv
  BY InitInv DEF Init, TruthInv, CurrentInv, OnlyCurrentCommands, AllTell
<1>2. ASSUME TruthInv, NEW c \in Callers, Successful(c),
             WrongId(c) => burst = {branch[c]}, burst \cap Contrary(branch[c]) = {}
      PROVE  Truthful(c)
  <2>1. Tells(msg[c], burst, flagActive)
    BY <1>2 DEF TruthInv, AllTell, Successful
  <2>2. branch[c] \in {"check_active", "suspend", "active"} /\ msg[c].length >= 1
    BY <1>2 DEF Successful
  <2>3. CASE WrongId(c)
    <3>1. msg[c].cmd = branch[c]
      BY <1>2, <2>1, <2>3 DEF Tells
    <3>2. msg[c].response
      BY <2>1, <2>2, <3>1 DEF Tells
    <3> QED
      BY <2>3, <3>1, <3>2 DEF WrongId
  <2>4. CASE ~WrongId(c)
    <3>1. msg[c].cmd = branch[c] /\ msg[c].response
      BY <2>4 DEF WrongId
    <3> QED
      BY <1>2, <2>1, <2>2, <3>1 DEF Tells, Successful, Truthful
  <2> QED
    BY <2>3, <2>4
<1>3. TruthInv => SuccessIsTrue
  BY <1>2 DEF SuccessIsTrue
<1> QED
  BY <1>1, <1>3, TruthNext, PTL DEF Spec

-----------------------------------------------------------------------------
(* The channel implements CameraPromise. *)

\* Before the first call nothing is promised.
LEMMA RefinementInit == Init => Promise!Init
  BY DEF Init, Promise!Init, status, Running

\* Caller d stays where it is, or moves on inside its running call.
Keeps(d) ==
    \/ pc'[d] = pc[d]
    \/ pc[d] \in {"sent", "asleep"} /\ pc'[d] \in {"asleep", "got"}

\* A step that moves no caller into or out of camera_ctl keeps the statuses.
LEMMA KeepsStatus ==
    ASSUME \A d \in Callers : Keeps(d)
    PROVE  status' = status
  BY DEF Keeps, status, Running

\* Sending a request starts the sender's call and no other.
LEMMA DispatchKeeps ==
    ASSUME IInv, NEW c \in Callers, Dispatch(c)
    PROVE  pc'[c] = "sent" /\ \A d \in Callers \ {c} : Keeps(d)
<1> DEFINE callerPc == [pc EXCEPT ![c] = "sent"]
           m == Request(CommandNumber)
<1>1. pc[c] = "set" /\ pc \in [Callers -> CallerPcs]
  BY DEF Dispatch, IInv, TypeOK
<1>2. CASE pc' = callerPc
  BY <1>1, <1>2 DEF Keeps
<1>3. ASSUME NEW t \in Callers, ToCaller(t, m, callerPc, parserPc)
      PROVE  pc'[c] = "sent" /\ \A d \in Callers \ {c} : Keeps(d)
  <2>1. pc[t] = "asleep" /\ t # c
    BY <1>1, <1>3, ChannelAssumption DEF ToCaller, Asleep, ChannelAssumption
  <2> QED
    BY <1>1, <1>3, <2>1 DEF ToCaller, Keeps
<1> QED
  BY <1>2, <1>3, MsgsndCases DEF Dispatch, ToParser, ToQueue

\* Receiving starts and ends no call.
LEMMA QueueStepKeeps ==
    ASSUME IInv,
           \/ \E c \in Callers : Receive(c)
           \/ ParserReceive
           \/ ParserReply
    PROVE  \A d \in Callers : Keeps(d)
<1>1. pc \in [Callers -> CallerPcs]
  BY DEF IInv, TypeOK
<1>2. ASSUME NEW c \in Callers, Receive(c) PROVE \A d \in Callers : Keeps(d)
  <2>1. pc[c] = "sent" /\ c # Parser /\ (queue = <<>> => Asleep = {})
    BY <1>2, CallerAlone, ChannelAssumption DEF Receive, ChannelAssumption
  <2>2. CASE TakeOldest(c)
    BY <1>1, <2>1, <2>2 DEF TakeOldest, Deliver, Keeps
  <2>3. CASE FallAsleep(c, [pc EXCEPT ![c] = "asleep"], parserPc)
    BY <1>1, <2>1, <2>3 DEF FallAsleep, Keeps
  <2> QED
    BY <1>2, <2>1, <2>2, <2>3, MsgrcvCases DEF Receive
<1>3. CASE ParserReceive
  BY <1>3 DEF ParserReceive, Msgrcv, Deliver, Keeps
<1>4. CASE ParserReply
  <2>1. ASSUME NEW t \in Callers, ToCaller(t, RxCommand, pc, "recv")
        PROVE  \A d \in Callers : Keeps(d)
    <3>1. pc[t] = "asleep"
      BY <2>1, ChannelAssumption DEF ToCaller, Asleep, ChannelAssumption
    <3> QED
      BY <1>1, <2>1, <3>1 DEF ToCaller, Keeps
  <2> QED
    BY <1>4, <2>1, MsgsndCases DEF ParserReply, ToParser, ToQueue, Keeps
<1> QED
  BY <1>2, <1>3, <1>4

\* Each step of the channel is a step of the promise, or none.
LEMMA RefinementNext ==
    CurrentInv /\ [Next]_vars => [Promise!Next]_(Promise!vars)
<1> SUFFICES ASSUME CurrentInv, [Next]_vars
             PROVE  Promise!Next \/ UNCHANGED Promise!vars
  OBVIOUS
<1>0. /\ pc \in [Callers -> CallerPcs] /\ burst \subseteq Commands
      /\ offered \in [Callers -> SUBSET Commands]
  BY DEF CurrentInv, IInv, TypeOK
<1>1. ASSUME NEW c \in Callers, NEW k \in Commands, SetCommand(c, k)
      PROVE  Promise!Call(c, k)
  <2>1. status[c] = "idle" /\ status' = [status EXCEPT ![c] = "called"]
    BY <1>0, <1>1 DEF SetCommand, status, Running
  <2>2. \A d \in Callers : status[d] = "called" <=> pc[d] = "set"
    BY DEF status, Running
  <2> QED
    BY <1>1, <2>1, <2>2 DEF SetCommand, Offer, Promise!Call, flagVars
<1>2. ASSUME NEW c \in Callers, Dispatch(c)
      PROVE  \E k \in Commands : Promise!Start(c, k)
  <2>1. CommandNumber \in offered[c] /\ CommandNumber \in Commands /\ pc[c] = "set"
    BY <1>0, <1>2 DEF Dispatch, CommandSet, CurrentInv, IInv
  <2>2. status[c] = "called" /\ status' = [status EXCEPT ![c] = "running"]
    BY <1>2, <2>1, DispatchKeeps DEF status, Running, Keeps, CurrentInv
  <2> QED
    BY <1>2, <2>1, <2>2 DEF Dispatch, Promise!Start, flagVars
<1>3. ASSUME NEW c \in Callers, Return(c)
      PROVE  Promise!Finish(c)
  <2>1. status[c] = "running" /\ status' = [status EXCEPT ![c] = "idle"]
    BY <1>0, <1>3 DEF Return, status, Running
  <2>2. Running = {c} <=> \A d \in Callers : status'[d] # "running"
    BY <1>0, <1>3, <2>1 DEF Return, status, Running
  <2> QED
    BY <1>3, <2>1, <2>2 DEF Return, Promise!Finish, flagVars
<1>4. CASE ParserReceive \/ ParserReply \/ \E c \in Callers : Receive(c)
  <2>1. status' = status
    BY <1>4, QueueStepKeeps, KeepsStatus DEF CurrentInv
  <2> QED
    BY <1>4, <2>1 DEF ParserReceive, ParserReply, Receive, Promise!vars, flagVars, historyVars
<1>5. CASE ParserExecute
  <2>1. RxCommand.cmd \in burst
    BY <1>5 DEF ParserExecute, CurrentInv, OnlyCurrentCommands
  <2>2. status' = status
    BY <1>5 DEF ParserExecute, callerVars, status, Running
  <2>3. Promise!Apply(RxCommand.cmd)
    BY <1>5, <2>1, <2>2
    DEF ParserExecute, historyVars, Promise!Apply, Promise!ActiveAfter, Promise!AlarmAfter
  <2> QED
    BY <1>0, <2>1, <2>3 DEF Promise!Next
<1>6. CASE UNCHANGED vars
  BY <1>6 DEF vars, callerVars, flagVars, historyVars, status, Running, Promise!vars
<1> QED
  BY <1>1, <1>2, <1>3, <1>4, <1>5, <1>6 DEF Next, Promise!Next

\* camera_ctl, the queue and the parser implement the promise CameraPromise
\* makes to the server's threads, for any number of them.
THEOREM ChannelKeepsPromise == Spec => PromiseSafe
<1> QED
  BY RefinementInit, RefinementNext, CurrentInvariance, PTL
  DEF Spec, PromiseSafe, Promise!Spec
=============================================================================
