---------------------------- MODULE CameraChannel ----------------------------
(***************************************************************************)
(* The command channel between the server process and the SentryMode       *)
(* process: camera_ctl (SentryCamera/TestCamera.c), which every server     *)
(* thread calls, the SysV message queue it uses, and CommandParser_Handler *)
(* (SentryCamera/SentryMode.c), the thread that executes the commands.     *)
(*                                                                         *)
(* Requests and answers travel on ONE queue with ONE message type (59), so *)
(* whoever calls msgrcv next gets the oldest message, be it a request or   *)
(* an answer, its own or another thread's.  The parser masks the response  *)
(* bit (Id & 0x7F): an answer it takes back is executed once more.         *)
(*                                                                         *)
(* Grain of atomicity: a system call is one step, and so is each access to *)
(* the process-wide CommandNumber.  The flags of SentryMode are written in *)
(* one step here (their semaphores and their shared byte are not part of   *)
(* this module).  SentryMode is up during the whole behaviour.             *)
(***************************************************************************)
EXTENDS Naturals, Sequences, FiniteSets

CONSTANTS
    Callers,     \* server threads that call camera_ctl
    Parser,      \* the CommandParser_Handler thread
    Commands,    \* the commands the callers use, a subset of CommandIds
    QueueLimit   \* messages the kernel lets the queue hold

\* ENUM_SENTRY_MODE_COMMAND_ID_T without the response bit.
CommandIds == {"loopback", "check_active", "suspend", "active", "check_alarm",
               "close_alarm", "trigger_alarm", "take_picture", "take_4s", "take_6s"}

ASSUME ChannelAssumption ==
    /\ IsFiniteSet(Callers)
    /\ Parser \notin Callers
    /\ Commands \subseteq CommandIds
    /\ Commands # {}
    /\ QueueLimit \in Nat \ {0}

None == "none"

\* Id is split into the command and the response bit; payload is Payload[0].
Message == [cmd : CommandIds \cup {None}, response : BOOLEAN,
            length : {0, 1, 16}, payload : BOOLEAN]

NoMessage == [cmd |-> None, response |-> FALSE, length |-> 0, payload |-> FALSE]

VARIABLES
    pc,             \* where each caller is inside camera_ctl
    arg,            \* argv[1] of the running call
    branch,         \* the case of switch(CommandNumber) the call went into
    msg,            \* the caller's local msg after msgrcv
    CommandNumber,  \* the global camera_ctl stores argv[1] in
    queue,          \* the kernel's list of messages, oldest first
    sleepers,       \* the kernel's list of threads blocked in msgrcv, oldest first
    parserPc,       \* where CommandParser_Handler is in its loop
    RxCommand,      \* the parser's local packet
    flagActive,     \* Flag.ActiveSentry
    flagAlarm,      \* Flag.Alarm
    burst,          \* history: commands dispatched since no call was running
    offered         \* history: for a call before its switch, the commands that
                    \* have been passed to camera_ctl since it was made

callerVars == <<pc, arg, branch, msg, CommandNumber>>
kernelVars == <<queue, sleepers>>
parserVars == <<parserPc, RxCommand>>
flagVars   == <<flagActive, flagAlarm>>
historyVars == <<burst, offered>>
vars       == <<callerVars, kernelVars, parserVars, flagVars, historyVars>>

CallerPcs == {"idle", "set", "sent", "asleep", "got"}
ParserPcs == {"recv", "asleep", "exec", "reply"}

TypeOK ==
    /\ pc \in [Callers -> CallerPcs]
    /\ arg \in [Callers -> Commands \cup {None}]
    /\ branch \in [Callers -> Commands \cup {None}]
    /\ msg \in [Callers -> Message]
    /\ CommandNumber \in Commands \cup {None}
    /\ queue \in Seq(Message)
    /\ sleepers \in Seq(Callers \cup {Parser})
    /\ parserPc \in ParserPcs
    /\ RxCommand \in Message
    /\ flagActive \in BOOLEAN
    /\ flagAlarm \in BOOLEAN
    /\ burst \subseteq Commands
    /\ offered \in [Callers -> SUBSET Commands]

Init ==
    /\ pc = [c \in Callers |-> "idle"]
    /\ arg = [c \in Callers |-> None]
    /\ branch = [c \in Callers |-> None]
    /\ msg = [c \in Callers |-> NoMessage]
    /\ CommandNumber = None
    /\ queue = <<>>
    /\ sleepers = <<>>
    /\ parserPc = "recv"
    /\ RxCommand = NoMessage
    /\ flagActive = FALSE
    /\ flagAlarm = FALSE
    /\ burst = {}
    /\ offered = [c \in Callers |-> {}]

-----------------------------------------------------------------------------
(* The queue.  Linux hands a message straight to the thread that has slept *)
(* longest in msgrcv, if there is one, and only otherwise enqueues it.     *)
(* callerPc and ppc are the program counters the running thread leaves.    *)

\* Thread t's msgrcv returns m.
Deliver(t, m, callerPc, ppc) ==
    IF t = Parser
    THEN /\ parserPc' = "exec"
         /\ RxCommand' = m
         /\ pc' = callerPc
         /\ UNCHANGED msg
    ELSE /\ pc' = [callerPc EXCEPT ![t] = "got"]
         /\ msg' = [msg EXCEPT ![t] = m]
         /\ parserPc' = ppc
         /\ UNCHANGED RxCommand

\* msgsnd: blocks (is disabled) while the queue is full.
Msgsnd(m, callerPc, ppc) ==
    \/ /\ sleepers # <<>>
       /\ sleepers' = Tail(sleepers)
       /\ Deliver(Head(sleepers), m, callerPc, ppc)
       /\ UNCHANGED queue
    \/ /\ sleepers = <<>>
       /\ Len(queue) < QueueLimit
       /\ queue' = Append(queue, m)
       /\ pc' = callerPc
       /\ parserPc' = ppc
       /\ UNCHANGED <<msg, RxCommand, sleepers>>

\* msgrcv by t of type SENTRY_MODE_COMMAND_MESSAGE_TYPE, the type of all messages.
Msgrcv(t, callerPc, ppc) ==
    \/ /\ queue # <<>>
       /\ queue' = Tail(queue)
       /\ Deliver(t, Head(queue), pc, parserPc)
       /\ UNCHANGED sleepers
    \/ /\ queue = <<>>
       /\ sleepers' = Append(sleepers, t)
       /\ pc' = callerPc
       /\ parserPc' = ppc
       /\ UNCHANGED <<msg, RxCommand, queue>>

\* Callers between their msgsnd and the return of their msgrcv.
Outstanding == {c \in Callers : pc[c] \in {"sent", "asleep"}}

\* Callers between their msgsnd and their return.
Running == {c \in Callers : pc[c] \in {"sent", "asleep", "got"}}

-----------------------------------------------------------------------------
(* camera_ctl, called by thread c. *)

\* History: caller c passes command k, under the calls that are before their switch.
Offer(c, k) ==
    [d \in Callers |-> IF d = c THEN {k}
                       ELSE IF pc[d] = "set" THEN offered[d] \cup {k} ELSE offered[d]]

\* Variant: the command is stored in the first call only.
SetCommandKeeps(c, k) ==
    /\ pc[c] = "idle"
    /\ pc' = [pc EXCEPT ![c] = "set"]
    /\ arg' = [arg EXCEPT ![c] = k]
    /\ CommandNumber' = IF CommandNumber = None THEN k ELSE CommandNumber
    /\ offered' = Offer(c, k)
    /\ UNCHANGED <<branch, msg, kernelVars, parserVars, flagVars, burst>>

\* camera_ctl(2, {"user", k}): CommandNumber = atoi(argv[1]).
SetCommand(c, k) ==
    /\ pc[c] = "idle"
    /\ pc' = [pc EXCEPT ![c] = "set"]
    /\ arg' = [arg EXCEPT ![c] = k]
    /\ CommandNumber' = k
    /\ offered' = Offer(c, k)
    /\ UNCHANGED <<branch, msg, kernelVars, parserVars, flagVars, burst>>

\* The packet each case of the switch builds.  Case 11 puts the RESPONSE id of
\* the active command in its request; a loopback carries 16 bytes.
Request(k) ==
    [cmd |-> k, response |-> k = "active",
     length |-> IF k = "loopback" THEN 16 ELSE 0, payload |-> FALSE]

\* Variant: an alarm is sent and camera_ctl does not wait for its answer.
DispatchForgets(c) ==
    /\ pc[c] = "set"
    /\ branch' = [branch EXCEPT ![c] = CommandNumber]
    /\ Msgsnd(Request(CommandNumber),
              [pc EXCEPT ![c] = IF CommandNumber = "trigger_alarm" THEN "got" ELSE "sent"],
              parserPc)
    /\ burst' = burst \cup {CommandNumber}
    /\ offered' = [offered EXCEPT ![c] = {}]
    /\ UNCHANGED <<arg, CommandNumber, flagVars>>

\* switch(CommandNumber) reads the global again, then msgsnd.
Dispatch(c) ==
    /\ pc[c] = "set"
    /\ branch' = [branch EXCEPT ![c] = CommandNumber]
    /\ Msgsnd(Request(CommandNumber), [pc EXCEPT ![c] = "sent"], parserPc)
    /\ burst' = burst \cup {CommandNumber}
    /\ offered' = [offered EXCEPT ![c] = {}]
    /\ UNCHANGED <<arg, CommandNumber, flagVars>>

\* Variant: msgrcv with IPC_NOWAIT; without an answer camera_ctl returns.
ReceiveNoWait(c) ==
    /\ pc[c] = "sent"
    /\ \/ /\ queue # <<>>
          /\ Msgrcv(c, pc, parserPc)
       \/ /\ queue = <<>>
          /\ pc' = [pc EXCEPT ![c] = "got"]
          /\ UNCHANGED <<msg, kernelVars, parserVars>>
    /\ UNCHANGED <<arg, branch, CommandNumber, flagVars, historyVars>>

\* msgrcv of the answer: the oldest message whatever it is, or sleep.
Receive(c) ==
    /\ pc[c] = "sent"
    /\ Msgrcv(c, [pc EXCEPT ![c] = "asleep"], parserPc)
    /\ UNCHANGED <<arg, branch, CommandNumber, flagVars, historyVars>>

\* Variant: camera_ctl waits until what it has received is its answer.
ReturnInsists(c) ==
    /\ pc[c] = "got"
    /\ IF msg[c].response /\ msg[c].cmd = branch[c]
       THEN /\ pc' = [pc EXCEPT ![c] = "idle"]
            /\ arg' = [arg EXCEPT ![c] = None]
            /\ branch' = [branch EXCEPT ![c] = None]
            /\ msg' = [msg EXCEPT ![c] = NoMessage]
            /\ burst' = IF Running = {c} THEN {} ELSE burst
       ELSE UNCHANGED <<pc, arg, branch, msg, burst>>
    /\ UNCHANGED <<CommandNumber, kernelVars, parserVars, flagVars, offered>>

\* The checks of the answer only print; camera_ctl returns 0 in every case.
Return(c) ==
    /\ pc[c] = "got"
    /\ pc' = [pc EXCEPT ![c] = "idle"]
    /\ arg' = [arg EXCEPT ![c] = None]
    /\ branch' = [branch EXCEPT ![c] = None]
    /\ msg' = [msg EXCEPT ![c] = NoMessage]
    /\ burst' = IF Running = {c} THEN {} ELSE burst
    /\ UNCHANGED <<CommandNumber, kernelVars, parserVars, flagVars, offered>>

-----------------------------------------------------------------------------
(* CommandParser_Handler. *)

ParserReceive ==
    /\ parserPc = "recv"
    /\ Msgrcv(Parser, pc, "asleep")
    /\ UNCHANGED <<arg, branch, CommandNumber, flagVars, historyVars>>

\* Variant: the answer adds its byte to the length it finds.
AnswerGrows(m) == [m EXCEPT !.response = TRUE, !.length = @ + 1, !.payload = FALSE]

\* Variant: each of the two questions is answered with the other's flag.
AnswerSwapped(m) ==
    [m EXCEPT !.response = TRUE,
              !.length   = IF m.cmd = "loopback" THEN @ ELSE 1,
              !.payload  = CASE m.cmd = "check_active" -> flagAlarm
                             [] m.cmd = "check_alarm"  -> flagActive
                             [] OTHER                  -> FALSE]

\* The answer each case writes over the packet it received.
Answer(m) ==
    [m EXCEPT !.response = TRUE,
              !.length   = IF m.cmd = "loopback" THEN @ ELSE 1,
              !.payload  = CASE m.cmd = "check_active" -> flagActive
                             [] m.cmd = "check_alarm"  -> flagAlarm
                             [] m.cmd = "loopback"     -> @
                             [] OTHER                  -> FALSE]

\* Variant: an answer the parser has taken back is dropped.
ExecuteDropsAnswers ==
    /\ parserPc = "exec"
    /\ parserPc' = IF RxCommand.response THEN "recv" ELSE "reply"
    /\ RxCommand' = Answer(RxCommand)
    /\ UNCHANGED <<callerVars, kernelVars, flagVars, historyVars>>

\* The switch on Id & 0x7F: a request and an answer run the same case.
ParserExecute ==
    /\ parserPc = "exec"
    /\ parserPc' = "reply"
    /\ flagActive' = CASE RxCommand.cmd = "active"  -> TRUE
                       [] RxCommand.cmd = "suspend" -> FALSE
                       [] OTHER                     -> flagActive
    /\ flagAlarm' = CASE RxCommand.cmd = "trigger_alarm" -> TRUE
                      [] RxCommand.cmd = "close_alarm"   -> FALSE
                      [] OTHER                           -> flagAlarm
    /\ RxCommand' = Answer(RxCommand)
    /\ UNCHANGED <<callerVars, kernelVars, historyVars>>

\* Variant: the loop goes on without an answer.
ReplyForgotten ==
    /\ parserPc = "reply"
    /\ parserPc' = "recv"
    /\ UNCHANGED <<callerVars, kernelVars, RxCommand, flagVars, historyVars>>

ParserReply ==
    /\ parserPc = "reply"
    /\ Msgsnd(RxCommand, pc, "recv")
    /\ UNCHANGED <<arg, branch, CommandNumber, flagVars, historyVars>>

-----------------------------------------------------------------------------
CallerStep(c) == Dispatch(c) \/ Receive(c) \/ Return(c)

Next ==
    \/ \E c \in Callers, k \in Commands : SetCommand(c, k)
    \/ \E c \in Callers : Dispatch(c) \/ Receive(c) \/ Return(c)
    \/ ParserReceive
    \/ ParserExecute
    \/ ParserReply

\* A thread that can run is eventually scheduled, and a blocked msgsnd is
\* retried by the kernel in arrival order; nobody has to call camera_ctl.
Fairness ==
    /\ \A c \in Callers : WF_vars(CallerStep(c))
    /\ WF_vars(ParserReceive)
    /\ WF_vars(ParserExecute)
    /\ WF_vars(ParserReply)

Spec == Init /\ [][Next]_vars

FairSpec == Spec /\ Fairness

-----------------------------------------------------------------------------
(* Properties. *)

\* What the parser has taken and not yet answered.
InParser == IF parserPc \in {"exec", "reply"} THEN 1 ELSE 0

\* Every outstanding camera_ctl call is matched by exactly one message, in the
\* queue or in the parser's hands: no answer is lost, none is left over, and no
\* thread sleeps in msgrcv for a message that will not come.
MessagePerCall == Cardinality(Outstanding) = Len(queue) + InParser

\* Threads blocked in msgrcv.
Asleep == {c \in Callers : pc[c] = "asleep"}
             \cup (IF parserPc = "asleep" THEN {Parser} ELSE {})

\* No wake-up is lost and none is misdirected: although every caller and the
\* parser wait on the same queue, at most one of them ever sleeps, it does so
\* only while the queue is empty, and the kernel's list names exactly it.
OneSleeper ==
    \/ Asleep = {} /\ sleepers = <<>>
    \/ \E t \in Callers \cup {Parser} :
            Asleep = {t} /\ sleepers = <<t>> /\ queue = <<>>

\* The parser works, the first time or again, only on commands dispatched since
\* no call was running: no command survives into a later call.
OnlyCurrentCommands ==
    /\ \A i \in 1..Len(queue) : queue[i].cmd \in burst
    /\ parserPc \in {"exec", "reply"} => RxCommand.cmd \in burst

\* SentryMode's flags do not move while no camera_ctl call is outstanding: once
\* every call has returned, the effect of all of them is complete.
FlagsStableAtRest ==
    [][Outstanding = {} => UNCHANGED <<flagActive, flagAlarm>>]_vars

\* A parser that waits with its answer for room in the queue, which it alone
\* cannot empty then, is never alone: some caller is at its msgrcv and takes a
\* message, so that the full queue brings parser and callers to no standstill.
FullQueueDrains ==
    parserPc = "reply" /\ Len(queue) = QueueLimit =>
        \E c \in Callers : pc[c] = "sent"

\* Cases 9 to 11 print "Successful" (or "Is Active: ..."): Length is at least 1
\* and, in 10 and 11, Payload[0] is 0.
Successful(c) ==
    /\ pc[c] = "got"
    /\ branch[c] \in {"check_active", "suspend", "active"}
    /\ msg[c].length >= 1
    /\ branch[c] # "check_active" => ~msg[c].payload

\* The line before may have been "Receive Error response ID".
WrongId(c) == ~(msg[c].cmd = branch[c] /\ msg[c].response)

\* The commands that can change what a call with command k reports.
Contrary(k) == CASE k = "active"  -> {"suspend"}
                 [] k = "suspend" -> {"active"}
                 [] OTHER         -> {"active", "suspend"}

\* The camera is in the state the command of c's call asked for, or reported.
Truthful(c) ==
    flagActive = CASE branch[c] = "active"  -> TRUE
                   [] branch[c] = "suspend" -> FALSE
                   [] OTHER                 -> msg[c].payload

\* A "Successful" that the line before it does not take back, or that is printed
\* while no call with another command overlaps, is true unless a contrary command
\* was dispatched by an overlapping call: neither a request taken back nor a
\* command executed twice makes it false.
SuccessIsTrue ==
    \A c \in Callers :
        /\ Successful(c)
        /\ WrongId(c) => burst = {branch[c]}
        /\ burst \cap Contrary(branch[c]) = {}
        => Truthful(c)

\* What "Successful" at TestCamera.c:296 and 348 says by itself: the command was
\* executed, and holds unless an overlapping call has sent a contrary one.
SuccessAsPrinted ==
    \A c \in Callers :
        Successful(c) /\ burst \cap Contrary(branch[c]) = {} => Truthful(c)

-----------------------------------------------------------------------------
(* The channel implements CameraPromise: a call runs from its msgsnd until *)
(* camera_ctl returns.                                                     *)
status == [c \in Callers |-> CASE c \in Running -> "running"
                              [] pc[c] = "set" -> "called"
                              [] OTHER         -> "idle"]

Promise == INSTANCE CameraPromise WITH pending <- burst

\* camera_ctl, the queue and the parser together keep the promise.
PromiseSafe == Promise!Spec

\* ... and with fair threads and a queue with room for a message of every
\* caller, every call starts and ends.
PromiseKept == Promise!FairSpec
=============================================================================
