----------------------------- MODULE AlarmSystem -----------------------------
(***************************************************************************)
(* The server and the camera together: SecurityPanel with its calls of     *)
(* camera_ctl carried out by CameraChannel.  The callers are the client    *)
(* threads and Btn_Handler; a panel step that waits for camera_ctl to      *)
(* return happens when the call does return.                               *)
(***************************************************************************)
EXTENDS SecurityPanel, Sequences

CONSTANTS
    Button,     \* the thread Btn_Handler, as a caller of camera_ctl
    Parser,     \* SentryMode's CommandParser_Handler
    QueueLimit  \* messages the kernel lets the queue hold

ASSUME SystemAssumption ==
    /\ IsFiniteSet(Operators)
    /\ Button \notin Operators
    /\ Parser \notin Operators \cup {Button}
    /\ QueueLimit \in Nat \ {0}

VARIABLES
    pc, arg, branch, msg, CommandNumber, queue, sleepers, parserPc, RxCommand,
    flagActive, flagAlarm, burst, offered,  \* as in CameraChannel
    mixed   \* history: some call has sent another call's command or has
            \* returned with a message that does not answer its own

Callers == Operators \cup {Button}

\* Variant: unlock calls camera_ctl 9 instead of 10.
CameraCommandOffByOne ==
    [lock |-> "active", unlock |-> "check_active", clearalarm |-> "close_alarm"]

\* camera_ctl 11, 10, 17 and 18.
CameraCommand == [lock |-> "active", unlock |-> "suspend", clearalarm |-> "close_alarm"]
ButtonCommand == "trigger_alarm"
Commands == {CameraCommand[k] : k \in PanelCommands} \cup {ButtonCommand}

Channel == INSTANCE CameraChannel

panelVars   == vars
channelVars == <<pc, arg, branch, msg, CommandNumber, queue, sleepers, parserPc,
                 RxCommand, flagActive, flagAlarm, burst, offered>>
systemVars  == <<panelVars, channelVars, mixed>>

SystemInit == Init /\ Channel!Init /\ mixed = FALSE

-----------------------------------------------------------------------------
\* The steps of the server between its calls of camera_ctl.
ServerStep ==
    /\ \/ \E o \in Operators :
             \/ Lock(o) \/ Unlock(o) \/ ClearAlarm(o)
             \/ RightPasscode(o) \/ WrongPasscode(o)
             \/ WriteLed(o) \/ StopBuzzer(o) \/ WriteSecurity(o) \/ ResetAlarm(o)
       \/ BtnRead \/ BtnTestSecurity \/ BtnTestAlarm \/ BtnRaise \/ BtnBuzzer
       \/ MoveDoor
    /\ UNCHANGED <<channelVars, mixed>>

\* A thread that has come to its call of camera_ctl makes it.
CallCamera(o) ==
    /\ step[o] = "camera"
    /\ Channel!SetCommand(o, CameraCommand[cmd[o]])
    /\ UNCHANGED <<panelVars, mixed>>

BtnCallCamera ==
    /\ btnPc = "camera"
    /\ Channel!SetCommand(Button, ButtonCommand)
    /\ UNCHANGED <<panelVars, mixed>>

SendRequest(c) ==
    /\ Channel!Dispatch(c)
    /\ mixed' = (mixed \/ CommandNumber # arg[c])
    /\ UNCHANGED panelVars

\* Variant: the client thread gives its command up after a foreign answer.
LeaveCameraChecked(c) ==
    /\ Channel!Return(c)
    /\ mixed' = mixed
    /\ IF c = Button \/ msg[c].cmd = arg[c]
       THEN IF c = Button THEN BtnCameraReturns ELSE CameraReturns(c)
       ELSE /\ step' = [step EXCEPT ![c] = "idle"]
            /\ cmd' = [cmd EXCEPT ![c] = "none"]
            /\ UNCHANGED <<btnPc, dbVars, deviceVars, envVars, overlapped>>

\* Variant: the server waits until what camera_ctl has received is its answer.
LeaveCameraInsists(c) ==
    IF msg[c].cmd = arg[c]
    THEN /\ Channel!Return(c)
         /\ IF c = Button THEN BtnCameraReturns ELSE CameraReturns(c)
         /\ UNCHANGED mixed
    ELSE UNCHANGED systemVars

\* camera_ctl returns 0 whatever it has received, and the server goes on.
LeaveCamera(c) ==
    /\ Channel!Return(c)
    /\ mixed' = (mixed \/ msg[c].cmd # arg[c] \/ msg[c].length = 0)
    /\ IF c = Button THEN BtnCameraReturns ELSE CameraReturns(c)

CameraStep ==
    /\ \/ \E c \in Callers : Channel!Receive(c)
       \/ Channel!ParserReceive \/ Channel!ParserExecute \/ Channel!ParserReply
    /\ UNCHANGED <<panelVars, mixed>>

SystemNext ==
    \/ ServerStep
    \/ \E o \in Operators : CallCamera(o)
    \/ BtnCallCamera
    \/ \E c \in Callers : SendRequest(c) \/ LeaveCamera(c)
    \/ CameraStep

SystemSpec == SystemInit /\ [][SystemNext]_systemVars

-----------------------------------------------------------------------------
(* Fairness: every thread that can run does, operators and door excepted. *)

OperatorThread(o) ==
    \/ CallCamera(o)
    \/ SendRequest(o)
    \/ LeaveCamera(o)
    \/ /\ WriteLed(o) \/ StopBuzzer(o) \/ WriteSecurity(o) \/ ResetAlarm(o)
       /\ UNCHANGED <<channelVars, mixed>>
    \/ /\ Channel!Receive(o)
       /\ UNCHANGED <<panelVars, mixed>>

ButtonThread ==
    \/ BtnCallCamera
    \/ SendRequest(Button)
    \/ LeaveCamera(Button)
    \/ /\ BtnRead \/ BtnTestSecurity \/ BtnTestAlarm \/ BtnRaise \/ BtnBuzzer
       /\ UNCHANGED <<channelVars, mixed>>
    \/ /\ Channel!Receive(Button)
       /\ UNCHANGED <<panelVars, mixed>>

ParserThread ==
    /\ Channel!ParserReceive \/ Channel!ParserExecute \/ Channel!ParserReply
    /\ UNCHANGED <<panelVars, mixed>>

SystemFairness ==
    /\ \A o \in Operators : WF_systemVars(OperatorThread(o))
    /\ WF_systemVars(ButtonThread)
    /\ WF_systemVars(ParserThread)

FairSystem == SystemSpec /\ SystemFairness

-----------------------------------------------------------------------------
(* Properties. *)

\* The fairness of SecurityPanel is no assumption: every call of camera_ctl does
\* return, so each command is carried through and Btn_Handler goes on watching.
PanelImplemented == FairSpec

\* With one client, the camera watches just while the system is locked: when
\* the client is idle SentryMode is active if and only if security is 1, as
\* long as the calls of the client and of Btn_Handler have not been mixed up.
CameraFollowsLock ==
    ~mixed /\ Cardinality(Operators) = 1 =>
        \A o \in Operators : step[o] = "idle" => (flagActive <=> security = 1)

\* Btn_Handler between raising the alarm and the return of its camera_ctl.
Raising == btnPc \in {"buzzer", "camera"}

\* Some client thread is in a clearalarm.
Clearing == \E o \in Operators : step[o] # "idle" /\ cmd[o] = "clearalarm"

\* An alarm that is on and that nobody is clearing has reached the camera: what
\* overlapping clearalarms, answers executed again and calls in between have done
\* to SentryMode's flag is undone or has taken the alarm with it, as long as no
\* calls have been mixed up.
AlarmReachesCamera == ~mixed /\ alarm = 1 /\ ~Raising /\ ~Clearing => flagAlarm
=============================================================================
