---------------------------- MODULE SecurityPanel ----------------------------
(***************************************************************************)
(* The security state of server.c: the global securityDB, the client       *)
(* threads that lock, unlock and clear the alarm (user_cmd_handle,         *)
(* unlock_handler), the thread Btn_Handler that polls the door contact and *)
(* raises the alarm, and the LED and the buzzer that etx_write of driver.c *)
(* switches.                                                               *)
(*                                                                         *)
(* No lock protects any of this (server_db_mutex is never taken around     *)
(* it), so every access to a field of securityDB and every system call is  *)
(* a step of its own.  camera_ctl is a call that blocks and returns here;  *)
(* AlarmSystem composes this module with CameraChannel.                    *)
(***************************************************************************)
EXTENDS Naturals, FiniteSets

CONSTANTS
    Operators,  \* client threads in user_cmd_handle
    Priv        \* user_priv of the account each is logged in with

Bit == {0, 1}

\* The commands that change securityDB, and their priv in pjcmd.
PanelCommands == {"lock", "unlock", "clearalarm"}
CommandPriv == [lock |-> 3, unlock |-> 2, clearalarm |-> 1]

ASSUME PanelAssumption == Priv \in [Operators -> 1..3]

VARIABLES
    step,              \* where each client thread is in the handler of cmd
    cmd,               \* the command each client thread handles
    btnPc,             \* where Btn_Handler is in its loop
    security,          \* securityDB.security
    door,              \* securityDB.door
    alarm,             \* securityDB.alarm
    led,               \* GPIO 5, the 7-segment digit: 1 locked, 0 unlocked
    buzzer,            \* GPIO 6
    button,            \* GPIO 16, the door contact
    resultTerminated,  \* result[5] of Btn_Handler, which nobody writes, is 0
    overlapped         \* history: the last LED write fell between the LED write
                       \* and the security write of another thread

operatorVars == <<step, cmd>>
dbVars       == <<security, door, alarm>>
deviceVars   == <<led, buzzer>>
envVars      == <<button, resultTerminated>>
vars         == <<operatorVars, btnPc, dbVars, deviceVars, envVars, overlapped>>

Steps  == {"idle", "passcode", "camera", "device", "db"}
BtnPcs == {"read", "security", "alarm", "raise", "buzzer", "camera"}

TypeOK ==
    /\ step \in [Operators -> Steps]
    /\ cmd \in [Operators -> PanelCommands \cup {"none"}]
    /\ \A o \in Operators : step[o] # "idle" => cmd[o] \in PanelCommands
    /\ btnPc \in BtnPcs
    /\ security \in Bit /\ door \in Bit /\ alarm \in Bit
    /\ led \in Bit /\ buzzer \in Bit /\ button \in Bit
    /\ resultTerminated \in BOOLEAN /\ overlapped \in BOOLEAN

\* main clears security and door; alarm is a zero-initialised global, and
\* eos7_driver_init drives both outputs low.
Init ==
    /\ step = [o \in Operators |-> "idle"]
    /\ cmd = [o \in Operators |-> "none"]
    /\ btnPc = "read"
    /\ security = 0 /\ door = 0 /\ alarm = 0
    /\ led = 0 /\ buzzer = 0
    /\ button \in Bit
    /\ resultTerminated \in BOOLEAN
    /\ overlapped = FALSE

-----------------------------------------------------------------------------
(* A client thread, in user_cmd_handle and unlock_handler. *)

\* recv, cmd_str_parse, priv_check: thread o starts on command k at step s.
Accept(o, k, s) ==
    /\ step[o] = "idle"
    /\ CommandPriv[k] >= Priv[o]
    /\ step' = [step EXCEPT ![o] = s]
    /\ cmd' = [cmd EXCEPT ![o] = k]

Lock(o) ==
    /\ Accept(o, "lock", "camera")
    /\ UNCHANGED <<btnPc, dbVars, deviceVars, envVars, overlapped>>

\* With the alarm on the client is told to clear it and nothing changes.
Unlock(o) ==
    /\ alarm = 0
    /\ Accept(o, "unlock", "passcode")
    /\ UNCHANGED <<btnPc, dbVars, deviceVars, envVars, overlapped>>

ClearAlarm(o) ==
    /\ Accept(o, "clearalarm", "camera")
    /\ UNCHANGED <<btnPc, dbVars, deviceVars, envVars, overlapped>>

\* The operator answers the prompt with the passcode shown on the LCD ...
RightPasscode(o) ==
    /\ step[o] = "passcode"
    /\ step' = [step EXCEPT ![o] = "camera"]
    /\ UNCHANGED <<cmd, btnPc, dbVars, deviceVars, envVars, overlapped>>

\* ... or with something else, or disconnects.
WrongPasscode(o) ==
    /\ step[o] = "passcode"
    /\ step' = [step EXCEPT ![o] = "idle"]
    /\ cmd' = [cmd EXCEPT ![o] = "none"]
    /\ UNCHANGED <<btnPc, dbVars, deviceVars, envVars, overlapped>>

\* camera_ctl (11, 10 or 17) returns; its result is ignored.
CameraReturns(o) ==
    /\ step[o] = "camera"
    /\ step' = [step EXCEPT ![o] = "device"]
    /\ UNCHANGED <<cmd, btnPc, dbVars, deviceVars, envVars, overlapped>>

\* Threads between write_a_digit_to_7segLED and the write of security.
LedWritten == {o \in Operators : step[o] = "db" /\ cmd[o] \in {"lock", "unlock"}}

\* Variant: unlock does not write the LED.
WriteLedOnLock(o) ==
    /\ step[o] = "device"
    /\ cmd[o] \in {"lock", "unlock"}
    /\ led' = IF cmd[o] = "lock" THEN 1 ELSE led
    /\ overlapped' = (LedWritten # {})
    /\ step' = [step EXCEPT ![o] = "db"]
    /\ UNCHANGED <<cmd, btnPc, dbVars, buzzer, envVars>>

\* write_a_digit_to_7segLED: seg_1 for lock, seg_0 for unlock.
WriteLed(o) ==
    /\ step[o] = "device"
    /\ cmd[o] \in {"lock", "unlock"}
    /\ led' = IF cmd[o] = "lock" THEN 1 ELSE 0
    /\ overlapped' = (LedWritten # {})
    /\ step' = [step EXCEPT ![o] = "db"]
    /\ UNCHANGED <<cmd, btnPc, dbVars, buzzer, envVars>>

\* clearalarm writes buz_0.
StopBuzzer(o) ==
    /\ step[o] = "device"
    /\ cmd[o] = "clearalarm"
    /\ buzzer' = 0
    /\ step' = [step EXCEPT ![o] = "db"]
    /\ UNCHANGED <<cmd, btnPc, dbVars, led, envVars, overlapped>>

\* securityDB.security = 1 or 0; the answer; back to recv.
WriteSecurity(o) ==
    /\ o \in LedWritten
    /\ security' = IF cmd[o] = "lock" THEN 1 ELSE 0
    /\ step' = [step EXCEPT ![o] = "idle"]
    /\ cmd' = [cmd EXCEPT ![o] = "none"]
    /\ UNCHANGED <<btnPc, door, alarm, deviceVars, envVars, overlapped>>

\* Variant: clearalarm stops the buzzer and leaves the alarm on.
ResetForgotten(o) ==
    /\ step[o] = "db"
    /\ cmd[o] = "clearalarm"
    /\ step' = [step EXCEPT ![o] = "idle"]
    /\ cmd' = [cmd EXCEPT ![o] = "none"]
    /\ UNCHANGED <<btnPc, dbVars, deviceVars, envVars, overlapped>>

\* Variant: alarm counts.
ResetCounts(o) ==
    /\ step[o] = "db"
    /\ cmd[o] = "clearalarm"
    /\ alarm' = alarm - 1
    /\ step' = [step EXCEPT ![o] = "idle"]
    /\ cmd' = [cmd EXCEPT ![o] = "none"]
    /\ UNCHANGED <<btnPc, security, door, deviceVars, envVars, overlapped>>

\* securityDB.alarm = 0; the answer; back to recv.
ResetAlarm(o) ==
    /\ step[o] = "db"
    /\ cmd[o] = "clearalarm"
    /\ alarm' = 0
    /\ step' = [step EXCEPT ![o] = "idle"]
    /\ cmd' = [cmd EXCEPT ![o] = "none"]
    /\ UNCHANGED <<btnPc, security, door, deviceVars, envVars, overlapped>>

-----------------------------------------------------------------------------
(* Btn_Handler. *)

\* Variant: HighLevelString and LowLevelString are exchanged.
BtnReadInverted ==
    /\ btnPc = "read"
    /\ door' = IF resultTerminated THEN 1 - button ELSE door
    /\ btnPc' = "security"
    /\ UNCHANGED <<operatorVars, security, alarm, deviceVars, envVars, overlapped>>

\* read returns "btn_0" or "btn_1" without a terminating zero: unless the byte
\* after it happens to be one, strcmp matches neither and door keeps its value.
BtnRead ==
    /\ btnPc = "read"
    /\ door' = IF resultTerminated THEN button ELSE door
    /\ btnPc' = "security"
    /\ UNCHANGED <<operatorVars, security, alarm, deviceVars, envVars, overlapped>>

BtnTestSecurity ==
    /\ btnPc = "security"
    /\ btnPc' = IF security # 0 /\ door # 0 THEN "alarm" ELSE "read"
    /\ UNCHANGED <<operatorVars, dbVars, deviceVars, envVars, overlapped>>

BtnTestAlarm ==
    /\ btnPc = "alarm"
    /\ btnPc' = IF alarm = 0 THEN "raise" ELSE "read"
    /\ UNCHANGED <<operatorVars, dbVars, deviceVars, envVars, overlapped>>

BtnRaise ==
    /\ btnPc = "raise"
    /\ alarm' = 1
    /\ btnPc' = "buzzer"
    /\ UNCHANGED <<operatorVars, security, door, deviceVars, envVars, overlapped>>

\* buz_1, then camera_ctl 18.
BtnBuzzer ==
    /\ btnPc = "buzzer"
    /\ buzzer' = 1
    /\ btnPc' = "camera"
    /\ UNCHANGED <<operatorVars, dbVars, led, envVars, overlapped>>

BtnCameraReturns ==
    /\ btnPc = "camera"
    /\ btnPc' = "read"
    /\ UNCHANGED <<operatorVars, dbVars, deviceVars, envVars, overlapped>>

-----------------------------------------------------------------------------
\* Somebody opens or closes the door.
MoveDoor ==
    /\ button' = 1 - button
    /\ UNCHANGED <<operatorVars, btnPc, dbVars, deviceVars, resultTerminated, overlapped>>

\* What a thread does without waiting for its operator.
Work(o) ==
    CameraReturns(o) \/ WriteLed(o) \/ StopBuzzer(o) \/ WriteSecurity(o) \/ ResetAlarm(o)

BtnStep ==
    BtnRead \/ BtnTestSecurity \/ BtnTestAlarm \/ BtnRaise \/ BtnBuzzer \/ BtnCameraReturns

Next ==
    \/ \E o \in Operators :
          \/ Lock(o) \/ Unlock(o) \/ ClearAlarm(o)
          \/ RightPasscode(o) \/ WrongPasscode(o)
          \/ CameraReturns(o) \/ WriteLed(o) \/ StopBuzzer(o)
          \/ WriteSecurity(o) \/ ResetAlarm(o)
    \/ BtnRead \/ BtnTestSecurity \/ BtnTestAlarm
    \/ BtnRaise \/ BtnBuzzer \/ BtnCameraReturns
    \/ MoveDoor

\* Threads that can run do; nobody has to type a command or move the door.
Fairness ==
    /\ \A o \in Operators : WF_vars(Work(o))
    /\ WF_vars(BtnStep)

Spec == Init /\ [][Next]_vars

FairSpec == Spec /\ Fairness

-----------------------------------------------------------------------------
(* Properties. *)

\* The alarm is never on in silence: while securityDB.alarm is 1 the buzzer
\* sounds, unless Btn_Handler is about to start it or a clearalarm that has
\* stopped it is about to reset the alarm.
NoSilentAlarm ==
    alarm = 1 => \/ buzzer = 1
                 \/ btnPc = "buzzer"
                 \/ \E o \in Operators : step[o] = "db" /\ cmd[o] = "clearalarm"

\* The LED shows the security state whenever no lock or unlock is between its
\* two writes, unless the last two of them overlapped.
LedShowsSecurity == LedWritten = {} /\ ~overlapped => led = security

\* What the answer "MSG:please clear alarm!" (server.c:301) tells a client:
\* the system is not unlocked while the alarm is on.
NoUnlockUnderAlarm == [][security = 1 /\ security' = 0 => alarm = 0]_vars

\* A locked system with an open door keeps coming back to the alarm, however
\* often the alarm is cleared (if Btn_Handler can read the contact at all).
OpenDoorAlarms ==
    resultTerminated /\ <>[](security = 1 /\ button = 1) => []<>(alarm = 1)
=============================================================================
