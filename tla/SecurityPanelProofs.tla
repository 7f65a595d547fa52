------------------------- MODULE SecurityPanelProofs -------------------------
(***************************************************************************)
(* Theorems about SecurityPanel, for any set of operators with any         *)
(* privileges.  NoSilentAlarm is inductive with the types.  For the LED    *)
(* one must also know what it shows inside the window between the two      *)
(* writes, and that a window nothing overlapped has one thread in it.      *)
(***************************************************************************)
EXTENDS SecurityPanel, TLAPS

\* What thread o, between its LED write and its security write, has shown.
Shown(o) == IF cmd[o] = "lock" THEN 1 ELSE 0

\* Without an overlap the LED shows what the only thread in the window wrote.
LedInWindow ==
    ~overlapped => \A o \in LedWritten :
                       LedWritten = {o} /\ led = Shown(o)

IInv == TypeOK /\ NoSilentAlarm /\ LedShowsSecurity /\ LedInWindow

-----------------------------------------------------------------------------
\* Every step keeps the types.
LEMMA TypeNext == TypeOK /\ [Next]_vars => TypeOK'
<1> SUFFICES ASSUME TypeOK, [Next]_vars PROVE TypeOK'
  OBVIOUS
<1> USE DEF TypeOK, Steps, BtnPcs, Bit, PanelCommands,
            operatorVars, dbVars, deviceVars, envVars
<1>1. ASSUME NEW o \in Operators, Lock(o) \/ Unlock(o) \/ ClearAlarm(o)
      PROVE  TypeOK'
  BY <1>1 DEF Lock, Unlock, ClearAlarm, Accept
<1>2. ASSUME NEW o \in Operators, RightPasscode(o) \/ WrongPasscode(o) \/ CameraReturns(o)
      PROVE  TypeOK'
  BY <1>2 DEF RightPasscode, WrongPasscode, CameraReturns
<1>3. ASSUME NEW o \in Operators, WriteLed(o) \/ StopBuzzer(o)
      PROVE  TypeOK'
  BY <1>3 DEF WriteLed, StopBuzzer
<1>4. ASSUME NEW o \in Operators, WriteSecurity(o) \/ ResetAlarm(o)
      PROVE  TypeOK'
  BY <1>4 DEF WriteSecurity, ResetAlarm
<1>5. CASE BtnRead \/ BtnTestSecurity \/ BtnTestAlarm
  BY <1>5 DEF BtnRead, BtnTestSecurity, BtnTestAlarm
<1>6. CASE BtnRaise \/ BtnBuzzer \/ BtnCameraReturns
  BY <1>6 DEF BtnRaise, BtnBuzzer, BtnCameraReturns
<1>7. CASE MoveDoor
  BY <1>7 DEF MoveDoor
<1>8. CASE UNCHANGED vars
  BY <1>8 DEF vars
<1> QED
  BY <1>1, <1>2, <1>3, <1>4, <1>5, <1>6, <1>7, <1>8 DEF Next

\* Only the threads that stop the buzzer can silence an alarm, and each of
\* them is about to reset it.
LEMMA SilentNext == TypeOK /\ NoSilentAlarm /\ [Next]_vars => NoSilentAlarm'
<1> SUFFICES ASSUME TypeOK, NoSilentAlarm, [Next]_vars PROVE NoSilentAlarm'
  OBVIOUS
<1> USE DEF TypeOK, NoSilentAlarm, operatorVars, dbVars, deviceVars, envVars
<1>1. ASSUME NEW o \in Operators, Lock(o) \/ Unlock(o) \/ ClearAlarm(o)
      PROVE  NoSilentAlarm'
  BY <1>1 DEF Lock, Unlock, ClearAlarm, Accept
<1>2. ASSUME NEW o \in Operators, RightPasscode(o) \/ WrongPasscode(o) \/ CameraReturns(o)
      PROVE  NoSilentAlarm'
  BY <1>2 DEF RightPasscode, WrongPasscode, CameraReturns
<1>3. ASSUME NEW o \in Operators, WriteLed(o) PROVE NoSilentAlarm'
  BY <1>3 DEF WriteLed
<1>4. ASSUME NEW o \in Operators, StopBuzzer(o) PROVE NoSilentAlarm'
  BY <1>4 DEF StopBuzzer
<1>5. ASSUME NEW o \in Operators, WriteSecurity(o) PROVE NoSilentAlarm'
  BY <1>5 DEF WriteSecurity, LedWritten
<1>6. ASSUME NEW o \in Operators, ResetAlarm(o) PROVE NoSilentAlarm'
  BY <1>6 DEF ResetAlarm
<1>7. CASE BtnRead \/ BtnTestSecurity \/ BtnTestAlarm
  BY <1>7 DEF BtnRead, BtnTestSecurity, BtnTestAlarm
<1>8. CASE BtnRaise \/ BtnBuzzer \/ BtnCameraReturns
  BY <1>8 DEF BtnRaise, BtnBuzzer, BtnCameraReturns
<1>9. CASE MoveDoor
  BY <1>9 DEF MoveDoor
<1>10. CASE UNCHANGED vars
  BY <1>10 DEF vars
<1> QED
  BY <1>1, <1>2, <1>3, <1>4, <1>5, <1>6, <1>7, <1>8, <1>9, <1>10 DEF Next

\* Every step keeps the LED with security, or records the overlap.
LEMMA LedNext == IInv /\ [Next]_vars => LedShowsSecurity' /\ LedInWindow'
<1> SUFFICES ASSUME IInv, [Next]_vars PROVE LedShowsSecurity' /\ LedInWindow'
  OBVIOUS
<1> USE DEF IInv, TypeOK, operatorVars, dbVars, deviceVars, envVars
\* Steps that leave the window, the LED and security alone.
<1> DEFINE Elsewhere ==
        /\ LedWritten' = LedWritten
        /\ \A o \in LedWritten : cmd'[o] = cmd[o]
        /\ led' = led /\ security' = security /\ overlapped' = overlapped
<1>1. Elsewhere => LedShowsSecurity' /\ LedInWindow'
  BY DEF LedShowsSecurity, LedInWindow, Shown, LedWritten
<1>2. ASSUME NEW o \in Operators, Lock(o) \/ Unlock(o) \/ ClearAlarm(o)
      PROVE  Elsewhere
  BY <1>2 DEF Lock, Unlock, ClearAlarm, Accept, LedWritten
<1>3. ASSUME NEW o \in Operators, RightPasscode(o) \/ WrongPasscode(o) \/ CameraReturns(o)
      PROVE  Elsewhere
  BY <1>3 DEF RightPasscode, WrongPasscode, CameraReturns, LedWritten
<1>4. ASSUME NEW o \in Operators, StopBuzzer(o) \/ ResetAlarm(o)
      PROVE  Elsewhere
  BY <1>4 DEF StopBuzzer, ResetAlarm, LedWritten
<1>5. ASSUME \/ BtnRead \/ BtnTestSecurity \/ BtnTestAlarm \/ BtnRaise \/ BtnBuzzer
             \/ BtnCameraReturns \/ MoveDoor \/ UNCHANGED vars
      PROVE  Elsewhere
  BY <1>5 DEF BtnRead, BtnTestSecurity, BtnTestAlarm, BtnRaise, BtnBuzzer,
     BtnCameraReturns, MoveDoor, vars, LedWritten
<1>6. ASSUME NEW o \in Operators, WriteLed(o)
      PROVE  LedShowsSecurity' /\ LedInWindow'
  <2>1. LedWritten' = LedWritten \cup {o} /\ cmd' = cmd
    BY <1>6 DEF WriteLed, LedWritten
  <2>2. led' = Shown(o) /\ overlapped' = (LedWritten # {})
    BY <1>6 DEF WriteLed, Shown
  <2>3. LedShowsSecurity'
    BY <2>1 DEF LedShowsSecurity
  <2>4. LedInWindow'
    <3>1. ~overlapped' => LedWritten' = {o}
      BY <2>1, <2>2
    <3>2. led' = Shown(o)'
      BY <2>1, <2>2 DEF Shown
    <3> QED
      BY <3>1, <3>2 DEF LedInWindow, Shown
  <2> QED
    BY <2>3, <2>4
<1>7. ASSUME NEW o \in Operators, WriteSecurity(o)
      PROVE  LedShowsSecurity' /\ LedInWindow'
  <2>1. o \in LedWritten /\ LedWritten' = LedWritten \ {o}
    BY <1>7 DEF WriteSecurity, LedWritten
  <2>2. \A p \in LedWritten' : cmd'[p] = cmd[p]
    BY <1>7, <2>1 DEF WriteSecurity, LedWritten
  <2>3. security' = Shown(o) /\ led' = led /\ overlapped' = overlapped
    BY <1>7 DEF WriteSecurity, Shown
  <2> QED
    BY <2>1, <2>2, <2>3 DEF LedShowsSecurity, LedInWindow, Shown
<1> QED
  BY <1>1, <1>2, <1>3, <1>4, <1>5, <1>6, <1>7 DEF Next

\* Alarm and buzzer, LED and security stay related whatever the client threads
\* and Btn_Handler do.
THEOREM PanelInvariance == Spec => []IInv
<1>1. Init => IInv
  BY DEF Init, IInv, TypeOK, Steps, BtnPcs, Bit, NoSilentAlarm, LedShowsSecurity,
     LedInWindow, LedWritten
<1>2. IInv /\ [Next]_vars => IInv'
  BY TypeNext, SilentNext, LedNext DEF IInv
<1> QED
  BY <1>1, <1>2, PTL DEF Spec

\* securityDB and the devices stay in their ranges.
THEOREM PanelTypeCorrect == Spec => []TypeOK
<1>1. IInv => TypeOK
  BY DEF IInv
<1> QED
  BY <1>1, PanelInvariance, PTL

\* However many clients clear the alarm while Btn_Handler raises it, an alarm
\* that stays on is heard.
THEOREM AlarmIsHeard == Spec => []NoSilentAlarm
<1>1. IInv => NoSilentAlarm
  BY DEF IInv
<1> QED
  BY <1>1, PanelInvariance, PTL

\* The LED can only be wrong after two clients' lock and unlock have overlapped.
THEOREM LedIsTruthful == Spec => []LedShowsSecurity
<1>1. IInv => LedShowsSecurity
  BY DEF IInv
<1> QED
  BY <1>1, PanelInvariance, PTL
=============================================================================
