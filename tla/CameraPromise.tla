---------------------------- MODULE CameraPromise ----------------------------
(***************************************************************************)
(* What the camera command channel promises to the threads of the server,  *)
(* and all it promises: a call runs its own command or one that another    *)
(* call has passed since it was made; while it runs its command and those  *)
(* of the calls that overlap it may be applied to SentryMode's flags any   *)
(* number of times and in any order (zero times and after the caller has   *)
(* returned included), and every call ends.  Once no call runs, nothing    *)
(* more is applied.                                                        *)
(*                                                                         *)
(* CameraChannel implements this specification; SecurityPanel is composed  *)
(* with it.                                                                *)
(***************************************************************************)
EXTENDS Naturals

CONSTANTS
    Callers,   \* threads that call camera_ctl
    Commands   \* commands they use

VARIABLES
    status,      \* what each caller's call is doing
    offered,     \* the commands a call may start
    pending,     \* commands that may still be applied
    flagActive,  \* Flag.ActiveSentry
    flagAlarm    \* Flag.Alarm

vars == <<status, offered, pending, flagActive, flagAlarm>>

Init ==
    /\ status = [c \in Callers |-> "idle"]
    /\ offered = [c \in Callers |-> {}]
    /\ pending = {}
    /\ flagActive = FALSE
    /\ flagAlarm = FALSE

\* Caller c enters camera_ctl with command k, which calls that have been made and
\* not started may take up as well.
Call(c, k) ==
    /\ status[c] = "idle"
    /\ status' = [status EXCEPT ![c] = "called"]
    /\ offered' = [d \in Callers |->
            IF d = c THEN {k}
            ELSE IF status[d] = "called" THEN offered[d] \cup {k} ELSE offered[d]]
    /\ UNCHANGED <<pending, flagActive, flagAlarm>>

\* The call of c starts to run a command: camera_ctl passes it through a
\* global, so it may be the one another caller has passed meanwhile, but never
\* one that was passed before this call.
Start(c, k) ==
    /\ status[c] = "called"
    /\ k \in offered[c]
    /\ status' = [status EXCEPT ![c] = "running"]
    /\ offered' = [offered EXCEPT ![c] = {}]
    /\ pending' = pending \cup {k}
    /\ UNCHANGED <<flagActive, flagAlarm>>

\* What command k does to each flag.
ActiveAfter(k) ==
    CASE k = "active"  -> TRUE
      [] k = "suspend" -> FALSE
      [] OTHER         -> flagActive

AlarmAfter(k) ==
    CASE k = "trigger_alarm" -> TRUE
      [] k = "close_alarm"   -> FALSE
      [] OTHER               -> flagAlarm

\* SentryMode executes a pending command, the first time or once more.
Apply(k) ==
    /\ k \in pending
    /\ flagActive' = ActiveAfter(k)
    /\ flagAlarm' = AlarmAfter(k)
    /\ UNCHANGED <<status, offered, pending>>

\* The call of c is over; with the last one the pending commands expire.
Finish(c) ==
    /\ status[c] = "running"
    /\ status' = [status EXCEPT ![c] = "idle"]
    /\ pending' = IF \A d \in Callers : status'[d] # "running" THEN {} ELSE pending
    /\ UNCHANGED <<offered, flagActive, flagAlarm>>

Next ==
    \/ \E c \in Callers, k \in Commands : Call(c, k) \/ Start(c, k)
    \/ \E c \in Callers : Finish(c)
    \/ \E k \in Commands : Apply(k)

Spec == Init /\ [][Next]_vars

\* A call that has been made starts, and a call that runs ends.
FairSpec ==
    /\ Spec
    /\ \A c \in Callers : WF_vars(\E k \in Commands : Start(c, k))
    /\ \A c \in Callers : WF_vars(Finish(c))
=============================================================================
