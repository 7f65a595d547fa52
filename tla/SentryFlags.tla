------------------------------ MODULE SentryFlags ------------------------------
(***************************************************************************)
(* The flags of SentryMode (SentryCamera/SentryMode.c): five one-bit       *)
(* fields of one byte, written by the parser, the camera thread, the       *)
(* comparison threads and the handlers of SIGUSR1 and SIGUSR2.  A write is *)
(* a load of the byte and a store of all of it.  ActiveSentry and Alarm    *)
(* have a SysV semaphore each, ComparePicture and PictureDifferent none.   *)
(*                                                                         *)
(* A thread's stack holds the operations it is in: a signal handler lies   *)
(* on top of what it has interrupted.  A handler that finds its thread     *)
(* asleep in semop makes that P fail (EINTR); nobody looks at P's result.  *)
(* StopProcess is never set once the threads run and is left out.          *)
(***************************************************************************)
EXTENDS Naturals, Sequences

CONSTANTS
    Jobs,       \* the operations of the threads to consider, without the handlers
    MaxSignals  \* bound: signals sent to the process

Threads == {"main", "parser", "camera", "compare"}
Flags   == {"ActiveSentry", "Alarm", "ComparePicture", "PictureDifferent"}

\* The operations on Flag, by the thread they belong to.  The camera looks at
\* ActiveSentry (SUSPENDED; end of a round) and Alarm under their semaphores and
\* writes ComparePicture without one when it enters or is in LONG_VIDEO.
JobsOf(t) ==
    CASE t = "parser"  -> {"check_active", "suspend", "active",
                           "check_alarm", "close_alarm", "trigger_alarm"}
      [] t = "camera"  -> {"enter_active", "end_round", "wait_alarm",
                           "enter_long", "in_long"}
      [] t = "compare" -> {"different", "same"}
      [] OTHER         -> {}

AllJobs  == UNION {JobsOf(t) : t \in Threads}
Handlers == {"SIGUSR1", "SIGUSR2"}
JobNames == AllJobs \cup Handlers

ASSUME FlagsAssumption == Jobs \subseteq AllJobs /\ MaxSignals \in Nat

\* Variant: SIGUSR1 takes the ALARM semaphore only.
SemaphoresOneForUsr1(j) ==
    CASE j \in {"check_active", "suspend", "active", "enter_active", "end_round"}
           -> {"SUSPEND"}
      [] j \in {"check_alarm", "close_alarm", "trigger_alarm", "wait_alarm",
                "SIGUSR2", "SIGUSR1"}
           -> {"ALARM"}
      [] OTHER          -> {}

\* The semaphores an operation takes, SUSPEND before ALARM.
Semaphores(j) ==
    CASE j \in {"check_active", "suspend", "active", "enter_active", "end_round"}
           -> {"SUSPEND"}
      [] j \in {"check_alarm", "close_alarm", "trigger_alarm", "wait_alarm", "SIGUSR2"}
           -> {"ALARM"}
      [] j = "SIGUSR1"  -> {"SUSPEND", "ALARM"}
      [] OTHER          -> {}

\* The flag it may write ...
Target(j) ==
    CASE j \in {"suspend", "active", "SIGUSR1"}              -> "ActiveSentry"
      [] j \in {"close_alarm", "trigger_alarm", "SIGUSR2"}   -> "Alarm"
      [] j \in {"enter_active", "enter_long", "in_long"}     -> "ComparePicture"
      [] OTHER                                               -> "PictureDifferent"

\* ... whether it does, having loaded byte b (three of them only look) ...
Writes(j, b) ==
    CASE j \in {"check_active", "check_alarm", "end_round", "wait_alarm"} -> FALSE
      [] j = "enter_active" -> b["ActiveSentry"]
      [] j = "SIGUSR1"      -> ~b["ActiveSentry"] \/ ~b["Alarm"]
      [] OTHER              -> TRUE

\* ... and what.
Value(j, b) ==
    CASE j = "SIGUSR1" -> ~b["ActiveSentry"]
      [] j = "SIGUSR2" -> ~b["Alarm"]
      [] OTHER         -> j \in {"active", "trigger_alarm", "in_long", "different"}

\* The semaphore that guards a flag.
Guard(f) == CASE f = "ActiveSentry" -> "SUSPEND"
              [] f = "Alarm"        -> "ALARM"
              [] OTHER              -> "none"

VARIABLES
    Flag,         \* the byte
    sem,          \* the values of the two semaphores
    stack,        \* the operations each thread is in, innermost last
    RxCommand,    \* the command the parser's packet holds
    pending,      \* signals the process has not yet taken
    signals,      \* signals sent so far
    interrupted,  \* history: some P returned -1
    lost          \* history: <<operation, flag>> of the first store that put an
                  \* old value of another flag back

vars == <<Flag, sem, stack, RxCommand, pending, signals, interrupted, lost>>

Bytes == [Flags -> BOOLEAN]
Pcs   == {"P_SUSPEND", "P_ALARM", "load", "store", "V_ALARM", "V_SUSPEND"}
Frame == [job : JobNames, pc : Pcs, byte : Bytes]

TypeOK ==
    /\ Flag \in Bytes
    /\ sem \in [{"SUSPEND", "ALARM"} -> Nat]
    /\ stack \in [Threads -> Seq(Frame)]
    /\ RxCommand \in JobsOf("parser") \cup {"none"}
    /\ pending \subseteq Handlers
    /\ signals \in 0..MaxSignals
    /\ interrupted \in BOOLEAN
    /\ lost \subseteq JobNames \X Flags

\* Before the first command RxCommand is whatever lies on the parser's stack.
Init ==
    /\ Flag = [f \in Flags |-> FALSE]
    /\ sem = [s \in {"SUSPEND", "ALARM"} |-> 1]
    /\ stack = [t \in Threads |-> <<>>]
    /\ RxCommand \in (JobsOf("parser") \cap Jobs) \cup {"none"}
    /\ pending = {}
    /\ signals = 0
    /\ interrupted = FALSE
    /\ lost = {}

-----------------------------------------------------------------------------
(* Where an operation is. *)

\* P and V of semaphore s.
P(s) == IF s = "SUSPEND" THEN "P_SUSPEND" ELSE "P_ALARM"
V(s) == IF s = "SUSPEND" THEN "V_SUSPEND" ELSE "V_ALARM"

\* Its steps are P_SUSPEND, P_ALARM, load, store, V_ALARM, V_SUSPEND, those of
\* the semaphores it does not take excepted.
First(j) == CASE "SUSPEND" \in Semaphores(j) -> "P_SUSPEND"
              [] Semaphores(j) = {"ALARM"}   -> "P_ALARM"
              [] OTHER                       -> "load"

AfterStore(j) == CASE "ALARM" \in Semaphores(j)     -> "V_ALARM"
                   [] Semaphores(j) = {"SUSPEND"}   -> "V_SUSPEND"
                   [] OTHER                         -> "end"

\* The loaded byte matters only until it is stored.
NoByte == [f \in Flags |-> FALSE]

Starting(j) == [job |-> j, pc |-> First(j), byte |-> NoByte]

Top(t) == stack[t][Len(stack[t])]

\* Thread t's innermost operation goes on at p, with byte b; at "end" it is over.
Goto(t, p, b) ==
    stack' = [stack EXCEPT ![t] =
        IF p = "end" THEN SubSeq(@, 1, Len(@) - 1)
                     ELSE [@ EXCEPT ![Len(@)].pc = p, ![Len(@)].byte = b]]

\* Whether operation f is between its P and its V of semaphore s.
Holds(f, s) ==
    /\ s \in Semaphores(f.job)
    /\ \/ f.pc \in {"load", "store", "V_ALARM"}
       \/ s = "SUSPEND" /\ f.pc \in {"P_ALARM", "V_SUSPEND"}

At(t, p) == stack[t] # <<>> /\ Top(t).pc = p

\* Where an operation goes after its P of semaphore s.
AfterP(j, s) == IF s = "SUSPEND" /\ "ALARM" \in Semaphores(j) THEN "P_ALARM" ELSE "load"

AfterV(j, s) == IF s = "ALARM" /\ "SUSPEND" \in Semaphores(j) THEN "V_SUSPEND" ELSE "end"

-----------------------------------------------------------------------------
(* Steps of a thread. *)

\* The parser has received command j; the camera or a comparison comes to its job.
Begin(t, j) ==
    /\ stack[t] = <<>>
    /\ j \in JobsOf(t)
    /\ stack' = [stack EXCEPT ![t] = <<Starting(j)>>]
    /\ RxCommand' = IF t = "parser" THEN j ELSE RxCommand
    /\ UNCHANGED <<Flag, sem, pending, signals, interrupted, lost>>

\* Variant: P does not wait (IPC_NOWAIT, its result ignored).
PStepNoWait(t, s) ==
    /\ At(t, P(s))
    /\ sem' = [sem EXCEPT ![s] = IF @ > 0 THEN @ - 1 ELSE @]
    /\ Goto(t, AfterP(Top(t).job, s), NoByte)
    /\ UNCHANGED <<Flag, RxCommand, pending, signals, interrupted, lost>>

\* P(s) succeeds.
PStep(t, s) ==
    /\ At(t, P(s))
    /\ sem[s] > 0
    /\ sem' = [sem EXCEPT ![s] = @ - 1]
    /\ Goto(t, AfterP(Top(t).job, s), NoByte)
    /\ UNCHANGED <<Flag, RxCommand, pending, signals, interrupted, lost>>

\* Variant: SIGUSR1 returns at once when it has nothing to do.
LoadReturns(t) ==
    /\ At(t, "load")
    /\ IF Writes(Top(t).job, Flag) THEN Goto(t, "store", Flag)
       ELSE Goto(t, IF Top(t).job = "SIGUSR1" THEN "end" ELSE AfterStore(Top(t).job), NoByte)
    /\ UNCHANGED <<Flag, sem, RxCommand, pending, signals, interrupted, lost>>

Load(t) ==
    /\ At(t, "load")
    /\ IF Writes(Top(t).job, Flag) THEN Goto(t, "store", Flag)
                                   ELSE Goto(t, AfterStore(Top(t).job), NoByte)
    /\ UNCHANGED <<Flag, sem, RxCommand, pending, signals, interrupted, lost>>

\* The byte that was loaded goes back with one bit changed.
Store(t) ==
    /\ At(t, "store")
    /\ LET f == Top(t)
       IN  /\ Flag' = [f.byte EXCEPT ![Target(f.job)] = Value(f.job, f.byte)]
           /\ lost' = IF lost = {}
                      THEN {<<f.job, x>> : x \in {y \in Flags \ {Target(f.job)} :
                                                    f.byte[y] # Flag[y]}}
                      ELSE lost
           /\ Goto(t, AfterStore(f.job), NoByte)
    /\ UNCHANGED <<sem, RxCommand, pending, signals, interrupted>>

VStep(t, s) ==
    /\ At(t, V(s))
    /\ sem' = [sem EXCEPT ![s] = @ + 1]
    /\ Goto(t, AfterV(Top(t).job, s), NoByte)
    /\ UNCHANGED <<Flag, RxCommand, pending, signals, interrupted, lost>>

-----------------------------------------------------------------------------
(* Signals. *)

\* kill(): a signal that is pending already is not queued again.
Send(h) ==
    /\ signals < MaxSignals
    /\ signals' = signals + 1
    /\ pending' = pending \cup {h}
    /\ UNCHANGED <<Flag, sem, stack, RxCommand, interrupted, lost>>

\* A signal is blocked in a thread while its handler runs there.
Blocks(t, h) == \E i \in 1..Len(stack[t]) : stack[t][i].job = h

\* The kernel offers a signal to main, which spins, and only if main blocks it
\* to another thread.
Chosen(t, h) ==
    /\ ~Blocks(t, h)
    /\ t # "main" => Blocks("main", h)

\* The handler starts on top of what t does, between two of its steps.
Deliver(t, h) ==
    /\ h \in pending
    /\ Chosen(t, h)
    /\ stack[t] # <<>> \/ t \in {"main", "camera"}
    /\ pending' = pending \ {h}
    /\ stack' = [stack EXCEPT ![t] = Append(@, Starting(h))]
    /\ UNCHANGED <<Flag, sem, RxCommand, signals, interrupted, lost>>

\* ... or while t sleeps in semop: that P returns -1 and t goes on after it.
DeliverInP(t, h, s) ==
    /\ h \in pending
    /\ Chosen(t, h)
    /\ At(t, P(s))
    /\ sem[s] = 0
    /\ pending' = pending \ {h}
    /\ stack' = [stack EXCEPT ![t] =
                    Append([@ EXCEPT ![Len(@)].pc = AfterP(Top(t).job, s)], Starting(h))]
    /\ interrupted' = TRUE
    /\ UNCHANGED <<Flag, sem, RxCommand, signals, lost>>

\* Variant: an id the switch has no case for is executed like any other.
DeliverInMsgrcvNoDefault(h) ==
    /\ h \in pending
    /\ Chosen("parser", h)
    /\ stack["parser"] = <<>>
    /\ pending' = pending \ {h}
    /\ stack' = [stack EXCEPT !["parser"] = <<Starting(RxCommand), Starting(h)>>]
    /\ UNCHANGED <<Flag, sem, RxCommand, signals, interrupted, lost>>

\* ... or while the parser sleeps in msgrcv: that returns -1 too, and the parser
\* executes once more what RxCommand still holds.
DeliverInMsgrcv(h) ==
    /\ h \in pending
    /\ Chosen("parser", h)
    /\ stack["parser"] = <<>>
    /\ pending' = pending \ {h}
    /\ stack' = [stack EXCEPT !["parser"] =
                    (IF RxCommand = "none" THEN <<>> ELSE <<Starting(RxCommand)>>)
                        \o <<Starting(h)>>]
    /\ UNCHANGED <<Flag, sem, RxCommand, signals, interrupted, lost>>

-----------------------------------------------------------------------------
Step(t) ==
    \/ \E s \in {"SUSPEND", "ALARM"} : PStep(t, s) \/ VStep(t, s)
    \/ Load(t)
    \/ Store(t)

Next ==
    \/ \E t \in Threads, j \in Jobs : Begin(t, j)
    \/ \E t \in Threads, s \in {"SUSPEND", "ALARM"} : PStep(t, s) \/ VStep(t, s)
    \/ \E t \in Threads : Load(t) \/ Store(t)
    \/ \E h \in Handlers : Send(h)
    \/ \E t \in Threads, h \in Handlers : Deliver(t, h)
    \/ \E t \in Threads, h \in Handlers, s \in {"SUSPEND", "ALARM"} : DeliverInP(t, h, s)
    \/ \E h \in Handlers : DeliverInMsgrcv(h)

\* A thread that can run does; semop serves its sleepers in order of arrival,
\* so a P that is possible again and again succeeds.
Fairness == \A t \in Threads : SF_vars(Step(t))

Spec == Init /\ [][Next]_vars

FairSpec == Spec /\ Fairness

-----------------------------------------------------------------------------
(* Properties. *)

\* The operations under way, each as <<thread, level>>.
Levels == {l \in Threads \X (1..4) : l[2] <= Len(stack[l[1]])}

Held(l, s) == Holds(stack[l[1]][l[2]], s)

\* As long as no P has been interrupted, whatever handlers run on top of whatever
\* thread, a semaphore is free exactly when no operation is between its P and
\* its V, and never are two operations there.
Exclusion ==
    ~interrupted => \A s \in {"SUSPEND", "ALARM"} :
        /\ sem[s] = IF \E l \in Levels : Held(l, s) THEN 0 ELSE 1
        /\ \A l, m \in Levels : Held(l, s) /\ Held(m, s) => l = m

\* The byte is shared by flags with different semaphores and with none, so writes
\* do get lost; but, no P having been interrupted, the first write that is lost
\* is never undone by an operation that holds the semaphore of the flag.
GuardedFlagKept ==
    ~interrupted => \A x \in lost : Guard(x[2]) \notin Semaphores(x[1])

\* Some handler waits on top of an operation that holds a semaphore.
HandlerOverHolder ==
    \E t \in Threads :
        /\ Len(stack[t]) > 1
        /\ At(t, "P_SUSPEND") \/ At(t, "P_ALARM")
        /\ \E i \in 1..(Len(stack[t]) - 1), s \in {"SUSPEND", "ALARM"} :
                Holds(stack[t][i], s)

\* A command that was received ends, whatever the camera and the signals do:
\* only a handler that waits on top of a holder can stop the parser.
CommandsEnd ==
    stack["parser"] # <<>> ~> stack["parser"] = <<>> \/ HandlerOverHolder
=============================================================================
