---------------------------- MODULE CameraRestart ----------------------------
(***************************************************************************)
(* CameraChannel with processes that end and start again.  What the two    *)
(* processes share outlives them: the shared memory segment in which       *)
(* SentryMode publishes the key of its queue, and the queue with whatever  *)
(* messages are in it.  SentryMode ends by SIGINT, whose handler removes   *)
(* both, or it is killed and leaves them; the next start uses what is      *)
(* there.  (Its semaphores hold nothing up: SemaphoreKey is never set, and *)
(* key 0 makes semget create a new private set each time.)                 *)
(*                                                                         *)
(* Every camera_ctl call opens the channel anew (shmget, shmat, msgget)    *)
(* and keeps what it finds in globals of the process.  In a segment where  *)
(* nothing is published the key of the queue is 0, IPC_PRIVATE: msgget     *)
(* makes a queue of mode 0, and msgsnd and msgrcv fail (README.md starts   *)
(* the server as an ordinary user).  One SentryMode runs at a time.        *)
(***************************************************************************)
EXTENDS CameraChannel, SequencesExt

CONSTANT MaxFaults  \* bound: ends of a process

ASSUME RestartAssumption == MaxFaults \in Nat

\* Segments are numbered in the order of their creation.
Segments == 1..(MaxFaults + 1)

VARIABLES
    serverUp,        \* whether the server runs
    sentry,          \* SentryMode: down, created, cleared, up, stopping
    segment,         \* the segment of SharedMemoryKey, 0 when there is none
    lastSegment,     \* segments made so far
    published,       \* segments with the queue's key in them
    sentrySegment,   \* SharedMemory of SentryMode
    attached,        \* segments the server has attached: it never detaches one
    mapped,          \* pSentryModeSharedMemory of the server
    queueThere,      \* whether the command queue exists
    queueFirst,      \* whether the one made first since the boot has not been removed
    MessageQueueId,  \* of the server: which queue, or one that was removed
    opening,         \* where each caller is in the opening of camera_ctl
    shmid,           \* SharedMemory of the server, a global
    disturbed,       \* history: callers in whose opening SentryMode changed
    mishaps,         \* history: what has gone wrong, by kind
    faults           \* ends so far

memoryVars  == <<segment, lastSegment, published, attached, mapped, shmid>>
queueVars   == <<queueThere, queueFirst, MessageQueueId>>
processVars == <<serverUp, sentry, sentrySegment>>
causeVars   == <<disturbed, mishaps, faults>>
restartVars == <<vars, memoryVars, queueVars, processVars, opening, causeVars>>

Mishaps == {"call abandoned", "packet lost", "queue changed", "queue removed"}

RestartTypeOK ==
    /\ TypeOK
    /\ serverUp \in BOOLEAN
    /\ sentry \in {"down", "created", "cleared", "up", "stopping"}
    /\ segment \in {0} \cup Segments
    /\ lastSegment \in Segments
    /\ published \subseteq Segments
    /\ sentrySegment \in {0} \cup Segments
    /\ attached \subseteq Segments
    /\ mapped \in {0} \cup Segments
    /\ shmid \in {0} \cup Segments
    /\ queueThere \in BOOLEAN
    /\ queueFirst \in BOOLEAN
    /\ MessageQueueId \in {"none", "command", "removed", "private"}
    /\ opening \in [Callers -> {"no", "shmget", "shmat", "done"}]
    /\ disturbed \subseteq Callers
    /\ mishaps \subseteq Mishaps
    /\ faults \in 0..MaxFaults

\* SentryMode has been started before the server.
RestartInit ==
    /\ Init
    /\ serverUp = TRUE
    /\ sentry = "up"
    /\ segment = 1
    /\ lastSegment = 1
    /\ published = {1}
    /\ sentrySegment = 1
    /\ attached = {}
    /\ mapped = 0
    /\ shmid = 0
    /\ queueThere = TRUE
    /\ queueFirst = TRUE
    /\ MessageQueueId = "none"
    /\ opening = [c \in Callers |-> "no"]
    /\ disturbed = {}
    /\ mishaps = {}
    /\ faults = 0

\* Callers between their shmget and their first use of the queue.
Opening == {c \in Callers :
    opening[c] \in {"shmget", "shmat"} \/ (opening[c] = "done" /\ pc[c] = "idle")}

\* History: something about SentryMode changes under the callers that are opening.
Disturb == disturbed' = disturbed \cup Opening

\* History: mishap m happens if condition p holds.
Note(m, p) == IF p THEN {m} ELSE {}

\* shmget(IPC_CREAT): the segment of the key, made if there is none.
ShmgetCreates ==
    /\ segment' = IF segment = 0 THEN lastSegment + 1 ELSE segment
    /\ lastSegment' = IF segment = 0 THEN lastSegment + 1 ELSE lastSegment

-----------------------------------------------------------------------------
(* The server's process and SentryMode's process end and start. *)

\* What is left of the callers when the server has gone.
CallersGone ==
    /\ serverUp' = FALSE
    /\ pc' = [c \in Callers |-> "idle"]
    /\ arg' = [c \in Callers |-> None]
    /\ branch' = [c \in Callers |-> None]
    /\ msg' = [c \in Callers |-> NoMessage]
    /\ CommandNumber' = None
    /\ burst' = {}
    /\ offered' = [c \in Callers |-> {}]
    /\ attached' = {}
    /\ mapped' = 0
    /\ shmid' = 0
    /\ MessageQueueId' = "none"
    /\ opening' = [c \in Callers |-> "no"]
    /\ disturbed' = {}

\* The queue stays, with the messages of the calls that are cut off in it.
QueueStays ==
    /\ sleepers' = IF Parser \in ToSet(sleepers) THEN <<Parser>> ELSE <<>>
    /\ mishaps' = mishaps \cup Note("call abandoned", Outstanding # {})
    /\ UNCHANGED <<queue, parserPc, queueThere, queueFirst>>

NoCallers ==
    /\ CallersGone
    /\ QueueStays
    /\ UNCHANGED <<RxCommand, flagVars, sentry, sentrySegment, segment, lastSegment, published>>

\* A kill, a SIGINT before the first camera_ctl, or one after it: its handler passes
\* the keys of the mapped segment where msgctl and shmctl take identifiers, and the
\* keys that SentryMode publishes identify nothing.
ServerEnds ==
    /\ serverUp
    /\ faults < MaxFaults
    /\ faults' = faults + 1
    /\ NoCallers

\* msgctl(0, IPC_RMID): the queue is removed and the parser's msgrcv fails.
QueueRemoved ==
    /\ queueThere /\ queueFirst
    /\ queueThere' = FALSE
    /\ queueFirst' = FALSE
    /\ queue' = <<>>
    /\ sleepers' = <<>>
    /\ parserPc' = IF parserPc = "asleep" THEN "recv" ELSE parserPc
    /\ mishaps' = mishaps \cup {"queue removed"}

\* SIGINT while nothing is published in the mapped segment: the handler passes 0,
\* which identifies the first queue and the first segment made since the boot, be
\* they SentryMode's or, before SentryMode ran, another program's.
ServerInterrupted ==
    /\ serverUp
    /\ faults < MaxFaults
    /\ faults' = faults + 1
    /\ mapped # 0 /\ mapped \notin published
    /\ CallersGone
    /\ QueueRemoved \/ QueueStays
    /\ segment' \in {segment, IF segment = 1 THEN 0 ELSE segment}
    /\ UNCHANGED <<RxCommand, flagVars, sentry, sentrySegment, lastSegment, published>>

ServerStarts ==
    /\ ~serverUp
    /\ serverUp' = TRUE
    /\ UNCHANGED <<vars, memoryVars, queueVars, sentry, sentrySegment, opening, causeVars>>

\* A thread that dies in msgrcv is taken off the kernel's list.
ParserLeavesList ==
    \/ \E i \in 1..Len(sleepers) :
          sleepers[i] = Parser /\ sleepers' = RemoveAt(sleepers, i)
    \/ Parser \notin ToSet(sleepers) /\ UNCHANGED sleepers

\* SentryMode's threads are gone, and with them its packet and its flags.
NoSentry ==
    /\ sentry' = "down"
    /\ sentrySegment' = 0
    /\ parserPc' = "recv"
    /\ RxCommand' = NoMessage
    /\ flagActive' = FALSE
    /\ flagAlarm' = FALSE
    /\ Disturb

\* SentryMode is killed: the segment and the queue stay.
SentryKilled ==
    /\ sentry # "down"
    /\ faults < MaxFaults
    /\ faults' = faults + 1
    /\ NoSentry
    /\ ParserLeavesList
    /\ mishaps' = mishaps \cup Note("packet lost", parserPc \in {"exec", "reply"})
    /\ UNCHANGED <<callerVars, queue, historyVars, memoryVars, queueVars, serverUp, opening>>

\* Variant: the handler forgets the segment.
SentryInterruptedKeeps ==
    /\ sentry \in {"created", "cleared", "up"}
    /\ faults < MaxFaults
    /\ faults' = faults + 1
    /\ sentry' = "stopping"
    /\ Disturb
    /\ UNCHANGED <<vars, memoryVars, queueVars, serverUp, sentrySegment, opening, mishaps>>

\* SIGINT: shmctl(IPC_RMID) ...
SentryInterrupted ==
    /\ sentry \in {"created", "cleared", "up"}
    /\ faults < MaxFaults
    /\ faults' = faults + 1
    /\ sentry' = "stopping"
    /\ segment' = IF segment = sentrySegment THEN 0 ELSE segment
    /\ Disturb
    /\ UNCHANGED <<vars, lastSegment, published, attached, mapped, shmid, queueVars,
                   serverUp, sentrySegment, opening, mishaps>>

\* Variant: the handler passes the queue's key to msgctl, as camera_ctl's does.
SentryExitsByKey ==
    /\ sentry = "stopping"
    /\ NoSentry
    /\ ParserLeavesList
    /\ UNCHANGED <<callerVars, queue, historyVars, memoryVars, queueVars, serverUp, opening,
                   mishaps, faults>>

\* ... then msgctl(IPC_RMID), which wakes the sleepers with an error, and exit.
SentryExits ==
    /\ sentry = "stopping"
    /\ NoSentry
    /\ queue' = <<>>
    /\ sleepers' = <<>>
    /\ queueThere' = FALSE
    /\ queueFirst' = FALSE
    /\ MessageQueueId' = IF MessageQueueId = "command" THEN "removed" ELSE MessageQueueId
    /\ pc' = [c \in Callers |-> IF pc[c] = "asleep" THEN "got" ELSE pc[c]]
    /\ UNCHANGED <<arg, branch, msg, CommandNumber, historyVars, memoryVars,
                   serverUp, opening, mishaps, faults>>

\* main: the segment and the queue are created or, if they are there, used as
\* they are; the threads start ...
SentryStarts ==
    /\ sentry = "down"
    /\ sentry' = "created"
    /\ ShmgetCreates
    /\ sentrySegment' = segment'
    /\ queueThere' = TRUE
    /\ Disturb
    /\ UNCHANGED <<vars, published, attached, mapped, shmid, queueFirst, MessageQueueId,
                   serverUp, opening, mishaps, faults>>

\* ... then a memset clears the segment, and the keys a killed run has left in it ...
SentryClears ==
    /\ sentry = "created"
    /\ sentry' = "cleared"
    /\ published' = published \ {sentrySegment}
    /\ Disturb
    /\ UNCHANGED <<vars, segment, lastSegment, attached, mapped, shmid, queueVars,
                   serverUp, sentrySegment, opening, mishaps, faults>>

\* Variant: the memset comes after the keys.
SentryPublishesNothing ==
    /\ sentry = "cleared"
    /\ sentry' = "up"
    /\ published' = published \ {sentrySegment}
    /\ Disturb
    /\ UNCHANGED <<vars, segment, lastSegment, attached, mapped, shmid, queueVars,
                   serverUp, sentrySegment, opening, mishaps, faults>>

\* ... and only then the keys are written to it.
SentryPublishes ==
    /\ sentry = "cleared"
    /\ sentry' = "up"
    /\ published' = published \cup {sentrySegment}
    /\ Disturb
    /\ UNCHANGED <<vars, segment, lastSegment, attached, mapped, shmid, queueVars,
                   serverUp, sentrySegment, opening, mishaps, faults>>

-----------------------------------------------------------------------------
(* The opening of camera_ctl. *)

\* shmget(IPC_CREAT).
Shmget(c) ==
    /\ serverUp /\ pc[c] = "idle" /\ opening[c] = "no"
    /\ opening' = [opening EXCEPT ![c] = "shmget"]
    /\ ShmgetCreates
    /\ shmid' = segment'
    /\ UNCHANGED <<vars, published, attached, mapped, queueVars, processVars, causeVars>>

\* A segment exists as long as its key or an attachment does.
Exists(s) == s = segment \/ s = sentrySegment \/ s \in attached

\* shmat; if it fails the server exits.
Shmat(c) ==
    /\ opening[c] = "shmget"
    /\ \/ /\ Exists(shmid)
          /\ opening' = [opening EXCEPT ![c] = "shmat"]
          /\ attached' = attached \cup {shmid}
          /\ mapped' = shmid
          /\ UNCHANGED <<vars, segment, lastSegment, published, shmid, queueVars,
                         processVars, causeVars>>
       \/ /\ ~Exists(shmid)
          /\ NoCallers
          /\ UNCHANGED faults

\* Variant: a failing msgget is not checked, and its -1 used.
MsggetUnchecked(c) ==
    /\ opening[c] = "shmat"
    /\ opening' = [opening EXCEPT ![c] = "done"]
    /\ MessageQueueId' = CASE mapped \notin published -> "private"
                           [] queueThere             -> "command"
                           [] OTHER                  -> "failed"
    /\ UNCHANGED <<vars, memoryVars, queueThere, queueFirst, processVars, causeVars>>

\* msgget with the key in the mapped segment; if it fails the server exits.  A
\* call of another thread that is under way goes on with what is found here.
Msgget(c) ==
    /\ opening[c] = "shmat"
    /\ \/ /\ mapped \in published => queueThere
          /\ opening' = [opening EXCEPT ![c] = "done"]
          /\ MessageQueueId' = IF mapped \in published THEN "command" ELSE "private"
          /\ mishaps' = mishaps \cup
                Note("queue changed", MessageQueueId' # MessageQueueId /\ Outstanding # {})
          /\ UNCHANGED <<vars, memoryVars, queueThere, queueFirst, processVars, disturbed, faults>>
       \/ /\ mapped \in published
          /\ ~queueThere
          /\ NoCallers
          /\ UNCHANGED faults

-----------------------------------------------------------------------------
(* camera_ctl and the parser, on the queue they have found. *)

ipcUnchanged == UNCHANGED <<memoryVars, queueVars, processVars, mishaps, faults>>

\* The opening is done: CommandNumber is stored.
CallSet(c, k) ==
    /\ opening[c] = "done"
    /\ SetCommand(c, k)
    /\ disturbed' = disturbed \ {c}
    /\ UNCHANGED opening
    /\ ipcUnchanged

\* msgsnd to whatever queue MessageQueueId names now; its failure is not looked at.
CallDispatch(c) ==
    /\ \/ /\ MessageQueueId = "command"
          /\ Dispatch(c)
       \/ /\ MessageQueueId # "command"
          /\ pc[c] = "set"
          /\ pc' = [pc EXCEPT ![c] = "sent"]
          /\ branch' = [branch EXCEPT ![c] = CommandNumber]
          /\ offered' = [offered EXCEPT ![c] = {}]
          /\ UNCHANGED <<arg, msg, CommandNumber, kernelVars, parserVars, flagVars, burst>>
    /\ UNCHANGED <<opening, disturbed>>
    /\ ipcUnchanged

\* msgrcv; where it fails msg is the zeros camera_ctl has put in it.
CallReceive(c) ==
    /\ \/ /\ MessageQueueId = "command"
          /\ Receive(c)
       \/ /\ MessageQueueId # "command"
          /\ pc[c] = "sent"
          /\ pc' = [pc EXCEPT ![c] = "got"]
          /\ UNCHANGED <<arg, branch, msg, CommandNumber, kernelVars, parserVars, flagVars,
                         historyVars>>
    /\ UNCHANGED <<opening, disturbed>>
    /\ ipcUnchanged

CallReturn(c) ==
    /\ Return(c)
    /\ opening' = [opening EXCEPT ![c] = "no"]
    /\ UNCHANGED disturbed
    /\ ipcUnchanged

\* Without the queue msgrcv and msgsnd fail, which the parser does not look at: it
\* executes what it has in RxCommand, at first whatever its stack holds.
ParserWithoutQueue ==
    /\ \/ /\ parserPc = "recv"
          /\ parserPc' = "exec"
          /\ RxCommand' \in IF RxCommand = NoMessage
                             THEN {[NoMessage EXCEPT !.cmd = k] : k \in CommandIds}
                             ELSE {RxCommand}
       \/ /\ parserPc = "reply"
          /\ parserPc' = "recv"
          /\ UNCHANGED RxCommand
    /\ UNCHANGED <<callerVars, kernelVars, flagVars, historyVars>>

\* The parser's thread runs from the start to the end of SentryMode.
ParserStep ==
    /\ sentry # "down"
    /\ \/ queueThere /\ (ParserReceive \/ ParserReply)
       \/ ~queueThere /\ ParserWithoutQueue
       \/ ParserExecute
    /\ UNCHANGED <<opening, disturbed>>
    /\ ipcUnchanged

-----------------------------------------------------------------------------
CallStep(c) ==
    Shmat(c) \/ Msgget(c) \/ CallDispatch(c) \/ CallReceive(c) \/ CallReturn(c)

RestartNext ==
    \/ ServerEnds \/ ServerInterrupted \/ ServerStarts
    \/ SentryStarts \/ SentryClears \/ SentryPublishes
    \/ SentryInterrupted \/ SentryExits \/ SentryKilled
    \/ \E c \in Callers : Shmget(c) \/ Shmat(c) \/ Msgget(c)
    \/ \E c \in Callers, k \in Commands : CallSet(c, k)
    \/ \E c \in Callers : CallDispatch(c) \/ CallReceive(c) \/ CallReturn(c)
    \/ ParserStep

\* Threads that can run do; nobody has to start, end or call anything.
RestartFairness ==
    /\ \A c \in Callers : WF_restartVars(CallStep(c))
    /\ WF_restartVars(ParserStep)
    /\ WF_restartVars(SentryExits)

RestartSpec == RestartInit /\ [][RestartNext]_restartVars /\ RestartFairness

-----------------------------------------------------------------------------
(* Properties. *)

\* Whatever process ends or starts, and when: a thread of the server hangs in
\* camera_ctl only if SentryMode was killed with a packet in its hands, or if
\* another thread's call has put another queue under the one it was running on.
\* A SIGINT of SentryMode by itself wakes the sleepers, a server that dies leaves
\* too many messages rather than too few, and without a queue the calls fail.
HangsHaveACause ==
    \A c \in Callers :
        []<>(c \notin Outstanding) \/ <>(mishaps \cap {"packet lost", "queue changed"} # {})

\* SentryMode's flags move while it is up and no call is outstanding only after a
\* server has died inside a call, the queue was changed under a call or the server's
\* handler has removed it: then a command is left over that the parser executes
\* again and again.  That SentryMode is killed, at whatever point, and its queue is
\* used again leaves none.
GhostsHaveACause ==
    [][sentry = "up" /\ sentry' = "up" /\ Outstanding = {}
          /\ mishaps \cap {"call abandoned", "queue changed", "queue removed"} = {}
            => UNCHANGED flagVars]_restartVars

\* camera_ctl exits the server only when SentryMode has changed under a call that
\* was opening the channel, or when the server's handler has removed the queue; a
\* SentryMode that is simply down does not end it.
ExitNeedsARace ==
    [][serverUp /\ ~serverUp' /\ faults' = faults
            => disturbed # {} \/ "queue removed" \in mishaps]_restartVars

\* SentryMode comes back: calls that open the channel while it is up reach its
\* queue, whatever queues and segments earlier runs have left, unless the server's
\* handler has taken its segment off the key.
Reconnected ==
    sentry = "up" /\ segment = sentrySegment /\ disturbed = {} =>
        \A c \in Callers :
            opening[c] = "done" /\ pc[c] = "idle" => MessageQueueId = "command"
=============================================================================
