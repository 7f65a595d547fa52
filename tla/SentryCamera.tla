----------------------------- MODULE SentryCamera -----------------------------
(***************************************************************************)
(* The camera of SentryMode (SentryCamera/SentryMode.c): the state machine *)
(* of SentryMode_Handler, the comparison threads (ComparePicture_Handler)  *)
(* it starts and never waits for, and the commands and signals that steer  *)
(* both through Flag.                                                      *)
(*                                                                         *)
(* Videos and pictures are not numbered.  Of the videos the module keeps   *)
(* the current and the past one (u64LocalTimerCount and                    *)
(* u64PastLocalTimerCount); of a comparison, what its two pictures show    *)
(* and whether both names and files were left alone (clean) so far.        *)
(*                                                                         *)
(* Grain of atomicity: a stretch of the loop body between two points at    *)
(* which another thread's writes matter.  A flag is read or written in one *)
(* step; that the flags share a byte is the subject of SentryFlags.        *)
(***************************************************************************)
EXTENDS Naturals

CONSTANT
    ThreadLimit  \* comparison threads the process can create: they are neither
                 \* joined nor detached, so a finished one still counts

ASSUME CameraAssumption == ThreadLimit \in Nat \ {0}

Comparisons == 1..ThreadLimit

VARIABLES
    state,             \* ENUM_CAMERA_STATE_T
    pc,                \* where the loop body is
    moved,             \* whether the current 4-second video shows a movement
    past,              \* the video numbered u64PastLocalTimerCount
    ActiveSentry, Alarm, ComparePicture, PictureDifferent,  \* Flag
    cameraSem,         \* who holds ENUM_SEMAPHORE_ID_CAMERA
    parser,            \* CommandParser_Handler: idle, or in a TAKE_ command
    born,              \* comparison threads created so far
    compare,           \* the comparison threads
    overtaken,         \* history: an older comparison wrote its verdict after
                       \* the one of the past video had written its own
    late,              \* history: the latter said "different" after the test
                       \* that had the past video removed
    videosSince        \* history: videos started since the sentry was suspended

cameraVars  == <<state, pc, moved, past, ComparePicture>>
flagVars    == <<ActiveSentry, Alarm, PictureDifferent>>
compareVars == <<born, compare, overtaken, late>>
vars        == <<cameraVars, flagVars, cameraSem, parser, compareVars, videosSince>>

States   == {"suspended", "active", "long_video", "alarm"}
Pcs      == {"top", "film", "delete", "remove", "compare", "verdict", "alarm", "suspend"}
Verdicts == {"none", "different", "same", "no_data"}

TypeOK ==
    /\ state \in States
    /\ pc \in Pcs
    /\ moved \in BOOLEAN
    /\ past \in [kind : {"none", "4s", "10s"}, moved : BOOLEAN,
                 thread : 0..ThreadLimit, removed : BOOLEAN]
    /\ ActiveSentry \in BOOLEAN
    /\ Alarm \in BOOLEAN
    /\ ComparePicture \in BOOLEAN
    /\ PictureDifferent \in BOOLEAN
    /\ cameraSem \in {"free", "camera", "parser"}
    /\ parser \in {"idle", "take"}
    /\ born \in 0..ThreadLimit
    /\ compare \in [Comparisons -> [phase : {"unborn", "running", "exited"},
                                    differ : BOOLEAN, clean : BOOLEAN,
                                    verdict : Verdicts]]
    /\ overtaken \in BOOLEAN
    /\ late \in BOOLEAN
    /\ videosSince \in Nat

NoThread == [phase |-> "unborn", differ |-> FALSE, clean |-> TRUE, verdict |-> "none"]

Init ==
    /\ state = "suspended"
    /\ pc = "top"
    /\ moved = FALSE
    /\ past = [kind |-> "none", moved |-> FALSE, thread |-> 0, removed |-> FALSE]
    /\ ActiveSentry = FALSE
    /\ Alarm = FALSE
    /\ ComparePicture = FALSE
    /\ PictureDifferent = FALSE
    /\ cameraSem = "free"
    /\ parser = "idle"
    /\ born = 0
    /\ compare = [i \in Comparisons |-> NoThread]
    /\ overtaken = FALSE
    /\ late = FALSE
    /\ videosSince = 0

-----------------------------------------------------------------------------
(* The loop of SentryMode_Handler. *)

\* ENUM_CAMERA_STATE_SUSPENDED: under the SUSPEND semaphore, look at ActiveSentry.
Suspended ==
    /\ state = "suspended" /\ pc = "top"
    /\ IF ActiveSentry
       THEN /\ ComparePicture' = FALSE
            /\ state' = "active"
       ELSE UNCHANGED <<ComparePicture, state>>
    /\ UNCHANGED <<pc, moved, past, flagVars, cameraSem, parser, compareVars, videosSince>>

\* Take4sVideo or Take10sVideo begins: P(CAMERA), then the shell command.
StartVideo ==
    /\ state \in {"active", "long_video"} /\ pc = "top"
    /\ cameraSem = "free"
    /\ cameraSem' = "camera"
    /\ pc' = "film"
    /\ videosSince' = IF ActiveSentry THEN 0 ELSE videosSince + 1
    /\ UNCHANGED <<state, moved, past, ComparePicture, flagVars, parser, compareVars>>

\* Variant: Take10sVideo forgets its V(CAMERA).
EndVideoKeepsSem ==
    /\ pc = "film"
    /\ cameraSem' = IF state = "active" THEN "free" ELSE cameraSem
    /\ moved' \in (IF state = "active" THEN BOOLEAN ELSE {FALSE})
    /\ pc' = IF state = "active" THEN "delete" ELSE "compare"
    /\ UNCHANGED <<state, past, ComparePicture, flagVars, parser, compareVars, videosSince>>

\* ... and ends: V(CAMERA); the pictures are cut out of the video.
EndVideo ==
    /\ pc = "film"
    /\ cameraSem' = "free"
    /\ moved' \in (IF state = "active" THEN BOOLEAN ELSE {FALSE})
    /\ pc' = IF state = "active" THEN "delete" ELSE "compare"
    /\ UNCHANGED <<state, past, ComparePicture, flagVars, parser, compareVars, videosSince>>

\* Variant: the past video is removed whatever was seen in it.
TestPastAlways ==
    /\ state = "active" /\ pc = "delete"
    /\ pc' = IF past.kind # "none" THEN "remove" ELSE "compare"
    /\ UNCHANGED <<state, moved, past, ComparePicture, flagVars, cameraSem, parser,
                   compareVars, videosSince>>

\* The past video is to be removed with nothing different, no alarm, and not in
\* the first round ...
TestPast ==
    /\ state = "active" /\ pc = "delete"
    /\ pc' = IF ~PictureDifferent /\ ~Alarm /\ past.kind # "none"
             THEN "remove" ELSE "compare"
    /\ UNCHANGED <<state, moved, past, ComparePicture, flagVars, cameraSem, parser,
                   compareVars, videosSince>>

\* ... and the shell's rm, whatever has been written meanwhile, removes it if it
\* was a 4-second one (it finds no file with the number of a 10-second video).
RemovePast ==
    /\ pc = "remove"
    /\ pc' = "compare"
    /\ past' = [past EXCEPT !.removed = past.kind = "4s"]
    /\ UNCHANGED <<state, moved, ComparePicture, flagVars, cameraSem, parser,
                   compareVars, videosSince>>

\* Renaming or removing the pictures spoils every comparison still running.
Spoiled == [i \in Comparisons |->
    IF compare[i].phase = "running" THEN [compare[i] EXCEPT !.clean = FALSE] ELSE compare[i]]

\* Variant: ... as if there were no limit.
CreateUnchecked(differ) ==
    /\ born' = born + 1
    /\ compare' = [Spoiled EXCEPT ![born + 1] =
            [phase |-> "running", differ |-> differ, clean |-> TRUE, verdict |-> "none"]]

\* RemoveFile, new names, pthread_create(ComparePicture_Handler) on pictures
\* that differ or not; its failure goes unnoticed.
Create(differ) ==
    IF born < ThreadLimit
    THEN /\ born' = born + 1
         /\ compare' = [Spoiled EXCEPT ![born + 1] =
                [phase |-> "running", differ |-> differ, clean |-> TRUE, verdict |-> "none"]]
    ELSE /\ compare' = Spoiled
         /\ UNCHANGED born

\* The past video is now the one just taken.
Past(kind, shows) ==
    past' = [kind |-> kind, moved |-> shows,
             thread |-> IF born' > born THEN born' ELSE 0, removed |-> FALSE]

ComparePictures ==
    /\ state = "active" /\ pc = "compare"
    /\ Create(moved)
    /\ Past("4s", moved)
    /\ overtaken' = FALSE
    /\ late' = FALSE
    /\ pc' = "verdict"
    /\ UNCHANGED <<state, moved, ComparePicture, flagVars, cameraSem, parser, videosSince>>

\* ENUM_CAMERA_STATE_LONG_VIDEO compares from its second picture on.  Variant:
\* ComparePicture is never set.
CompareLongNever ==
    /\ state = "long_video" /\ pc = "compare"
    /\ UNCHANGED <<ComparePicture, born, compare>>
    /\ Past("10s", FALSE)
    /\ overtaken' = FALSE
    /\ late' = FALSE
    /\ pc' = "verdict"
    /\ UNCHANGED <<state, moved, flagVars, cameraSem, parser, videosSince>>

CompareLong ==
    /\ state = "long_video" /\ pc = "compare"
    /\ IF ComparePicture
       THEN /\ \E differ \in BOOLEAN : Create(differ)
            /\ UNCHANGED ComparePicture
       ELSE /\ ComparePicture' = TRUE
            /\ UNCHANGED <<born, compare>>
    /\ Past("10s", FALSE)
    /\ overtaken' = FALSE
    /\ late' = FALSE
    /\ pc' = "verdict"
    /\ UNCHANGED <<state, moved, flagVars, cameraSem, parser, videosSince>>

\* ACTIVE reads PictureDifferent right after it has started the comparison: it
\* finds an earlier verdict, and then takes the names away from the new one.
VerdictActive ==
    /\ state = "active" /\ pc = "verdict"
    /\ pc' = "suspend"
    /\ IF PictureDifferent
       THEN /\ ComparePicture' = FALSE
            /\ compare' = Spoiled
            /\ state' = "long_video"
       ELSE UNCHANGED <<ComparePicture, compare, state>>
    /\ UNCHANGED <<moved, past, flagVars, cameraSem, parser, born, overtaken, late, videosSince>>

VerdictLong ==
    /\ state = "long_video" /\ pc = "verdict"
    /\ pc' = "alarm"
    /\ state' = IF PictureDifferent THEN state ELSE "active"
    /\ UNCHANGED <<moved, past, ComparePicture, flagVars, cameraSem, parser,
                   compareVars, videosSince>>

\* LONG_VIDEO: under an alarm the video is copied to Alarm.h264.
AlarmCheck ==
    /\ pc = "alarm"
    /\ pc' = "suspend"
    /\ state' = IF Alarm THEN "alarm" ELSE state
    /\ UNCHANGED <<moved, past, ComparePicture, flagVars, cameraSem, parser,
                   compareVars, videosSince>>

\* Variant: only ACTIVE ends with the test of ActiveSentry.
SuspendCheckActiveOnly ==
    /\ pc = "suspend"
    /\ pc' = "top"
    /\ state' = IF ~ActiveSentry /\ state = "active" THEN "suspended" ELSE state
    /\ UNCHANGED <<moved, past, ComparePicture, flagVars, cameraSem, parser,
                   compareVars, videosSince>>

\* Both bodies end, under the SUSPEND semaphore, with a look at ActiveSentry.
SuspendCheck ==
    /\ pc = "suspend"
    /\ pc' = "top"
    /\ state' = IF ActiveSentry THEN state ELSE "suspended"
    /\ UNCHANGED <<moved, past, ComparePicture, flagVars, cameraSem, parser,
                   compareVars, videosSince>>

\* Variant: the test of the alarm is inverted.
InAlarmInverted ==
    /\ state = "alarm" /\ pc = "top"
    /\ state' = IF Alarm THEN "active" ELSE state
    /\ UNCHANGED <<pc, moved, past, ComparePicture, flagVars, cameraSem, parser,
                   compareVars, videosSince>>

\* ENUM_CAMERA_STATE_ALARM waits for the end of the alarm, and for nothing else.
InAlarm ==
    /\ state = "alarm" /\ pc = "top"
    /\ state' = IF Alarm THEN state ELSE "active"
    /\ UNCHANGED <<pc, moved, past, ComparePicture, flagVars, cameraSem, parser,
                   compareVars, videosSince>>

-----------------------------------------------------------------------------
(* ComparePicture_Handler. *)

\* What ComparePicture.py may print: an SSIM below 95 or not, or, when it or
\* popen fails, nothing; on pictures that were renamed or removed, anything.
Outcomes(t) ==
    IF t.clean THEN {IF t.differ THEN "different" ELSE "same", "no_data"}
               ELSE Verdicts \ {"none"}

\* Thread i writes its verdict, if it has one, and exits.
Judge(i) ==
    /\ compare[i].phase = "running"
    /\ \E v \in Outcomes(compare[i]) :
        /\ compare' = [compare EXCEPT ![i] =
                [phase |-> "exited", differ |-> FALSE, clean |-> TRUE, verdict |-> v]]
        /\ PictureDifferent' = IF v = "no_data" THEN PictureDifferent ELSE v = "different"
        /\ overtaken' = (overtaken \/ (/\ v # "no_data"
                                       /\ past.thread # 0
                                       /\ i # past.thread
                                       /\ compare[past.thread].phase = "exited"))
        /\ late' = (late \/ (pc = "remove" /\ i = past.thread /\ v = "different"))
    /\ UNCHANGED <<cameraVars, ActiveSentry, Alarm, cameraSem, parser, born, videosSince>>

-----------------------------------------------------------------------------
(* Commands and signals. *)

\* ActiveSentry is set to b; the history starts anew when it changes.
SetActiveSentry(b) ==
    /\ ActiveSentry' = b
    /\ videosSince' = IF b \/ ActiveSentry THEN 0 ELSE videosSince

\* The parser's suspend and active commands.
ActiveCommand(b) ==
    /\ parser = "idle"
    /\ SetActiveSentry(b)
    /\ UNCHANGED <<cameraVars, Alarm, PictureDifferent, cameraSem, parser, compareVars>>

\* The parser's close_alarm and trigger_alarm commands.
AlarmCommand(b) ==
    /\ parser = "idle"
    /\ Alarm' = b
    /\ UNCHANGED <<cameraVars, ActiveSentry, PictureDifferent, cameraSem, parser,
                   compareVars, videosSince>>

\* take_picture, take_4s, take_6s: P(CAMERA), the shell command, V(CAMERA).
TakeCommand ==
    /\ parser = "idle"
    /\ parser' = "take"
    /\ UNCHANGED <<cameraVars, flagVars, cameraSem, compareVars, videosSince>>

TakeStart ==
    /\ parser = "take"
    /\ cameraSem = "free"
    /\ cameraSem' = "parser"
    /\ UNCHANGED <<cameraVars, flagVars, parser, compareVars, videosSince>>

TakeEnd ==
    /\ cameraSem = "parser"
    /\ cameraSem' = "free"
    /\ parser' = "idle"
    /\ UNCHANGED <<cameraVars, flagVars, compareVars, videosSince>>

\* SIGUSR1: ActiveSentry on; or off, but not under an alarm.
Sigusr1 ==
    /\ ~ActiveSentry \/ ~Alarm
    /\ SetActiveSentry(~ActiveSentry)
    /\ UNCHANGED <<cameraVars, Alarm, PictureDifferent, cameraSem, parser, compareVars>>

\* SIGUSR2: the alarm on or off.
Sigusr2 ==
    /\ Alarm' = ~Alarm
    /\ UNCHANGED <<cameraVars, ActiveSentry, PictureDifferent, cameraSem, parser,
                   compareVars, videosSince>>

-----------------------------------------------------------------------------
Camera ==
    \/ Suspended \/ StartVideo \/ EndVideo \/ TestPast \/ RemovePast
    \/ ComparePictures \/ CompareLong \/ VerdictActive \/ VerdictLong \/ AlarmCheck \/ SuspendCheck \/ InAlarm

Next ==
    \/ Suspended \/ StartVideo \/ EndVideo \/ TestPast \/ RemovePast
    \/ ComparePictures \/ CompareLong \/ VerdictActive \/ VerdictLong \/ AlarmCheck \/ SuspendCheck \/ InAlarm
    \/ \E i \in Comparisons : Judge(i)
    \/ \E b \in BOOLEAN : ActiveCommand(b) \/ AlarmCommand(b)
    \/ TakeCommand \/ TakeStart \/ TakeEnd
    \/ Sigusr1 \/ Sigusr2

\* Threads that can run do; semop serves those who wait for the CAMERA
\* semaphore in their order of arrival, hence the strong fairness of the camera
\* thread and of TakeStart; a comparison ends.  Nobody has to send commands or signals.
Fairness ==
    /\ SF_vars(Camera)
    /\ \A i \in Comparisons : WF_vars(Judge(i))
    /\ SF_vars(TakeStart)
    /\ WF_vars(TakeEnd)

Spec == Init /\ [][Next]_vars

FairSpec == Spec /\ Fairness

-----------------------------------------------------------------------------
(* Properties. *)

\* Once the sentry is suspended at most one more video is started until it is
\* made active again, wherever in its loop, its videos, its comparisons or an
\* alarm the suspension finds the camera.
OneMoreVideo == videosSince <= 1

\* A 4-second video that shows a movement is not removed when its comparison
\* has said "different" by then, unless an older comparison spoke after it, or it
\* spoke itself between the test of the flags and the rm; then its word still
\* stands, for the camera to go over to a long video.
EvidenceKept ==
    [][past'.removed /\ ~past.removed /\ past.thread # 0 =>
            \/ compare[past.thread].verdict # "different"
            \/ overtaken
            \/ late /\ PictureDifferent]_vars

\* A suspension that lasts stops the camera for good, unless an alarm is left
\* open in which the camera waits.
SuspendObeyed ==
    <>[]~ActiveSentry =>
        <>[](state = "suspended") \/ <>[](state = "alarm" /\ Alarm)

\* The camera makes 10-second videos for ever only when no comparison can be
\* started any more: as long as threads can be created it goes on comparing.
LongVideoEnds == <>[](state = "long_video") => <>(born = ThreadLimit)

\* A TAKE command gets the camera between two videos and ends.
TakeServed == parser = "take" ~> parser = "idle"
=============================================================================
