--------------------------- MODULE SentryCameraProofs ---------------------------
(* Proofs about SentryCamera, for every number of comparison threads: types, *)
(* the single video after a suspension, the evidence that is kept.           *)
EXTENDS SentryCamera, TLAPS

\* A comparison that has not ended has no verdict.
VerdictAtExit ==
    \A i \in Comparisons : compare[i].phase # "exited" => compare[i].verdict = "none"

\* The verdict of the past video's comparison is still in PictureDifferent,
\* unless an older comparison spoke after it.
DifferenceStands ==
    past.thread # 0 /\ ~overtaken /\ compare[past.thread].verdict = "different"
        => PictureDifferent

\* On its way to the rm the camera has seen no difference: one that the past video's
\* comparison has found came after the test, or is overtaken.
LateIsNoted ==
    pc = "remove" /\ past.thread # 0 /\ ~overtaken
            /\ compare[past.thread].verdict = "different"
        => late

\* While the sentry is active nothing is counted; and a camera that has started
\* a video since the suspension comes to the top of its loop suspended.
CountedOnce ==
    /\ videosSince \in {0, 1}
    /\ ActiveSentry => videosSince = 0
    /\ pc = "top" /\ videosSince # 0 => state = "suspended"

\* The inductive invariant.
IInv == TypeOK /\ CountedOnce /\ VerdictAtExit /\ DifferenceStands /\ LateIsNoted

-----------------------------------------------------------------------------
\* Spoiling the running comparisons changes no verdict and no phase.
LEMMA SpoiledSame ==
    ASSUME TypeOK
    PROVE  /\ Spoiled \in [Comparisons -> [phase : {"unborn", "running", "exited"},
                              differ : BOOLEAN, clean : BOOLEAN, verdict : Verdicts]]
           /\ \A i \in Comparisons : /\ Spoiled[i].phase = compare[i].phase
                                     /\ Spoiled[i].verdict = compare[i].verdict
  BY DEF TypeOK, Spoiled, Verdicts

\* A comparison is created without a verdict, and the others keep theirs.
LEMMA CreateSame ==
    ASSUME TypeOK, NEW differ \in BOOLEAN, Create(differ)
    PROVE  /\ born' \in 0..ThreadLimit
           /\ born' > born => born' = born + 1 /\ born' \in Comparisons
           /\ compare' \in [Comparisons -> [phase : {"unborn", "running", "exited"},
                              differ : BOOLEAN, clean : BOOLEAN, verdict : Verdicts]]
           /\ born' > born => compare'[born'].verdict = "none"
           /\ VerdictAtExit => VerdictAtExit'
  <1>. USE SpoiledSame, CameraAssumption
  <1>1. CASE born < ThreadLimit
    <2>1. born + 1 \in Comparisons /\ born' = born + 1 /\ born \in Nat
      BY <1>1 DEF TypeOK, Create, Comparisons
    <2>2. compare' = [Spoiled EXCEPT ![born + 1] =
             [phase |-> "running", differ |-> differ, clean |-> TRUE, verdict |-> "none"]]
      BY <1>1 DEF Create
    <2>. QED  BY <2>1, <2>2 DEF TypeOK, Comparisons, Verdicts, VerdictAtExit
  <1>2. CASE ~(born < ThreadLimit)
    BY <1>2 DEF TypeOK, Create, VerdictAtExit
  <1>. QED  BY <1>1, <1>2

\* The invariant holds initially.
LEMMA InitIInv == Init => IInv
<1> SUFFICES ASSUME Init PROVE IInv
  OBVIOUS
<1> USE DEF Init
<1>1. compare \in [Comparisons -> [phase : {"unborn", "running", "exited"},
                     differ : BOOLEAN, clean : BOOLEAN, verdict : Verdicts]]
  BY DEF NoThread, Verdicts
<1>2. past \in [kind : {"none", "4s", "10s"}, moved : BOOLEAN,
                thread : 0..ThreadLimit, removed : BOOLEAN]
  BY CameraAssumption DEF CameraAssumption
<1>3. born \in 0..ThreadLimit
  BY CameraAssumption DEF CameraAssumption
<1>4. TypeOK
  BY <1>1, <1>2, <1>3 DEF TypeOK, States, Pcs
<1>5. VerdictAtExit
  BY DEF VerdictAtExit, NoThread
<1>6. CountedOnce /\ DifferenceStands /\ LateIsNoted
  BY DEF CountedOnce, DifferenceStands, LateIsNoted
<1> QED
  BY <1>4, <1>5, <1>6 DEF IInv

-----------------------------------------------------------------------------
\* Every step keeps the types.
LEMMA TypeNext == TypeOK /\ CountedOnce /\ [Next]_vars => TypeOK'
<1> SUFFICES ASSUME TypeOK, CountedOnce, [Next]_vars PROVE TypeOK'
  OBVIOUS
<1> USE DEF TypeOK, States, Pcs, cameraVars, flagVars, compareVars
<1>1. CASE Suspended \/ StartVideo \/ EndVideo
  <2>1. CASE Suspended
    <3>1. state' \in States /\ ComparePicture' \in BOOLEAN
      BY <2>1 DEF Suspended
    <3> QED
      BY <2>1, <3>1 DEF Suspended
  <2>2. CASE StartVideo
    BY <2>2 DEF StartVideo, CountedOnce
  <2>3. CASE EndVideo
    <3>1. pc' \in Pcs
      BY <2>3 DEF EndVideo
    <3>2. moved' \in BOOLEAN
      BY <2>3 DEF EndVideo
    <3> QED
      BY <2>3, <3>1, <3>2 DEF EndVideo
  <2> QED
    BY <1>1, <2>1, <2>2, <2>3
<1>2. CASE TestPast \/ RemovePast \/ AlarmCheck \/ SuspendCheck \/ InAlarm \/ VerdictLong
  <2>1. CASE TestPast
    <3>1. pc' \in Pcs
      BY <2>1 DEF TestPast
    <3> QED
      BY <2>1, <3>1 DEF TestPast
  <2>6. CASE RemovePast
    <3>1. past' \in [kind : {"none", "4s", "10s"}, moved : BOOLEAN,
                     thread : 0..ThreadLimit, removed : BOOLEAN]
      BY <2>6 DEF RemovePast
    <3> QED
      BY <2>6, <3>1 DEF RemovePast
  <2>2. CASE AlarmCheck
    <3>1. state' \in States
      BY <2>2 DEF AlarmCheck
    <3> QED
      BY <2>2, <3>1 DEF AlarmCheck
  <2>3. CASE SuspendCheck
    BY <2>3 DEF SuspendCheck
  <2>4. CASE InAlarm
    BY <2>4 DEF InAlarm
  <2>5. CASE VerdictLong
    <3>1. state' \in States
      BY <2>5 DEF VerdictLong
    <3> QED
      BY <2>5, <3>1 DEF VerdictLong
  <2> QED
    BY <1>2, <2>1, <2>2, <2>3, <2>4, <2>5, <2>6
<1>3. CASE VerdictActive
  <2>1. state' \in States /\ ComparePicture' \in BOOLEAN
    BY <1>3 DEF VerdictActive
  <2>2. compare' = Spoiled \/ compare' = compare
    BY <1>3 DEF VerdictActive
  <2>3. compare' \in [Comparisons -> [phase : {"unborn", "running", "exited"},
                        differ : BOOLEAN, clean : BOOLEAN, verdict : Verdicts]]
    BY <2>2, SpoiledSame
  <2> QED
    BY <1>3, <2>1, <2>3 DEF VerdictActive
<1>4. CASE ComparePictures
  <2>1. Create(moved) /\ Past("4s", moved) /\ moved \in BOOLEAN
    BY <1>4 DEF ComparePictures
  <2>2. /\ born' \in 0..ThreadLimit
        /\ compare' \in [Comparisons -> [phase : {"unborn", "running", "exited"},
                             differ : BOOLEAN, clean : BOOLEAN, verdict : Verdicts]]
    BY <2>1, CreateSame
  <2>3. past' \in [kind : {"none", "4s", "10s"}, moved : BOOLEAN,
                   thread : 0..ThreadLimit, removed : BOOLEAN]
    BY <2>1, <2>2, CameraAssumption DEF Past, CameraAssumption
  <2> QED
    BY <1>4, <2>2, <2>3 DEF ComparePictures
<1>5. CASE CompareLong
  <2>1. /\ born' \in 0..ThreadLimit
        /\ compare' \in [Comparisons -> [phase : {"unborn", "running", "exited"},
                             differ : BOOLEAN, clean : BOOLEAN, verdict : Verdicts]]
        /\ ComparePicture' \in BOOLEAN
    BY <1>5, CreateSame DEF CompareLong
  <2>2. past' \in [kind : {"none", "4s", "10s"}, moved : BOOLEAN,
                   thread : 0..ThreadLimit, removed : BOOLEAN]
    BY <1>5, <2>1, CameraAssumption DEF CompareLong, Past, CameraAssumption
  <2> QED
    BY <1>5, <2>1, <2>2 DEF CompareLong
<1>6. ASSUME NEW i \in Comparisons, Judge(i) PROVE TypeOK'
  <2>1. PICK v \in Outcomes(compare[i]) :
        /\ compare' = [compare EXCEPT ![i] =
                [phase |-> "exited", differ |-> FALSE, clean |-> TRUE, verdict |-> v]]
        /\ PictureDifferent' = IF v = "no_data" THEN PictureDifferent ELSE v = "different"
    BY <1>6 DEF Judge
  <2>2. v \in Verdicts
    BY DEF Outcomes, Verdicts
  <2>3. PictureDifferent' \in BOOLEAN /\ overtaken' \in BOOLEAN /\ late' \in BOOLEAN
    BY <1>6, <2>1 DEF Judge
  <2> QED
    BY <1>6, <2>1, <2>2, <2>3 DEF Judge
<1>7. ASSUME NEW b \in BOOLEAN, ActiveCommand(b) \/ AlarmCommand(b) PROVE TypeOK'
  BY <1>7 DEF ActiveCommand, AlarmCommand, SetActiveSentry
<1>8. CASE TakeCommand \/ TakeStart \/ TakeEnd
  BY <1>8 DEF TakeCommand, TakeStart, TakeEnd
<1>9. CASE Sigusr1 \/ Sigusr2
  <2>1. CASE Sigusr1
    BY <2>1 DEF Sigusr1, SetActiveSentry
  <2>2. CASE Sigusr2
    BY <2>2 DEF Sigusr2
  <2> QED
    BY <1>9, <2>1, <2>2
<1>10. CASE UNCHANGED vars
  BY <1>10 DEF vars
<1> QED
  BY <1>1, <1>2, <1>3, <1>4, <1>5, <1>6, <1>7, <1>8, <1>9, <1>10 DEF Next

\* Every step keeps the count of the videos since a suspension.
LEMMA CountedNext == TypeOK /\ CountedOnce /\ [Next]_vars => CountedOnce'
<1> SUFFICES ASSUME TypeOK, CountedOnce, [Next]_vars PROVE CountedOnce'
  OBVIOUS
<1> USE DEF TypeOK, CountedOnce, cameraVars, flagVars, compareVars
<1>1. CASE Suspended
  BY <1>1 DEF Suspended
<1>2. CASE StartVideo
  BY <1>2 DEF StartVideo
<1>3. CASE EndVideo \/ TestPast \/ RemovePast \/ ComparePictures \/ CompareLong
  <2>1. CASE EndVideo
    BY <2>1 DEF EndVideo
  <2>2. CASE TestPast
    BY <2>2 DEF TestPast
  <2>5. CASE RemovePast
    BY <2>5 DEF RemovePast
  <2>3. CASE ComparePictures
    BY <2>3 DEF ComparePictures
  <2>4. CASE CompareLong
    BY <2>4 DEF CompareLong
  <2> QED
    BY <1>3, <2>1, <2>2, <2>3, <2>4, <2>5
<1>4. CASE VerdictActive \/ VerdictLong \/ AlarmCheck
  BY <1>4 DEF VerdictActive, VerdictLong, AlarmCheck
<1>5. CASE SuspendCheck
  BY <1>5 DEF SuspendCheck
<1>6. CASE InAlarm
  BY <1>6 DEF InAlarm
<1>7. ASSUME NEW i \in Comparisons, Judge(i) PROVE CountedOnce'
  BY <1>7 DEF Judge
<1>8. ASSUME NEW b \in BOOLEAN, ActiveCommand(b) \/ AlarmCommand(b) PROVE CountedOnce'
  BY <1>8 DEF ActiveCommand, AlarmCommand, SetActiveSentry
<1>9. CASE TakeCommand \/ TakeStart \/ TakeEnd
  BY <1>9 DEF TakeCommand, TakeStart, TakeEnd
<1>10. CASE Sigusr1 \/ Sigusr2
  BY <1>10 DEF Sigusr1, Sigusr2, SetActiveSentry
<1>11. CASE UNCHANGED vars
  BY <1>11 DEF vars
<1> QED
  BY <1>1, <1>2, <1>3, <1>4, <1>5, <1>6, <1>7, <1>8, <1>9, <1>10, <1>11 DEF Next

\* Every step keeps a comparison without a verdict until its end, and the
\* difference that the last comparison found in PictureDifferent.
LEMMA DifferenceNext ==
    TypeOK /\ VerdictAtExit /\ DifferenceStands /\ [Next]_vars
        => VerdictAtExit' /\ DifferenceStands'
<1> SUFFICES ASSUME TypeOK, VerdictAtExit, DifferenceStands, [Next]_vars
             PROVE  VerdictAtExit' /\ DifferenceStands'
  OBVIOUS
<1> USE DEF cameraVars, flagVars, compareVars
<1>1. CASE UNCHANGED <<compare, overtaken, PictureDifferent>> /\ past'.thread = past.thread
  BY <1>1 DEF VerdictAtExit, DifferenceStands
<1>2. CASE Suspended \/ StartVideo \/ EndVideo \/ VerdictLong \/ AlarmCheck
              \/ SuspendCheck \/ InAlarm
  BY <1>1, <1>2 DEF Suspended, StartVideo, EndVideo, VerdictLong, AlarmCheck,
                    SuspendCheck, InAlarm
<1>3. CASE TestPast \/ RemovePast
  BY <1>1, <1>3 DEF TestPast, RemovePast, TypeOK
<1>4. CASE VerdictActive
  <2>1. /\ UNCHANGED <<past, overtaken, PictureDifferent>>
        /\ compare' = Spoiled \/ compare' = compare
    BY <1>4 DEF VerdictActive
  <2>2. past.thread # 0 => past.thread \in Comparisons
    BY DEF TypeOK, Comparisons
  <2>3. \A i \in Comparisons : /\ compare'[i].phase = compare[i].phase
                               /\ compare'[i].verdict = compare[i].verdict
    BY <2>1, SpoiledSame
  <2> QED
    BY <2>1, <2>2, <2>3 DEF VerdictAtExit, DifferenceStands
<1>5. ASSUME NEW differ \in BOOLEAN, NEW kind, NEW shows,
             Create(differ), Past(kind, shows), kind \in {"4s", "10s"}
      PROVE  VerdictAtExit' /\ DifferenceStands'
  BY <1>5, CreateSame DEF Past, DifferenceStands
<1>6. CASE ComparePictures
  BY <1>5, <1>6 DEF ComparePictures, TypeOK
<1>7. CASE CompareLong
  <2>1. CASE ComparePicture
    BY <1>5, <1>7, <2>1 DEF CompareLong
  <2>2. CASE ~ComparePicture
    <3>1. past'.thread = 0 /\ compare' = compare
      BY <1>7, <2>2 DEF CompareLong, Past, TypeOK
    <3> QED
      BY <3>1 DEF VerdictAtExit, DifferenceStands
  <2> QED
    BY <2>1, <2>2
<1>8. ASSUME NEW i \in Comparisons, Judge(i)
      PROVE  VerdictAtExit' /\ DifferenceStands'
  <2>1. PICK v \in Outcomes(compare[i]) :
        /\ compare' = [compare EXCEPT ![i] =
                [phase |-> "exited", differ |-> FALSE, clean |-> TRUE, verdict |-> v]]
        /\ PictureDifferent' = IF v = "no_data" THEN PictureDifferent ELSE v = "different"
        /\ overtaken' = (overtaken \/ (/\ v # "no_data"
                                       /\ past.thread # 0
                                       /\ i # past.thread
                                       /\ compare[past.thread].phase = "exited"))
    BY <1>8 DEF Judge
  <2>2. past' = past /\ compare[i].phase = "running"
    BY <1>8 DEF Judge
  <2>3. past.thread # 0 => past.thread \in Comparisons
    BY DEF TypeOK, Comparisons
  <2>4. VerdictAtExit'
    BY <2>1 DEF VerdictAtExit, TypeOK
  <2>5. ASSUME past.thread # 0, ~overtaken', compare'[past.thread].verdict = "different"
        PROVE  PictureDifferent'
    <3>1. CASE i = past.thread
      BY <2>1, <2>3, <2>5, <3>1 DEF TypeOK
    <3>2. CASE i # past.thread
      BY <2>1, <2>3, <2>5, <3>2 DEF TypeOK, VerdictAtExit, DifferenceStands
    <3> QED
      BY <3>1, <3>2
  <2> QED
    BY <2>2, <2>4, <2>5 DEF DifferenceStands
<1>9. ASSUME NEW b \in BOOLEAN, ActiveCommand(b) \/ AlarmCommand(b)
      PROVE  VerdictAtExit' /\ DifferenceStands'
  BY <1>1, <1>9 DEF ActiveCommand, AlarmCommand
<1>10. CASE TakeCommand \/ TakeStart \/ TakeEnd
  BY <1>1, <1>10 DEF TakeCommand, TakeStart, TakeEnd
<1>11. CASE Sigusr1 \/ Sigusr2
  BY <1>1, <1>11 DEF Sigusr1, Sigusr2
<1>12. CASE UNCHANGED vars
  BY <1>1, <1>12 DEF vars
<1> QED
  BY <1>2, <1>3, <1>4, <1>6, <1>7, <1>8, <1>9, <1>10, <1>11, <1>12 DEF Next

\* Every step keeps the note of a difference that is found too late.
LEMMA LateNext ==
    TypeOK /\ VerdictAtExit /\ DifferenceStands /\ LateIsNoted /\ [Next]_vars
        => LateIsNoted'
<1> SUFFICES ASSUME TypeOK, VerdictAtExit, DifferenceStands, LateIsNoted, [Next]_vars
             PROVE  LateIsNoted'
  OBVIOUS
<1> USE DEF cameraVars, flagVars, compareVars
<1>1. CASE UNCHANGED <<pc, past, compare, overtaken, late>>
  BY <1>1 DEF LateIsNoted
<1>2. CASE pc' # "remove"
  BY <1>2 DEF LateIsNoted
<1>3. CASE TestPast
  <2>1. CASE PictureDifferent
    BY <1>2, <1>3, <2>1 DEF TestPast
  <2>2. CASE ~PictureDifferent
    BY <1>3, <2>2 DEF TestPast, DifferenceStands, LateIsNoted
  <2> QED
    BY <2>1, <2>2
<1>4. CASE Suspended
  BY <1>2, <1>4 DEF Suspended
<1>5. CASE StartVideo \/ EndVideo \/ RemovePast \/ ComparePictures \/ CompareLong
              \/ VerdictActive \/ VerdictLong \/ AlarmCheck \/ SuspendCheck
  BY <1>2, <1>5 DEF StartVideo, EndVideo, RemovePast, ComparePictures, CompareLong,
                    VerdictActive, VerdictLong, AlarmCheck, SuspendCheck
<1>6. CASE InAlarm
  BY <1>2, <1>6 DEF InAlarm
<1>7. ASSUME NEW i \in Comparisons, Judge(i) PROVE LateIsNoted'
  <2>1. PICK v \in Outcomes(compare[i]) :
        /\ compare' = [compare EXCEPT ![i] =
                [phase |-> "exited", differ |-> FALSE, clean |-> TRUE, verdict |-> v]]
        /\ overtaken' = (overtaken \/ (/\ v # "no_data"
                                       /\ past.thread # 0
                                       /\ i # past.thread
                                       /\ compare[past.thread].phase = "exited"))
        /\ late' = (late \/ (pc = "remove" /\ i = past.thread /\ v = "different"))
    BY <1>7 DEF Judge
  <2>2. pc' = pc /\ past' = past
    BY <1>7 DEF Judge
  <2>3. past.thread # 0 => past.thread \in Comparisons
    BY DEF TypeOK, Comparisons
  <2>4. ASSUME pc = "remove", past.thread # 0, ~overtaken',
               compare'[past.thread].verdict = "different"
        PROVE  late'
    <3>1. CASE i = past.thread
      BY <2>1, <2>3, <2>4, <3>1 DEF TypeOK
    <3>2. CASE i # past.thread
      BY <2>1, <2>3, <2>4, <3>2 DEF TypeOK, LateIsNoted
    <3> QED
      BY <3>1, <3>2
  <2> QED
    BY <2>2, <2>4 DEF LateIsNoted
<1>8. ASSUME NEW b \in BOOLEAN, ActiveCommand(b) \/ AlarmCommand(b) PROVE LateIsNoted'
  BY <1>1, <1>8 DEF ActiveCommand, AlarmCommand
<1>9. CASE TakeCommand \/ TakeStart \/ TakeEnd \/ Sigusr1 \/ Sigusr2 \/ UNCHANGED vars
  BY <1>1, <1>9 DEF TakeCommand, TakeStart, TakeEnd, Sigusr1, Sigusr2, vars
<1> QED
  BY <1>3, <1>4, <1>5, <1>6, <1>7, <1>8, <1>9 DEF Next

\* The invariant is inductive, and holds in every state.
LEMMA Inductive == Spec => []IInv
<1>1. IInv /\ [Next]_vars => IInv'
  BY TypeNext, CountedNext, DifferenceNext, LateNext DEF IInv
<1> QED
  BY InitIInv, <1>1, PTL DEF Spec

-----------------------------------------------------------------------------
\* Every variable keeps its type, however many comparison threads the process
\* can create.
THEOREM TypeCorrect == Spec => []TypeOK
<1>1. IInv => TypeOK
  BY DEF IInv
<1> QED
  BY Inductive, <1>1, PTL

\* Once the sentry is suspended at most one more video is started until it is
\* active again, wherever in SentryMode_Handler the suspension falls.
THEOREM SuspendedAfterOneVideo == Spec => []OneMoreVideo
<1>1. IInv => OneMoreVideo
  BY DEF IInv, CountedOnce, OneMoreVideo
<1> QED
  BY Inductive, <1>1, PTL

\* A video in which its own comparison has found something is removed only when an
\* older comparison has spoken after it, or when it spoke between the test and the
\* rm; in the latter case PictureDifferent still holds what it said.
THEOREM EvidenceSafe == Spec => EvidenceKept
<1> DEFINE Loss == past'.removed /\ ~past.removed /\ past.thread # 0
                   /\ compare[past.thread].verdict = "different" /\ ~overtaken
                   /\ ~(late /\ PictureDifferent)
<1>1. IInv /\ [Next]_vars => ~Loss
  <2> SUFFICES ASSUME IInv, [Next]_vars, Loss PROVE FALSE
    OBVIOUS
  <2> USE DEF IInv, TypeOK, cameraVars, flagVars, compareVars
  <2>1. past' # past
    OBVIOUS
  <2>2. CASE RemovePast
    BY <2>2 DEF RemovePast, DifferenceStands, LateIsNoted
  <2>3. CASE ComparePictures \/ CompareLong
    BY <2>3 DEF ComparePictures, CompareLong, Past
  <2>4. CASE Suspended \/ TestPast \/ StartVideo \/ EndVideo \/ VerdictActive \/ VerdictLong
               \/ AlarmCheck \/ SuspendCheck \/ InAlarm
    BY <2>1, <2>4 DEF Suspended, TestPast, StartVideo, EndVideo, VerdictActive,
                      VerdictLong, AlarmCheck, SuspendCheck, InAlarm
  <2>5. ASSUME NEW i \in Comparisons, Judge(i) PROVE FALSE
    BY <2>1, <2>5 DEF Judge
  <2>6. ASSUME NEW b \in BOOLEAN, ActiveCommand(b) \/ AlarmCommand(b) PROVE FALSE
    BY <2>1, <2>6 DEF ActiveCommand, AlarmCommand
  <2>7. CASE TakeCommand \/ TakeStart \/ TakeEnd \/ Sigusr1 \/ Sigusr2
    BY <2>1, <2>7 DEF TakeCommand, TakeStart, TakeEnd, Sigusr1, Sigusr2
  <2>8. CASE UNCHANGED vars
    BY <2>1, <2>8 DEF vars
  <2> QED
    BY <2>2, <2>3, <2>4, <2>5, <2>6, <2>7, <2>8 DEF Next
<1>2. IInv /\ [Next]_vars =>
        [past'.removed /\ ~past.removed /\ past.thread # 0 =>
            \/ compare[past.thread].verdict # "different"
            \/ overtaken
            \/ late /\ PictureDifferent]_vars
  BY <1>1
<1> QED
  BY Inductive, <1>2, PTL DEF Spec, EvidenceKept
=============================================================================
