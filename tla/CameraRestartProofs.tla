-------------------------- MODULE CameraRestartProofs --------------------------
(***************************************************************************)
(* Proofs, for any callers, commands and number of restarts, that a        *)
(* SentryMode that comes back is found (Reconnected), that camera_ctl ends *)
(* the server only when SentryMode comes or goes or its queue is removed   *)
(* (ExitNeedsARace), that the types are right (RestartTypeOK) and that no  *)
(* command is executed for nobody without a cause (GhostsHaveACause).      *)
(*                                                                         *)
(* The first two follow a caller in whose opening SentryMode has not       *)
(* changed, along the globals its call shares with those of the others.    *)
(* The last compares the messages under way with the calls that wait:      *)
(* where CameraChannel has an equation (MessagePerCall) there is a bound   *)
(* left, and where it has one sleeper (OneSleeper) there is a list.        *)
(***************************************************************************)
EXTENDS CameraRestart, CameraChannelProofs

\* The segments there are have been made.
Numbered ==
    /\ lastSegment \in Nat /\ faults \in Nat
    /\ segment \in Nat /\ segment <= lastSegment
    /\ sentrySegment \in Nat /\ sentrySegment <= lastSegment
    /\ \A s \in published : s \in Nat /\ s # 0 /\ s <= lastSegment

\* The server's handler has removed the queue.
Removed == "queue removed" \in mishaps

\* While SentryMode runs its segment is the one of the key, unless the server's
\* handler has taken it off, and a segment that a caller can get by the key names
\* the queue only as long as the queue is there or that handler has removed it.
Serving ==
    /\ sentry \in {"created", "cleared", "up"} =>
          /\ sentrySegment # 0
          /\ segment = sentrySegment \/ segment \notin published
          /\ queueThere \/ Removed
    /\ sentry = "up" => sentrySegment \in published
    /\ sentry = "stopping" => segment \notin published
    /\ segment \in published => queueThere \/ Removed

\* What a caller has found on its way is still there, although other calls write
\* the same globals.
OnTheWay(c) ==
    c \in Opening =>
        /\ shmid = segment /\ segment # 0
        /\ opening[c] \in {"shmat", "done"} => mapped = segment
        /\ opening[c] = "done" /\ sentry = "up" /\ segment = sentrySegment =>
              MessageQueueId = "command"

RInv ==
    /\ pc \in [Callers -> CallerPcs]
    /\ opening \in [Callers -> {"no", "shmget", "shmat", "done"}]
    /\ Numbered /\ Serving
    /\ \A c \in Callers \ disturbed : OnTheWay(c)

-----------------------------------------------------------------------------
\* A system call on the queue keeps the counters of the callers in their type and
\* leaves no caller idle that was not.
LEMMA QueueCalls ==
    ASSUME NEW callerPc \in [Callers -> CallerPcs], pc \in [Callers -> CallerPcs],
           NEW m, NEW t, NEW ppc,
           \/ Msgsnd(m, callerPc, ppc)
           \/ Msgrcv(t, callerPc, ppc),
           \A c \in Callers : callerPc[c] = "idle" => pc[c] = "idle"
    PROVE  /\ pc' \in [Callers -> CallerPcs]
           /\ \A c \in Callers : pc'[c] = "idle" => pc[c] = "idle"
<1>1. ASSUME NEW u, NEW n, NEW q \in [Callers -> CallerPcs], NEW p, Deliver(u, n, q, p),
             \A c \in Callers : q[c] = "idle" => pc[c] = "idle"
      PROVE  /\ pc' \in [Callers -> CallerPcs]
             /\ \A c \in Callers : pc'[c] = "idle" => pc[c] = "idle"
  <2>1. pc' = q \/ pc' = [q EXCEPT ![u] = "got"]
    BY <1>1 DEF Deliver
  <2> QED
    BY <1>1, <2>1 DEF CallerPcs
<1>2. \/ \E u, n, p : Deliver(u, n, callerPc, p) \/ Deliver(u, n, pc, p)
      \/ pc' = callerPc
  BY DEF Msgsnd, Msgrcv
<1> QED
  BY <1>1, <1>2

\* The steps of camera_ctl and of the parser on the queue.
LEMMA ChannelSteps ==
    ASSUME RInv,
           \/ \E c \in Callers, k \in Commands : CallSet(c, k)
           \/ \E c \in Callers : CallDispatch(c) \/ CallReceive(c) \/ CallReturn(c)
           \/ ParserStep
    PROVE  RInv'
<1> DEFINE Kept ==
       /\ pc' \in [Callers -> CallerPcs]
       /\ opening' \in [Callers -> {"no", "shmget", "shmat", "done"}]
       /\ \A c \in Opening' :
             /\ c \in Opening /\ opening'[c] = opening[c]
             /\ c \in disturbed => c \in disturbed'
<1>1. /\ pc \in [Callers -> CallerPcs]
      /\ opening \in [Callers -> {"no", "shmget", "shmat", "done"}]
  BY DEF RInv
<1>2. ipcUnchanged
  BY DEF CallSet, CallDispatch, CallReceive, CallReturn, ParserStep
<1>3. Kept
  <2>1. ASSUME NEW d \in Callers, NEW k \in Commands, CallSet(d, k) PROVE Kept
    BY <1>1, <2>1 DEF CallSet, SetCommand, CallerPcs, Opening
  <2>2. ASSUME NEW d \in Callers, CallDispatch(d) PROVE Kept
    <3>1. opening' = opening /\ disturbed' = disturbed
      BY <2>2 DEF CallDispatch
    <3>2. CASE Dispatch(d)
      <4> DEFINE q == [pc EXCEPT ![d] = "sent"]
      <4>1. q \in [Callers -> CallerPcs] /\ \A c \in Callers : q[c] = "idle" => pc[c] = "idle"
        BY <1>1 DEF CallerPcs
      <4>2. Msgsnd(Request(CommandNumber), q, parserPc)
        BY <3>2 DEF Dispatch
      <4> HIDE DEF q
      <4> QED
        BY <1>1, <3>1, <4>1, <4>2, QueueCalls DEF Opening
    <3>3. CASE ~Dispatch(d)
      BY <1>1, <2>2, <3>1, <3>3 DEF CallDispatch, CallerPcs, Opening
    <3> QED
      BY <3>2, <3>3
  <2>3. ASSUME NEW d \in Callers, CallReceive(d) PROVE Kept
    <3>1. opening' = opening /\ disturbed' = disturbed
      BY <2>3 DEF CallReceive
    <3>2. CASE Receive(d)
      <4> DEFINE q == [pc EXCEPT ![d] = "asleep"]
      <4>1. q \in [Callers -> CallerPcs] /\ \A c \in Callers : q[c] = "idle" => pc[c] = "idle"
        BY <1>1 DEF CallerPcs
      <4>2. Msgrcv(d, q, parserPc)
        BY <3>2 DEF Receive
      <4> HIDE DEF q
      <4> QED
        BY <1>1, <3>1, <4>1, <4>2, QueueCalls DEF Opening
    <3>3. CASE ~Receive(d)
      BY <1>1, <2>3, <3>1, <3>3 DEF CallReceive, CallerPcs, Opening
    <3> QED
      BY <3>2, <3>3
  <2>4. ASSUME NEW d \in Callers, CallReturn(d) PROVE Kept
    BY <1>1, <2>4 DEF CallReturn, Return, CallerPcs, Opening
  <2>5. CASE ParserStep
    <3>1. opening' = opening /\ disturbed' = disturbed
      BY <2>5 DEF ParserStep
    <3>2. CASE ParserExecute
      BY <1>1, <3>1, <3>2 DEF ParserExecute, callerVars, Opening
    <3>3. CASE ParserReceive
      BY <1>1, <3>1, <3>3, QueueCalls DEF ParserReceive, Opening
    <3>4. CASE ParserReply
      BY <1>1, <3>1, <3>4, QueueCalls DEF ParserReply, Opening
    <3>5. CASE ParserWithoutQueue
      BY <1>1, <3>1, <3>5 DEF ParserWithoutQueue, callerVars, Opening
    <3> QED
      BY <2>5, <3>2, <3>3, <3>4, <3>5 DEF ParserStep
  <2> QED
    BY <2>1, <2>2, <2>3, <2>4, <2>5
<1>4. ASSUME NEW c \in Callers \ disturbed' PROVE OnTheWay(c)'
  BY <1>2, <1>3, <1>4 DEF RInv, OnTheWay, ipcUnchanged, memoryVars, queueVars, processVars
<1>5. Numbered' /\ Serving'
  BY <1>2 DEF RInv, Numbered, Serving, Removed, ipcUnchanged, memoryVars, queueVars, processVars
<1> QED
  BY <1>3, <1>4, <1>5 DEF RInv

\* The server's process is gone, its handler having removed the queue and taken
\* the segment off the key or not.
Gone ==
    /\ CallersGone
    /\ QueueRemoved \/ QueueStays
    /\ segment' \in {segment, 0}
    /\ UNCHANGED <<RxCommand, flagVars, sentry, sentrySegment, lastSegment, published>>

\* That is how it ends in every way there is.
LEMMA WaysToGo ==
    ASSUME NoCallers \/ ServerInterrupted
    PROVE  Gone
  BY DEF NoCallers, ServerInterrupted, Gone

\* The end of the server keeps the invariant.
LEMMA ServerGone == RInv /\ Gone /\ faults' \in Nat => RInv'
<1> SUFFICES ASSUME RInv, Gone, faults' \in Nat PROVE RInv'
  OBVIOUS
<1>1. /\ pc' = [c \in Callers |-> "idle"] /\ opening' = [c \in Callers |-> "no"]
      /\ segment' \in {segment, 0}
      /\ UNCHANGED <<sentry, sentrySegment, lastSegment, published>>
      /\ queueThere' = queueThere \/ Removed'
      /\ Removed => Removed'
  BY DEF Gone, CallersGone, QueueRemoved, QueueStays, Removed
<1>2. Numbered' /\ 0 \notin published
  BY <1>1 DEF RInv, Numbered
<1>4. Serving'
  BY <1>1, <1>2 DEF RInv, Serving
<1>3. \A c \in Callers : OnTheWay(c)'
  BY <1>1 DEF OnTheWay, Opening
<1> QED
  BY <1>1, <1>2, <1>3, <1>4 DEF RInv, CallerPcs

\* The steps of the opening.
LEMMA OpeningSteps ==
    ASSUME RInv, NEW d \in Callers, Shmget(d) \/ Shmat(d) \/ Msgget(d)
    PROVE  RInv'
<1>1. /\ pc \in [Callers -> CallerPcs] /\ Numbered /\ Serving
      /\ opening \in [Callers -> {"no", "shmget", "shmat", "done"}]
  BY DEF RInv
<1>2. CASE Shmget(d)
  <2>1. /\ pc' = pc /\ opening' = [opening EXCEPT ![d] = "shmget"] /\ disturbed' = disturbed
        /\ faults' = faults /\ sentry' = sentry /\ sentrySegment' = sentrySegment /\ published' = published
        /\ queueThere' = queueThere /\ MessageQueueId' = MessageQueueId /\ mapped' = mapped
        /\ shmid' = segment' /\ Removed' = Removed
        /\ segment' = (IF segment = 0 THEN lastSegment + 1 ELSE segment)
        /\ lastSegment' = (IF segment = 0 THEN lastSegment + 1 ELSE lastSegment)
    BY <1>2 DEF Shmget, ShmgetCreates, Removed, vars, callerVars, queueVars, processVars,
                causeVars
  <2>2. /\ Numbered' /\ segment' # 0
        /\ segment' # segment =>
              segment = 0 /\ segment' \notin published /\ segment' # sentrySegment
    BY <1>1, <2>1 DEF Numbered
  <2>3. Serving'
    BY <1>1, <2>1, <2>2 DEF Serving
  <2>4. ASSUME NEW c \in Callers \ disturbed' PROVE OnTheWay(c)'
    BY <1>1, <2>1, <2>2, <2>4 DEF RInv, OnTheWay, Opening
  <2> QED
    BY <1>1, <2>1, <2>2, <2>3, <2>4 DEF RInv
<1>3. CASE Shmat(d)
  <2>0. faults' = faults
    BY <1>3 DEF Shmat, causeVars
  <2>1. CASE NoCallers
    BY <1>1, <2>1, <2>0, WaysToGo, ServerGone DEF Numbered
  <2>2. CASE ~NoCallers
    <3>1. /\ pc' = pc /\ opening' = [opening EXCEPT ![d] = "shmat"] /\ disturbed' = disturbed
          /\ opening[d] = "shmget" /\ mapped' = shmid /\ shmid' = shmid
          /\ UNCHANGED <<sentry, sentrySegment, published, queueThere, MessageQueueId,
                         segment, lastSegment, Removed>>
      BY <1>3, <2>2 DEF Shmat, Removed, vars, callerVars, queueVars, processVars, causeVars
    <3>2. Numbered' /\ Serving'
      BY <1>1, <2>0, <3>1 DEF Numbered, Serving
    <3>3. ASSUME NEW c \in Callers \ disturbed' PROVE OnTheWay(c)'
      BY <1>1, <3>1, <3>3 DEF RInv, OnTheWay, Opening
    <3> QED
      BY <1>1, <3>1, <3>2, <3>3 DEF RInv
  <2> QED
    BY <2>1, <2>2
<1>4. CASE Msgget(d)
  <2>0. faults' = faults
    BY <1>4 DEF Msgget
  <2>1. CASE NoCallers
    BY <1>1, <2>1, <2>0, WaysToGo, ServerGone DEF Numbered
  <2>2. CASE ~NoCallers
    <3>1. /\ pc' = pc /\ opening' = [opening EXCEPT ![d] = "done"] /\ disturbed' = disturbed
          /\ opening[d] = "shmat" /\ mapped' = mapped /\ shmid' = shmid
          /\ MessageQueueId' = (IF mapped \in published THEN "command" ELSE "private")
          /\ Removed => Removed'
          /\ UNCHANGED <<sentry, sentrySegment, published, queueThere, segment, lastSegment>>
      BY <1>4, <2>2 DEF Msgget, Removed, vars, callerVars, memoryVars, processVars
    <3>2. Numbered' /\ Serving'
      BY <1>1, <2>0, <3>1 DEF Numbered, Serving
    <3>3. ASSUME NEW c \in Callers \ disturbed' PROVE OnTheWay(c)'
      BY <1>1, <3>1, <3>3 DEF RInv, OnTheWay, Opening, Serving
    <3> QED
      BY <1>1, <3>1, <3>2, <3>3 DEF RInv
  <2> QED
    BY <2>1, <2>2
<1> QED
  BY <1>2, <1>3, <1>4

\* When SentryMode changes, every caller in its opening is disturbed.
LEMMA AllDisturbed ==
    ASSUME Disturb, opening' = opening,
           \A c \in Callers : pc'[c] = "idle" => pc[c] = "idle"
    PROVE  \A c \in Callers \ disturbed' : OnTheWay(c)'
  BY DEF Disturb, Opening, OnTheWay

\* The ends and the starts of SentryMode.
LEMMA SentrySteps ==
    ASSUME RInv,
           \/ SentryStarts \/ SentryClears \/ SentryPublishes
           \/ SentryInterrupted \/ SentryExits \/ SentryKilled
    PROVE  RInv'
<1>1. /\ pc \in [Callers -> CallerPcs] /\ Numbered /\ Serving
      /\ opening \in [Callers -> {"no", "shmget", "shmat", "done"}]
  BY DEF RInv
<1>2. Disturb /\ opening' = opening
  BY DEF SentryStarts, SentryClears, SentryPublishes, SentryInterrupted, SentryExits,
         SentryKilled, NoSentry
<1>3. /\ pc' \in [Callers -> CallerPcs]
      /\ \A c \in Callers : pc'[c] = "idle" => pc[c] = "idle"
  <2>1. CASE SentryExits
    BY <1>1, <2>1 DEF SentryExits, CallerPcs
  <2>2. CASE ~SentryExits
    <3>1. pc' = pc
      BY <2>2 DEF SentryStarts, SentryClears, SentryPublishes, SentryInterrupted,
                  SentryKilled, vars, callerVars
    <3> QED
      BY <1>1, <3>1
  <2> QED
    BY <2>1, <2>2
<1>4. Numbered' /\ Serving'
  <2>1. CASE SentryStarts
    <3>1. /\ segment' = (IF segment = 0 THEN lastSegment + 1 ELSE segment)
          /\ lastSegment' = (IF segment = 0 THEN lastSegment + 1 ELSE lastSegment)
          /\ faults' = faults /\ published' = published
          /\ sentry' = "created" /\ sentrySegment' = segment' /\ queueThere' = TRUE
      BY <2>1 DEF SentryStarts, ShmgetCreates
    <3>2. Numbered' /\ segment' # 0
      BY <1>1, <3>1 DEF Numbered
    <3> QED
      BY <3>1, <3>2 DEF Serving
  <2>2. CASE SentryClears \/ SentryPublishes
    <3>1. /\ sentry \in {"created", "cleared"} /\ sentry' \in {"cleared", "up"}
          /\ published' \subseteq published \cup {sentrySegment}
          /\ sentry' = "up" => sentrySegment \in published'
          /\ UNCHANGED <<segment, lastSegment, sentrySegment, queueThere, Removed, faults>>
      BY <2>2 DEF SentryClears, SentryPublishes, Removed, queueVars
    <3>2. Numbered'
      BY <1>1, <3>1 DEF Numbered, Serving
    <3> QED
      BY <1>1, <3>1, <3>2 DEF Serving
  <2>3. CASE SentryInterrupted
    <3>1. /\ sentry \in {"created", "cleared", "up"} /\ sentry' = "stopping"
          /\ segment' = IF segment = sentrySegment THEN 0 ELSE segment
          /\ faults' = faults + 1
          /\ UNCHANGED <<lastSegment, sentrySegment, published>>
      BY <2>3 DEF SentryInterrupted
    <3>2. Numbered' /\ 0 \notin published
      BY <1>1, <3>1 DEF Numbered
    <3> QED
      BY <1>1, <3>1, <3>2 DEF Serving
  <2>4. CASE SentryExits \/ SentryKilled
    <3>1. /\ sentry' = "down" /\ sentrySegment' = 0
          /\ UNCHANGED <<lastSegment, segment, published>>
          /\ faults' \in {faults, faults + 1}
          /\ queueThere' = queueThere \/ sentry = "stopping"
          /\ Removed => Removed'
      BY <2>4 DEF SentryExits, SentryKilled, NoSentry, Removed, memoryVars, queueVars
    <3>2. Numbered'
      BY <1>1, <3>1 DEF Numbered
    <3> QED
      BY <1>1, <3>1, <3>2 DEF Serving
  <2> QED
    BY <2>1, <2>2, <2>3, <2>4
<1> QED
  BY <1>1, <1>2, <1>3, <1>4, AllDisturbed DEF RInv

\* Every step keeps the invariant.
LEMMA RestartNextInv == RInv /\ [RestartNext]_restartVars => RInv'
<1> SUFFICES ASSUME RInv, [RestartNext]_restartVars PROVE RInv'
  OBVIOUS
<1>1. CASE UNCHANGED restartVars
  BY <1>1 DEF RInv, Numbered, Serving, Removed, OnTheWay, Opening, restartVars, vars, callerVars, memoryVars, queueVars,
              processVars, causeVars
<1>2. CASE ServerEnds \/ ServerInterrupted
  <2>1. Gone /\ faults' = faults + 1
    BY <1>2, WaysToGo DEF ServerEnds, ServerInterrupted
  <2> QED
    BY <2>1, ServerGone DEF RInv, Numbered
<1>3. CASE ServerStarts
  <2>1. UNCHANGED <<pc, opening, disturbed, sentry, sentrySegment, queueThere, MessageQueueId,
                    segment, lastSegment, published, mapped, shmid, mishaps, faults>>
    BY <1>3 DEF ServerStarts, vars, callerVars, memoryVars, queueVars, causeVars
  <2> QED
    BY <2>1 DEF RInv, Numbered, Serving, Removed, OnTheWay, Opening
<1>4. CASE \/ SentryStarts \/ SentryClears \/ SentryPublishes
           \/ SentryInterrupted \/ SentryExits \/ SentryKilled
  BY <1>4, SentrySteps
<1>5. CASE \E c \in Callers : Shmget(c) \/ Shmat(c) \/ Msgget(c)
  BY <1>5, OpeningSteps
<1>6. CASE \/ \E c \in Callers, k \in Commands : CallSet(c, k)
           \/ \E c \in Callers : CallDispatch(c) \/ CallReceive(c) \/ CallReturn(c)
           \/ ParserStep
  BY <1>6, ChannelSteps
<1> QED
  BY <1>1, <1>2, <1>3, <1>4, <1>5, <1>6 DEF RestartNext

\* However often server and SentryMode end and start, and at whatever point of how
\* many calls: a call opened while SentryMode is up and its segment is the one of the
\* key reaches its queue.
THEOREM SentryFoundAgain == RestartSpec => []Reconnected
<1>1. RestartInit => RInv
  BY RestartAssumption DEF RestartInit, Init, RInv, Numbered, Serving, OnTheWay, Opening, CallerPcs
<1>2. RInv => Reconnected
  BY DEF RInv, OnTheWay, Opening, Reconnected
<1> QED
  BY <1>1, <1>2, RestartNextInv, PTL DEF RestartSpec

\* camera_ctl ends the server only when SentryMode has come or gone while some
\* call was opening the channel, or an earlier server's handler has removed the
\* queue: without that the segment and the queue that shmget has led to are there
\* for shmat and msgget.
THEOREM ServerExitsByRace == RestartSpec => ExitNeedsARace
<1>1. RestartInit => RInv
  BY RestartAssumption DEF RestartInit, Init, RInv, Numbered, Serving, OnTheWay, Opening, CallerPcs
<1>2. ASSUME RInv, [RestartNext]_restartVars, serverUp, ~serverUp', faults' = faults
      PROVE  disturbed # {} \/ "queue removed" \in mishaps
  <2>1. PICK c \in Callers :
           \/ opening[c] = "shmget" /\ ~Exists(shmid)
           \/ opening[c] = "shmat" /\ mapped \in published /\ ~queueThere
    <3>1. CASE ServerEnds \/ ServerInterrupted
      BY <1>2, <3>1 DEF ServerEnds, ServerInterrupted, RInv, Numbered
    <3>2. CASE \E c \in Callers : Shmget(c) \/ Shmat(c) \/ Msgget(c)
      BY <1>2, <3>2 DEF Shmget, Shmat, Msgget, processVars
    <3>3. CASE \/ SentryStarts \/ SentryClears \/ SentryPublishes
               \/ SentryInterrupted \/ SentryExits \/ SentryKilled
      BY <1>2, <3>3 DEF SentryStarts, SentryClears, SentryPublishes, SentryInterrupted,
                        SentryExits, SentryKilled
    <3>4. CASE \/ \E c \in Callers, k \in Commands : CallSet(c, k)
               \/ \E c \in Callers : CallDispatch(c) \/ CallReceive(c) \/ CallReturn(c)
               \/ ParserStep
      BY <1>2, <3>4 DEF CallSet, CallDispatch, CallReceive, CallReturn, ParserStep,
                        ipcUnchanged, processVars
    <3>5. CASE ServerStarts \/ UNCHANGED restartVars
      BY <1>2, <3>5 DEF ServerStarts, restartVars, processVars
    <3> QED
      BY <1>2, <3>1, <3>2, <3>3, <3>4, <3>5 DEF RestartNext
  <2>2. c \in Opening
    BY <2>1 DEF Opening
  <2>3. ~OnTheWay(c) \/ "queue removed" \in mishaps
    BY <1>2, <2>1, <2>2 DEF OnTheWay, Exists, RInv, Serving, Removed
  <2> QED
    BY <1>2, <2>3 DEF RInv
<1>3. RInv /\ [RestartNext]_restartVars
        => [serverUp /\ ~serverUp' /\ faults' = faults
              => disturbed # {} \/ "queue removed" \in mishaps]_restartVars
  BY <1>2
<1> QED
  BY <1>1, <1>3, RestartNextInv, PTL DEF RestartSpec, ExitNeedsARace
-----------------------------------------------------------------------------
(* The kernel's list of sleepers. *)

\* Who is on the list sleeps, and is on it once.
Listed ==
    /\ \A i \in 1..Len(sleepers) : sleepers[i] \in Asleep
    /\ \A i, j \in 1..Len(sleepers) : sleepers[i] = sleepers[j] => i = j

\* Between its two reads of CommandNumber a call finds some command there.
CommandGiven == \A c \in Callers : pc[c] = "set" => CommandNumber \in Commands

\* The state of the channel as it is in CameraChannel, but for the equations.
ChannelShape == TypeOK /\ CommandGiven /\ Listed

\* The list stays as it is.
LEMMA ListKept ==
    ASSUME Listed, sleepers' = sleepers, Asleep \subseteq Asleep'
    PROVE  Listed'
  BY DEF Listed

\* Its first thread is woken.
LEMMA ListTail ==
    ASSUME TypeOK, Listed, sleepers # <<>>, sleepers' = Tail(sleepers),
           Asleep \ {Head(sleepers)} \subseteq Asleep'
    PROVE  Listed'
<1>1. /\ sleepers \in Seq(Callers \cup {Parser}) /\ Len(sleepers) \in Nat \ {0}
      /\ Head(sleepers) = sleepers[1]
      /\ Len(sleepers') = Len(sleepers) - 1
      /\ \A i \in 1..Len(sleepers') : sleepers'[i] = sleepers[i + 1]
  BY DEF TypeOK
<1>2. \A i \in 1..Len(sleepers') : i + 1 \in 1..Len(sleepers) /\ i + 1 # 1
  BY <1>1
<1>3. \A i \in 1..Len(sleepers') : sleepers'[i] \in Asleep'
  BY <1>1, <1>2 DEF Listed
<1>4. \A i, j \in 1..Len(sleepers') : sleepers'[i] = sleepers'[j] => i = j
  BY <1>1, <1>2 DEF Listed
<1> QED
  BY <1>3, <1>4 DEF Listed

\* A thread t falls asleep.
LEMMA ListAppend ==
    ASSUME TypeOK, Listed, NEW t \in Callers \cup {Parser}, t \notin Asleep,
           sleepers' = Append(sleepers, t), Asleep \cup {t} \subseteq Asleep'
    PROVE  Listed'
<1>1. /\ Len(sleepers) \in Nat /\ Len(sleepers') = Len(sleepers) + 1
      /\ sleepers'[Len(sleepers) + 1] = t
      /\ \A i \in 1..Len(sleepers) : sleepers'[i] = sleepers[i]
  BY DEF TypeOK
<1>2. \A i \in 1..Len(sleepers') : i \in 1..Len(sleepers) \/ i = Len(sleepers) + 1
  BY <1>1
<1>3. \A i \in 1..Len(sleepers') : sleepers'[i] \in Asleep'
  BY <1>1, <1>2 DEF Listed
<1>4. \A i, j \in 1..Len(sleepers') : sleepers'[i] = sleepers'[j] => i = j
  BY <1>1, <1>2 DEF Listed
<1> QED
  BY <1>3, <1>4 DEF Listed

\* The parser dies in its sleep.
LEMMA ListRemove ==
    ASSUME TypeOK, Listed, ParserLeavesList, Asleep \ {Parser} \subseteq Asleep'
    PROVE  Listed' /\ sleepers' \in Seq(Callers \cup {Parser})
<1>1. sleepers \in Seq(Callers \cup {Parser}) /\ Len(sleepers) \in Nat
  BY DEF TypeOK
<1>2. CASE Parser \notin ToSet(sleepers) /\ UNCHANGED sleepers
  <2>1. \A i \in 1..Len(sleepers) : sleepers[i] # Parser
    BY <1>1, <1>2 DEF ToSet
  <2> QED
    BY <1>1, <1>2, <2>1 DEF Listed
<1>3. ASSUME NEW k \in 1..Len(sleepers), sleepers[k] = Parser,
             sleepers' = RemoveAt(sleepers, k)
      PROVE  Listed' /\ sleepers' \in Seq(Callers \cup {Parser})
  <2> DEFINE n     == Len(sleepers)
             Old(i) == IF i < k THEN i ELSE i + 1
             front == SubSeq(sleepers, 1, k - 1)
             back  == SubSeq(sleepers, k + 1, n)
  <2>1. /\ front \in Seq(Callers \cup {Parser}) /\ Len(front) = k - 1
        /\ \A i \in 1..(k - 1) : front[i] = sleepers[i]
    BY <1>1
  <2>2. /\ back \in Seq(Callers \cup {Parser}) /\ Len(back) = n - k
        /\ \A i \in 1..(n - k) : back[i] = sleepers[k + i]
    BY <1>1
  <2>3. sleepers' = front \o back
    BY <1>3 DEF RemoveAt
  <2> HIDE DEF front, back
  <2>4. /\ sleepers' \in Seq(Callers \cup {Parser}) /\ Len(sleepers') = n - 1
        /\ \A i \in 1..(n - 1) : sleepers'[i] = sleepers[Old(i)]
    <3>1. /\ sleepers' \in Seq(Callers \cup {Parser})
          /\ Len(sleepers') = Len(front) + Len(back)
          /\ \A i \in 1..(Len(front) + Len(back)) :
                sleepers'[i] = IF i <= Len(front) THEN front[i] ELSE back[i - Len(front)]
      BY <2>1, <2>2, <2>3, ConcatProperties
    <3>2. n \in Nat /\ k \in 1..n /\ Len(front) + Len(back) = n - 1
      BY <1>1, <2>1, <2>2
    <3>3. ASSUME NEW i \in 1..(n - 1) PROVE sleepers'[i] = sleepers[Old(i)]
      <4>1. CASE i < k
        BY <2>1, <3>1, <3>2, <4>1
      <4>2. CASE i >= k
        <5>1. i - (k - 1) \in 1..(n - k) /\ k + (i - (k - 1)) = i + 1
          BY <3>2, <4>2
        <5>2. sleepers'[i] = back[i - (k - 1)]
          BY <2>1, <3>1, <3>2, <4>2
        <5>3. back[i - (k - 1)] = sleepers[i + 1]
          BY <2>2, <5>1
        <5>4. Old(i) = i + 1
          BY <3>2, <4>2
        <5> QED
          BY <5>2, <5>3, <5>4
      <4> QED
        BY <3>2, <4>1, <4>2
    <3> QED
      BY <3>1, <3>2, <3>3
  <2>5. /\ \A i \in 1..(n - 1) : Old(i) \in 1..n /\ Old(i) # k
        /\ \A i, j \in 1..(n - 1) : Old(i) = Old(j) => i = j
    BY <1>1
  <2> HIDE DEF Old
  <2>6. \A i \in 1..(n - 1) : sleepers[Old(i)] \in Asleep \ {Parser}
    BY <1>3, <2>5 DEF Listed
  <2>7. \A i, j \in 1..(n - 1) : sleepers[Old(i)] = sleepers[Old(j)] => i = j
    BY <2>5 DEF Listed
  <2> QED
    BY <2>4, <2>6, <2>7 DEF Listed
<1> QED
  BY <1>2, <1>3 DEF ParserLeavesList
-----------------------------------------------------------------------------
(* The queue. *)

\* The messages that some call may still get.
InFlight == Len(queue) + InParser

\* A step adds or takes as many messages as it adds or takes waiting calls.
Balanced == Cardinality(Outstanding)' + InFlight = Cardinality(Outstanding) + InFlight'

\* msgsnd wakes the parser, or caller t, or enqueues the message.
WakesParser(m, callerPc) ==
    /\ sleepers # <<>> /\ Head(sleepers) = Parser /\ parserPc = "asleep"
    /\ sleepers' = Tail(sleepers) /\ queue' = queue
    /\ parserPc' = "exec" /\ RxCommand' = m
    /\ pc' = callerPc /\ msg' = msg

WakesCaller(t, m, callerPc, ppc) ==
    /\ t # Parser
    /\ sleepers # <<>> /\ Head(sleepers) = t /\ pc[t] = "asleep"
    /\ sleepers' = Tail(sleepers) /\ queue' = queue
    /\ parserPc' = ppc /\ RxCommand' = RxCommand
    /\ pc' = [callerPc EXCEPT ![t] = "got"] /\ msg' = [msg EXCEPT ![t] = m]

Enqueues(m, callerPc, ppc) ==
    /\ sleepers' = sleepers /\ queue' = Append(queue, m)
    /\ parserPc' = ppc /\ RxCommand' = RxCommand
    /\ pc' = callerPc /\ msg' = msg

\* These are the cases of msgsnd.
LEMMA SendCases ==
    ASSUME ChannelShape, NEW m, NEW callerPc, NEW ppc, Msgsnd(m, callerPc, ppc)
    PROVE  \/ WakesParser(m, callerPc)
           \/ \E t \in Callers : WakesCaller(t, m, callerPc, ppc)
           \/ Enqueues(m, callerPc, ppc)
<1>1. CASE sleepers = <<>>
  BY <1>1 DEF Msgsnd, Enqueues
<1>2. CASE sleepers # <<>>
  <2> DEFINE t == Head(sleepers)
  <2>1. Len(sleepers) \in Nat \ {0} /\ t = sleepers[1] /\ 1 \in 1..Len(sleepers)
    BY <1>2 DEF ChannelShape, TypeOK
  <2>2. t \in Asleep
    BY <2>1 DEF ChannelShape, Listed
  <2>3. sleepers' = Tail(sleepers) /\ queue' = queue /\ Deliver(t, m, callerPc, ppc)
    BY <1>2 DEF Msgsnd
  <2>4. CASE t = Parser
    <3>1. parserPc = "asleep"
      BY <2>2, <2>4, ChannelAssumption DEF Asleep, ChannelAssumption
    <3> QED
      BY <1>2, <2>3, <2>4, <3>1 DEF Deliver, WakesParser
  <2>5. CASE t # Parser
    <3>1. t \in Callers /\ pc[t] = "asleep"
      BY <2>2, <2>5 DEF Asleep
    <3> QED
      BY <1>2, <2>3, <2>5, <3>1 DEF Deliver, WakesCaller
  <2> QED
    BY <2>4, <2>5
<1> QED
  BY <1>1, <1>2

\* The counts are numbers.
LEMMA Countable ==
    TypeOK => Len(queue) \in Nat /\ InParser \in {0, 1} /\ InFlight \in Nat
  BY DEF TypeOK, InParser, InFlight

\* A request adds a waiting call and a message, or hands the message on.
LEMMA RequestMoves ==
    ASSUME ChannelShape, NEW c \in Callers, Dispatch(c)
    PROVE  ChannelShape' /\ Balanced
<1> DEFINE q == [pc EXCEPT ![c] = "sent"]
<1>0. TypeOK /\ CommandGiven /\ Listed
  BY DEF ChannelShape
<1>1. CommandNumber \in Commands /\ Request(CommandNumber) \in Message /\ pc[c] = "set"
  BY <1>0, RequestType DEF CommandGiven, Dispatch
<1>2. c \notin Outstanding /\ c \notin Asleep /\ c # Parser
  BY <1>1, ChannelAssumption DEF Outstanding, Asleep, ChannelAssumption
<1>3. /\ q \in [Callers -> CallerPcs] /\ q[c] = "sent"
      /\ \A d \in Callers : d # c => q[d] = pc[d]
  BY <1>0 DEF TypeOK, CallerPcs
<1>4. /\ branch' \in [Callers -> Commands \cup {None}]
      /\ CommandNumber' = CommandNumber /\ arg' = arg
      /\ flagActive' = flagActive /\ flagAlarm' = flagAlarm
      /\ burst' \subseteq Commands
      /\ offered' \in [Callers -> SUBSET Commands]
  BY <1>0, <1>1 DEF Dispatch, flagVars, TypeOK
<1>5. Cardinality(Outstanding \cup {c}) = Cardinality(Outstanding) + 1
  BY <1>2, OutstandingFinite, FS_AddElement
<1>6. sleepers \in Seq(Callers \cup {Parser})
  BY <1>0 DEF TypeOK
<1>7. CASE WakesParser(Request(CommandNumber), q)
  <2>1. sleepers' \in Seq(Callers \cup {Parser})
    BY <1>6, <1>7 DEF WakesParser
  <2>2. TypeOK' /\ CommandGiven'
    BY <1>0, <1>1, <1>3, <1>4, <1>7, <2>1 DEF WakesParser, TypeOK, CommandGiven, ParserPcs
  <2>3. Outstanding' = Outstanding \cup {c}
    BY <1>3, <1>7 DEF WakesParser, Outstanding
  <2>4. InParser = 0 /\ InParser' = 1 /\ Len(queue') = Len(queue)
    BY <1>7 DEF WakesParser, InParser
  <2>5. Asleep \ {Parser} \subseteq Asleep'
    BY <1>2, <1>3, <1>7 DEF WakesParser, Asleep
  <2>6. Listed'
    BY <1>0, <1>7, <2>5, ListTail DEF WakesParser
  <2> QED
    BY <1>0, <1>5, <2>2, <2>3, <2>4, <2>6, Countable, OutstandingFinite
    DEF ChannelShape, Balanced, InFlight
<1>8. ASSUME NEW t \in Callers, WakesCaller(t, Request(CommandNumber), q, parserPc)
      PROVE  ChannelShape' /\ Balanced
  <2>1. t # c /\ pc[t] = "asleep"
    BY <1>1, <1>8 DEF WakesCaller
  <2>2. sleepers' \in Seq(Callers \cup {Parser})
    BY <1>6, <1>8 DEF WakesCaller
  <2>3. TypeOK' /\ CommandGiven'
    BY <1>0, <1>1, <1>3, <1>4, <1>8, <2>1, <2>2 DEF WakesCaller, TypeOK, CommandGiven, CallerPcs
  <2>4. t \in Outstanding \cup {c} /\ Outstanding' = (Outstanding \cup {c}) \ {t}
    BY <1>3, <1>8, <2>1 DEF WakesCaller, Outstanding
  <2>5. IsFiniteSet(Outstanding \cup {c})
    BY OutstandingFinite, FS_AddElement
  <2>6. Cardinality(Outstanding') = Cardinality(Outstanding)
    <3>1. Cardinality((Outstanding \cup {c}) \ {t}) = Cardinality(Outstanding \cup {c}) - 1
      BY <2>4, <2>5, FS_RemoveElement
    <3>2. Outstanding' = (Outstanding \cup {c}) \ {t}
      BY <2>4
    <3> QED
      BY <1>5, <3>1, <3>2, OutstandingFinite
  <2>7. InFlight' = InFlight
    BY <1>8 DEF WakesCaller, InFlight, InParser
  <2>8. Asleep \ {t} \subseteq Asleep'
    BY <1>2, <1>3, <1>8 DEF WakesCaller, Asleep
  <2>9. Listed'
    BY <1>0, <1>8, <2>8, ListTail DEF WakesCaller
  <2> QED
    BY <1>0, <2>3, <2>6, <2>7, <2>9 DEF ChannelShape, Balanced
<1>9. CASE Enqueues(Request(CommandNumber), q, parserPc)
  <2>1. queue' \in Seq(Message) /\ Len(queue') = Len(queue) + 1
    BY <1>0, <1>1, <1>9 DEF Enqueues, TypeOK
  <2>2. TypeOK' /\ CommandGiven'
    BY <1>0, <1>1, <1>3, <1>4, <1>9, <2>1 DEF Enqueues, TypeOK, CommandGiven
  <2>3. Outstanding' = Outstanding \cup {c} /\ InParser' = InParser
    BY <1>3, <1>9 DEF Enqueues, Outstanding, InParser
  <2>4. Asleep \subseteq Asleep'
    BY <1>2, <1>3, <1>9 DEF Enqueues, Asleep
  <2>5. Listed'
    BY <1>0, <1>9, <2>4, ListKept DEF Enqueues
  <2> QED
    BY <1>0, <1>5, <2>1, <2>2, <2>3, <2>5, Countable, OutstandingFinite
    DEF ChannelShape, Balanced, InFlight
<1>10. Msgsnd(Request(CommandNumber), q, parserPc)
  BY DEF Dispatch
<1>11. \/ WakesParser(Request(CommandNumber), q)
       \/ \E t \in Callers : WakesCaller(t, Request(CommandNumber), q, parserPc)
       \/ Enqueues(Request(CommandNumber), q, parserPc)
  BY <1>10, SendCases
<1> QED
  BY <1>7, <1>8, <1>9, <1>11

\* An answer leaves the parser for a waiting call or for the queue.
LEMMA AnswerMoves ==
    ASSUME ChannelShape, ParserReply
    PROVE  ChannelShape' /\ Balanced
<1>0. TypeOK /\ CommandGiven /\ Listed
  BY DEF ChannelShape
<1>1. /\ parserPc = "reply" /\ InParser = 1 /\ RxCommand \in Message
      /\ arg' = arg /\ branch' = branch /\ CommandNumber' = CommandNumber
      /\ flagActive' = flagActive /\ flagAlarm' = flagAlarm
      /\ burst' = burst /\ offered' = offered
  BY <1>0 DEF ParserReply, flagVars, historyVars, InParser, TypeOK
<1>2. Msgsnd(RxCommand, pc, "recv") /\ ~WakesParser(RxCommand, pc)
  BY <1>1 DEF ParserReply, WakesParser
<1>3. sleepers \in Seq(Callers \cup {Parser}) /\ pc \in [Callers -> CallerPcs]
  BY <1>0 DEF TypeOK
<1>4. ASSUME NEW t \in Callers, WakesCaller(t, RxCommand, pc, "recv")
      PROVE  ChannelShape' /\ Balanced
  <2>1. sleepers' \in Seq(Callers \cup {Parser})
    BY <1>3, <1>4 DEF WakesCaller
  <2>2. TypeOK' /\ CommandGiven'
    BY <1>0, <1>1, <1>4, <2>1 DEF WakesCaller, TypeOK, CommandGiven, CallerPcs, ParserPcs
  <2>3. t \in Outstanding /\ Outstanding' = Outstanding \ {t} /\ InParser' = 0
    BY <1>3, <1>4 DEF WakesCaller, Outstanding, InParser
  <2>4. Cardinality(Outstanding') = Cardinality(Outstanding) - 1
    BY <2>3, OutstandingFinite, FS_RemoveElement
  <2>5. Asleep \ {t} \subseteq Asleep'
    BY <1>1, <1>3, <1>4 DEF WakesCaller, Asleep
  <2>6. Listed'
    BY <1>0, <1>4, <2>5, ListTail DEF WakesCaller
  <2>7. Len(queue') = Len(queue)
    BY <1>4 DEF WakesCaller
  <2> QED
    BY <1>0, <1>1, <2>2, <2>3, <2>4, <2>6, <2>7, Countable, OutstandingFinite
    DEF ChannelShape, Balanced, InFlight
<1>5. CASE Enqueues(RxCommand, pc, "recv")
  <2>1. queue' \in Seq(Message) /\ Len(queue') = Len(queue) + 1
    BY <1>0, <1>1, <1>5 DEF Enqueues, TypeOK
  <2>2. TypeOK' /\ CommandGiven'
    BY <1>0, <1>1, <1>5, <2>1 DEF Enqueues, TypeOK, CommandGiven, ParserPcs
  <2>3. Outstanding' = Outstanding /\ InParser' = 0
    BY <1>5 DEF Enqueues, Outstanding, InParser
  <2>4. Asleep \subseteq Asleep'
    BY <1>1, <1>5 DEF Enqueues, Asleep
  <2>5. Listed'
    BY <1>0, <1>5, <2>4, ListKept DEF Enqueues
  <2> QED
    BY <1>0, <1>1, <2>1, <2>2, <2>3, <2>5, Countable, OutstandingFinite
    DEF ChannelShape, Balanced, InFlight
<1> QED
  BY <1>2, <1>4, <1>5, SendCases

\* A caller that receives takes a message, or waits on.
LEMMA ReceiveMoves ==
    ASSUME ChannelShape, NEW c \in Callers, Receive(c)
    PROVE  ChannelShape' /\ Balanced
<1>0. TypeOK /\ CommandGiven /\ Listed
  BY DEF ChannelShape
<1>1. pc[c] = "sent" /\ c \in Outstanding /\ c \notin Asleep /\ c # Parser
  BY ChannelAssumption DEF Receive, Outstanding, Asleep, ChannelAssumption
<1>2. /\ arg' = arg /\ branch' = branch /\ CommandNumber' = CommandNumber
      /\ flagActive' = flagActive /\ flagAlarm' = flagAlarm
      /\ burst' = burst /\ offered' = offered
  BY DEF Receive, flagVars, historyVars
<1>3. pc \in [Callers -> CallerPcs] /\ queue \in Seq(Message)
  BY <1>0 DEF TypeOK
<1>4. CASE queue # <<>>
  <2>1. /\ pc' = [pc EXCEPT ![c] = "got"] /\ msg' = [msg EXCEPT ![c] = Head(queue)]
        /\ parserPc' = parserPc /\ RxCommand' = RxCommand /\ sleepers' = sleepers
        /\ queue' = Tail(queue)
    BY <1>1, <1>4 DEF Receive, Msgrcv, Deliver
  <2>2. Head(queue) \in Message /\ queue' \in Seq(Message) /\ Len(queue') = Len(queue) - 1
    BY <1>3, <1>4, <2>1, HeadTailProperties
  <2>3. TypeOK' /\ CommandGiven'
    BY <1>0, <1>2, <2>1, <2>2 DEF TypeOK, CommandGiven, CallerPcs
  <2>4. Outstanding' = Outstanding \ {c} /\ InParser' = InParser
    BY <1>3, <2>1 DEF Outstanding, InParser
  <2>5. Cardinality(Outstanding') = Cardinality(Outstanding) - 1
    BY <1>1, <2>4, OutstandingFinite, FS_RemoveElement
  <2>6. Asleep \subseteq Asleep'
    BY <1>1, <1>3, <2>1 DEF Asleep
  <2>7. Listed'
    BY <1>0, <2>1, <2>6, ListKept
  <2> QED
    BY <1>0, <2>2, <2>3, <2>4, <2>5, <2>7, Countable, OutstandingFinite
    DEF ChannelShape, Balanced, InFlight
<1>5. CASE queue = <<>>
  <2>1. /\ pc' = [pc EXCEPT ![c] = "asleep"] /\ msg' = msg
        /\ parserPc' = parserPc /\ RxCommand' = RxCommand /\ queue' = queue
        /\ sleepers' = Append(sleepers, c)
    BY <1>5 DEF Receive, Msgrcv
  <2>2. sleepers' \in Seq(Callers \cup {Parser})
    BY <1>0, <2>1 DEF TypeOK
  <2>3. TypeOK' /\ CommandGiven'
    BY <1>0, <1>2, <2>1, <2>2 DEF TypeOK, CommandGiven, CallerPcs
  <2>4. Outstanding' = Outstanding /\ InFlight' = InFlight
    BY <1>1, <1>3, <2>1 DEF Outstanding, InFlight, InParser
  <2>5. Asleep \cup {c} \subseteq Asleep'
    BY <1>3, <2>1 DEF Asleep
  <2>6. Listed'
    BY <1>0, <1>1, <2>1, <2>5, ListAppend
  <2> QED
    BY <2>3, <2>4, <2>6 DEF ChannelShape, Balanced
<1> QED
  BY <1>4, <1>5

\* What the parser takes is still under way.
LEMMA ParserTakes ==
    ASSUME ChannelShape, ParserReceive
    PROVE  ChannelShape' /\ Outstanding' = Outstanding /\ InFlight' = InFlight
<1>0. TypeOK /\ CommandGiven /\ Listed
  BY DEF ChannelShape
<1>1. /\ parserPc = "recv" /\ Parser \notin Asleep /\ InParser = 0
      /\ arg' = arg /\ branch' = branch /\ CommandNumber' = CommandNumber
      /\ flagActive' = flagActive /\ flagAlarm' = flagAlarm
      /\ burst' = burst /\ offered' = offered
  BY ChannelAssumption DEF ParserReceive, flagVars, historyVars, Asleep, InParser, ChannelAssumption
<1>2. pc \in [Callers -> CallerPcs] /\ queue \in Seq(Message)
  BY <1>0 DEF TypeOK
<1>3. CASE queue # <<>>
  <2>1. /\ parserPc' = "exec" /\ RxCommand' = Head(queue) /\ sleepers' = sleepers
        /\ pc' = pc /\ msg' = msg /\ queue' = Tail(queue)
    BY <1>3 DEF ParserReceive, Msgrcv, Deliver
  <2>2. Head(queue) \in Message /\ queue' \in Seq(Message) /\ Len(queue') = Len(queue) - 1
    BY <1>2, <1>3, <2>1, HeadTailProperties
  <2>3. TypeOK' /\ CommandGiven'
    BY <1>0, <1>1, <2>1, <2>2 DEF TypeOK, CommandGiven, ParserPcs
  <2>4. Outstanding' = Outstanding /\ InParser' = 1
    BY <2>1 DEF Outstanding, InParser
  <2>5. InFlight' = InFlight
    BY <1>0, <1>1, <2>2, <2>4, Countable DEF InFlight
  <2>6. Listed'
    BY <1>0, <1>1, <2>1, ListKept DEF Asleep
  <2> QED
    BY <2>3, <2>4, <2>5, <2>6 DEF ChannelShape
<1>4. CASE queue = <<>>
  <2>1. /\ parserPc' = "asleep" /\ RxCommand' = RxCommand /\ queue' = queue
        /\ pc' = pc /\ msg' = msg /\ sleepers' = Append(sleepers, Parser)
    BY <1>4 DEF ParserReceive, Msgrcv
  <2>2. sleepers' \in Seq(Callers \cup {Parser})
    BY <1>0, <2>1 DEF TypeOK
  <2>3. TypeOK' /\ CommandGiven'
    BY <1>0, <1>1, <2>1, <2>2 DEF TypeOK, CommandGiven, ParserPcs
  <2>4. Outstanding' = Outstanding /\ InFlight' = InFlight
    BY <1>1, <2>1 DEF Outstanding, InFlight, InParser
  <2>5. Asleep \cup {Parser} \subseteq Asleep'
    BY <2>1 DEF Asleep
  <2>6. Listed'
    BY <1>0, <1>1, <2>1, <2>5, ListAppend
  <2> QED
    BY <2>3, <2>4, <2>6 DEF ChannelShape
<1> QED
  BY <1>3, <1>4

\* The steps that leave the queue alone leave the counts alone.
LEMMA LocalMoves ==
    ASSUME ChannelShape,
           \/ \E c \in Callers, k \in Commands : SetCommand(c, k)
           \/ \E c \in Callers : Return(c)
           \/ ParserExecute
    PROVE  ChannelShape' /\ Outstanding' = Outstanding /\ InFlight' = InFlight
<1>0. TypeOK /\ CommandGiven /\ Listed
  BY DEF ChannelShape
<1>1. ASSUME NEW c \in Callers, NEW k \in Commands, SetCommand(c, k)
      PROVE  ChannelShape' /\ Outstanding' = Outstanding /\ InFlight' = InFlight
  <2>1. /\ pc[c] = "idle" /\ pc' = [pc EXCEPT ![c] = "set"]
        /\ arg' = [arg EXCEPT ![c] = k] /\ CommandNumber' = k
        /\ UNCHANGED <<branch, msg, queue, sleepers, parserPc, RxCommand, flagActive,
                       flagAlarm, burst>>
    BY <1>1 DEF SetCommand, kernelVars, parserVars, flagVars
  <2>0. offered' \in [Callers -> SUBSET Commands]
    BY <1>0, <1>1 DEF SetCommand, Offer, TypeOK
  <2>2. TypeOK' /\ CommandGiven'
    BY <1>0, <2>0, <2>1 DEF TypeOK, CommandGiven, CallerPcs
  <2>3. Outstanding' = Outstanding /\ InFlight' = InFlight /\ Asleep' = Asleep
    BY <1>0, <2>1 DEF TypeOK, Outstanding, InFlight, InParser, Asleep
  <2> QED
    BY <1>0, <2>1, <2>2, <2>3, ListKept DEF ChannelShape
<1>2. ASSUME NEW c \in Callers, Return(c)
      PROVE  ChannelShape' /\ Outstanding' = Outstanding /\ InFlight' = InFlight
  <2>1. /\ pc[c] = "got" /\ pc' = [pc EXCEPT ![c] = "idle"]
        /\ arg' = [arg EXCEPT ![c] = None] /\ branch' = [branch EXCEPT ![c] = None]
        /\ msg' = [msg EXCEPT ![c] = NoMessage] /\ burst' \in {{}, burst}
        /\ UNCHANGED <<CommandNumber, queue, sleepers, parserPc, RxCommand, flagActive,
                       flagAlarm, offered>>
    BY <1>2 DEF Return, kernelVars, parserVars, flagVars
  <2>2. NoMessage \in Message
    BY DEF NoMessage, Message
  <2>3. TypeOK' /\ CommandGiven'
    BY <1>0, <2>1, <2>2 DEF TypeOK, CommandGiven, CallerPcs
  <2>4. Outstanding' = Outstanding /\ InFlight' = InFlight /\ Asleep' = Asleep
    BY <1>0, <2>1 DEF TypeOK, Outstanding, InFlight, InParser, Asleep
  <2> QED
    BY <1>0, <2>1, <2>3, <2>4, ListKept DEF ChannelShape
<1>3. CASE ParserExecute
  <2>1. /\ parserPc = "exec" /\ parserPc' = "reply"
        /\ RxCommand' = Answer(RxCommand)
        /\ UNCHANGED <<pc, arg, branch, msg, CommandNumber, queue, sleepers, burst, offered>>
    BY <1>3 DEF ParserExecute, callerVars, kernelVars, historyVars
  <2>2. flagActive' \in BOOLEAN /\ flagAlarm' \in BOOLEAN
    <3>1. /\ flagActive' \in {TRUE, FALSE, flagActive}
          /\ flagAlarm' \in {TRUE, FALSE, flagAlarm}
      BY <1>3 DEF ParserExecute
    <3> QED
      BY <1>0, <3>1 DEF TypeOK
  <2>3. RxCommand' \in Message
    BY <1>0, <2>1, AnswerType DEF TypeOK
  <2>4. TypeOK' /\ CommandGiven'
    BY <1>0, <2>1, <2>2, <2>3 DEF TypeOK, CommandGiven, ParserPcs
  <2>5. Outstanding' = Outstanding /\ InFlight' = InFlight /\ Asleep' = Asleep
    BY <2>1 DEF Outstanding, InFlight, InParser, Asleep
  <2> QED
    BY <1>0, <2>1, <2>4, <2>5, ListKept DEF ChannelShape
<1> QED
  BY <1>1, <1>2, <1>3
-----------------------------------------------------------------------------
(* The invariant. *)

\* No cause for a ghost has been noted.
Causeless == mishaps \cap {"call abandoned", "queue changed", "queue removed"} = {}

\* Then every message under way has a call that waits for one, and there is none
\* while the server's calls run on a queue where they fail.
Backed ==
    Causeless =>
        /\ InFlight <= Cardinality(Outstanding)
        /\ MessageQueueId # "command" => InFlight = 0

\* A segment is made only after an end of SentryMode has removed the one before
\* or one of the server has, and a call that opens the channel, or a SentryMode that
\* runs, has been given one; SentryMode also has its queue until it is removed.
Counted ==
    /\ lastSegment + (IF segment = 0 THEN 1 ELSE 0) <= faults + 1
    /\ \A c \in Callers : opening[c] # "no" => shmid # 0
    /\ sentry # "down" => sentrySegment # 0 /\ (queueThere \/ Removed)

GInv == RestartTypeOK /\ CommandGiven /\ Listed /\ Backed /\ Counted

\* What a step on the queue leaves of the invariant to show.
LEMMA QueueStep ==
    ASSUME GInv, ChannelShape', opening' \in [Callers -> {"no", "shmget", "shmat", "done"}],
           \A c \in Callers : opening'[c] # "no" => opening[c] # "no",
           disturbed' \subseteq Callers, ipcUnchanged, Backed'
    PROVE  GInv'
<1>1. UNCHANGED <<segment, lastSegment, published, attached, mapped, shmid, queueThere,
                  queueFirst, MessageQueueId, serverUp, sentry, sentrySegment, mishaps, faults>>
  BY DEF ipcUnchanged, memoryVars, queueVars, processVars
<1>2. RestartTypeOK'
  BY <1>1 DEF GInv, RestartTypeOK, ChannelShape
<1>3. Counted'
  BY <1>1 DEF GInv, Counted, Removed
<1> QED
  BY <1>2, <1>3 DEF GInv, ChannelShape

\* A balanced step keeps the messages backed.
LEMMA BalancedBacks ==
    ASSUME GInv, ChannelShape', Balanced, UNCHANGED <<mishaps, MessageQueueId>>,
           MessageQueueId = "command"
    PROVE  Backed'
<1>1. TypeOK /\ TypeOK'
  BY DEF GInv, RestartTypeOK, ChannelShape
<1>2. InFlight \in Nat /\ InFlight' \in Nat
  BY <1>1 DEF InFlight, InParser, TypeOK
<1>3. IsFiniteSet(Outstanding') /\ Cardinality(Outstanding') \in Nat
  <2>1. Outstanding' \subseteq Callers
    BY DEF Outstanding
  <2> QED
    BY <2>1, ChannelAssumption, FS_Subset, FS_CardinalityType DEF ChannelAssumption
<1>4. Cardinality(Outstanding) + InFlight' = Cardinality(Outstanding') + InFlight
  BY DEF Balanced
<1>5. Causeless' => InFlight' <= Cardinality(Outstanding')
  <2>1. Causeless' => InFlight <= Cardinality(Outstanding)
    BY DEF GInv, Backed, Causeless
  <2> QED
    BY <1>2, <1>3, <1>4, <2>1, OutstandingFinite
<1> QED
  BY <1>5 DEF Backed

\* So does one that moves no message.
LEMMA StillBacked ==
    ASSUME GInv, Outstanding' = Outstanding, InFlight' = InFlight,
           UNCHANGED <<mishaps, MessageQueueId>>
    PROVE  Backed'
  BY DEF GInv, Backed, Causeless


\* The steps of camera_ctl and of the parser on the queue keep the invariant.
LEMMA GhostChannelSteps ==
    ASSUME GInv,
           \/ \E c \in Callers, k \in Commands : CallSet(c, k)
           \/ \E c \in Callers : CallDispatch(c) \/ CallReceive(c) \/ CallReturn(c)
           \/ ParserStep
    PROVE  GInv'
<1>1. /\ ChannelShape /\ TypeOK
      /\ opening \in [Callers -> {"no", "shmget", "shmat", "done"}] /\ disturbed \subseteq Callers
  BY DEF GInv, RestartTypeOK, ChannelShape
<1>2. ipcUnchanged /\ UNCHANGED <<mishaps, MessageQueueId>>
  BY DEF CallSet, CallDispatch, CallReceive, CallReturn, ParserStep, ipcUnchanged, queueVars
<1>3. ASSUME NEW c \in Callers, NEW k \in Commands, CallSet(c, k)
      PROVE  GInv'
  <2>1. SetCommand(c, k) /\ opening' = opening /\ disturbed' = disturbed \ {c}
    BY <1>3 DEF CallSet
  <2>2. ChannelShape' /\ Outstanding' = Outstanding /\ InFlight' = InFlight
    BY <1>1, <2>1, LocalMoves
  <2> QED
    BY <1>1, <1>2, <2>1, <2>2, StillBacked, QueueStep
<1>4. ASSUME NEW c \in Callers, CallReturn(c)
      PROVE  GInv'
  <2>1. Return(c) /\ opening' = [opening EXCEPT ![c] = "no"] /\ disturbed' = disturbed
    BY <1>4 DEF CallReturn
  <2>2. ChannelShape' /\ Outstanding' = Outstanding /\ InFlight' = InFlight
    BY <1>1, <2>1, LocalMoves
  <2>3. /\ opening' \in [Callers -> {"no", "shmget", "shmat", "done"}]
        /\ \A d \in Callers : opening'[d] # "no" => opening[d] # "no"
    BY <1>1, <2>1
  <2> QED
    BY <1>1, <1>2, <2>1, <2>2, <2>3, StillBacked, QueueStep
<1>5. ASSUME NEW c \in Callers, CallDispatch(c)
      PROVE  GInv'
  <2>1. opening' = opening /\ disturbed' = disturbed
    BY <1>5 DEF CallDispatch
  <2>2. CASE MessageQueueId = "command"
    <3>1. ChannelShape' /\ Balanced
      BY <1>1, <1>5, <2>2, RequestMoves DEF CallDispatch
    <3> QED
      BY <1>1, <1>2, <2>1, <2>2, <3>1, BalancedBacks, QueueStep
  <2>3. CASE MessageQueueId # "command"
    <3>1. /\ pc[c] = "set" /\ pc' = [pc EXCEPT ![c] = "sent"]
          /\ branch' = [branch EXCEPT ![c] = CommandNumber]
          /\ offered' = [offered EXCEPT ![c] = {}]
          /\ UNCHANGED <<arg, msg, CommandNumber, queue, sleepers, parserPc, RxCommand,
                         flagActive, flagAlarm, burst>>
      BY <1>5, <2>3 DEF CallDispatch, kernelVars, parserVars, flagVars
    <3>2. CommandNumber \in Commands
      BY <3>1 DEF GInv, CommandGiven
    <3>3. TypeOK' /\ CommandGiven'
      BY <1>1, <3>1, <3>2 DEF GInv, TypeOK, CommandGiven, CallerPcs
    <3>4. Asleep \subseteq Asleep'
      BY <1>1, <3>1 DEF TypeOK, Asleep
    <3>5. Listed'
      BY <3>1, <3>4, ListKept DEF GInv
    <3>6. Outstanding' = Outstanding \cup {c} /\ InFlight' = InFlight
      BY <1>1, <3>1 DEF TypeOK, Outstanding, InFlight, InParser
    <3>7. Cardinality(Outstanding') \in Nat
      BY <3>6, OutstandingFinite, FS_AddElement, FS_CardinalityType
    <3>8. Backed'
      <4>1. Causeless' => InFlight' = 0
        BY <1>2, <2>3, <3>6 DEF GInv, Backed, Causeless
      <4>2. 0 <= Cardinality(Outstanding')
        BY <3>7
      <4> QED
        BY <4>1, <4>2 DEF Backed
    <3> QED
      BY <1>1, <1>2, <2>1, <3>3, <3>5, <3>8, QueueStep DEF ChannelShape
  <2> QED
    BY <2>2, <2>3
<1>6. ASSUME NEW c \in Callers, CallReceive(c)
      PROVE  GInv'
  <2>1. opening' = opening /\ disturbed' = disturbed
    BY <1>6 DEF CallReceive
  <2>2. CASE MessageQueueId = "command"
    <3>1. ChannelShape' /\ Balanced
      BY <1>1, <1>6, <2>2, ReceiveMoves DEF CallReceive
    <3> QED
      BY <1>1, <1>2, <2>1, <2>2, <3>1, BalancedBacks, QueueStep
  <2>3. CASE MessageQueueId # "command"
    <3>1. /\ pc[c] = "sent" /\ pc' = [pc EXCEPT ![c] = "got"]
          /\ UNCHANGED <<arg, branch, msg, CommandNumber, queue, sleepers, parserPc, RxCommand,
                         flagActive, flagAlarm, burst, offered>>
      BY <1>6, <2>3 DEF CallReceive, kernelVars, parserVars, flagVars, historyVars
    <3>2. TypeOK' /\ CommandGiven'
      BY <1>1, <3>1 DEF GInv, TypeOK, CommandGiven, CallerPcs
    <3>3. Asleep \subseteq Asleep'
      BY <1>1, <3>1 DEF TypeOK, Asleep
    <3>4. Listed'
      BY <3>1, <3>3, ListKept DEF GInv
    <3>5. Outstanding' = Outstanding \ {c} /\ InFlight' = InFlight
      BY <1>1, <3>1 DEF TypeOK, Outstanding, InFlight, InParser
    <3>6. Cardinality(Outstanding') \in Nat
      BY <3>5, OutstandingFinite, FS_RemoveElement, FS_Subset, FS_CardinalityType
    <3>7. Backed'
      <4>1. Causeless' => InFlight' = 0
        BY <1>2, <2>3, <3>5 DEF GInv, Backed, Causeless
      <4>2. 0 <= Cardinality(Outstanding')
        BY <3>6
      <4> QED
        BY <4>1, <4>2 DEF Backed
    <3> QED
      BY <1>1, <1>2, <2>1, <3>2, <3>4, <3>7, QueueStep DEF ChannelShape
  <2> QED
    BY <2>2, <2>3
<1>7. CASE ParserStep
  <2>1. opening' = opening /\ disturbed' = disturbed
    BY <1>7 DEF ParserStep
  <2>2. CASE ParserReceive
    BY <1>1, <1>2, <2>1, <2>2, ParserTakes, StillBacked, QueueStep
  <2>3. CASE ParserExecute
    BY <1>1, <1>2, <2>1, <2>3, LocalMoves, StillBacked, QueueStep
  <2>4. CASE ParserReply
    <3>1. ChannelShape' /\ Balanced
      BY <1>1, <2>4, AnswerMoves
    <3>2. CASE MessageQueueId = "command"
      BY <1>1, <1>2, <2>1, <3>1, <3>2, BalancedBacks, QueueStep
    <3>3. CASE MessageQueueId # "command"
      <4>1. InParser = 1 /\ InFlight # 0
        BY <1>1, <2>4 DEF ParserReply, InParser, InFlight, TypeOK
      <4>2. ~Causeless'
        BY <1>2, <3>3, <4>1 DEF GInv, Backed, Causeless
      <4>3. Backed'
        BY <4>2 DEF Backed
      <4> QED
        BY <1>1, <1>2, <2>1, <3>1, <4>3, QueueStep
    <3> QED
      BY <3>2, <3>3
  <2>5. CASE sentry # "down" /\ ~queueThere /\ ParserWithoutQueue
    <3>1. /\ \/ parserPc = "recv" /\ parserPc' = "exec"
             \/ parserPc = "reply" /\ parserPc' = "recv"
          /\ UNCHANGED <<pc, arg, branch, msg, CommandNumber, queue, sleepers, flagActive,
                         flagAlarm, burst, offered>>
      BY <2>5 DEF ParserWithoutQueue, callerVars, kernelVars, flagVars, historyVars
    <3>2. RxCommand' \in Message
      <4>1. RxCommand \in Message
        BY <1>1 DEF TypeOK
      <4>2. \A k \in CommandIds : [NoMessage EXCEPT !.cmd = k] \in Message
        BY DEF NoMessage, Message
      <4> QED
        BY <2>5, <4>1, <4>2 DEF ParserWithoutQueue
    <3>3. TypeOK' /\ CommandGiven'
      BY <1>1, <3>1, <3>2 DEF ChannelShape, TypeOK, CommandGiven, ParserPcs
    <3>4. Listed'
      <4>1. Asleep' = Asleep
        BY <3>1 DEF Asleep
      <4> QED
        BY <1>1, <3>1, <4>1, ListKept DEF ChannelShape
    <3>5. Backed'
      <4>1. ~Causeless'
        BY <1>2, <2>5 DEF GInv, Counted, Removed, Causeless
      <4> QED
        BY <4>1 DEF Backed
    <3> QED
      BY <1>1, <1>2, <2>1, <3>3, <3>4, <3>5, QueueStep DEF ChannelShape
  <2> QED
    BY <1>7, <2>2, <2>3, <2>4, <2>5 DEF ParserStep
<1> QED
  BY <1>3, <1>4, <1>5, <1>6, <1>7

\* The end of the server takes its calls, and notes those it abandons and the
\* queue it removes.
LEMMA GhostServerGone ==
    ASSUME GInv, Gone, faults' \in 0..MaxFaults,
           (faults' = faults /\ segment' = segment) \/ faults' = faults + 1
    PROVE  GInv'
<1>1. RestartTypeOK /\ TypeOK
  BY DEF GInv, RestartTypeOK
<1>2. /\ pc' = [c \in Callers |-> "idle"] /\ arg' = [c \in Callers |-> None]
      /\ branch' = [c \in Callers |-> None] /\ msg' = [c \in Callers |-> NoMessage]
      /\ CommandNumber' = None /\ burst' = {} /\ offered' = [c \in Callers |-> {}]
      /\ serverUp' = FALSE
      /\ attached' = {} /\ mapped' = 0 /\ shmid' = 0 /\ MessageQueueId' = "none"
      /\ opening' = [c \in Callers |-> "no"] /\ disturbed' = {}
      /\ segment' \in {segment, 0}
      /\ UNCHANGED <<RxCommand, flagActive, flagAlarm, sentry, sentrySegment, lastSegment,
                     published>>
  BY DEF Gone, CallersGone, flagVars
<1>3. NoMessage \in Message
  BY DEF NoMessage, Message
<1>4. pc' \in [Callers -> CallerPcs] /\ offered' \in [Callers -> SUBSET Commands]
  BY <1>2 DEF CallerPcs
<1>5. CommandGiven'
  BY <1>2 DEF CommandGiven
<1>6. lastSegment' + (IF segment' = 0 THEN 1 ELSE 0) <= faults' + 1
  <2>1. lastSegment \in Nat /\ faults \in Nat /\ lastSegment' = lastSegment
    BY <1>1, <1>2 DEF RestartTypeOK, Segments
  <2>2. lastSegment + (IF segment = 0 THEN 1 ELSE 0) <= faults + 1
    BY DEF GInv, Counted
  <2>3. CASE faults' = faults /\ segment' = segment
    BY <2>1, <2>2, <2>3
  <2>4. CASE faults' = faults + 1
    BY <2>1, <2>2, <2>4
  <2> QED
    BY <2>3, <2>4
<1>7. CASE QueueRemoved
  <2>1. /\ queue' = <<>> /\ sleepers' = <<>>
        /\ parserPc' = (IF parserPc = "asleep" THEN "recv" ELSE parserPc)
        /\ queueThere' = FALSE /\ queueFirst' = FALSE
        /\ mishaps' = mishaps \cup {"queue removed"}
    BY <1>7 DEF QueueRemoved
  <2>2. /\ queue' \in Seq(Message) /\ sleepers' \in Seq(Callers \cup {Parser})
        /\ parserPc' \in ParserPcs /\ mishaps' \subseteq Mishaps
    <3>1. queue' \in Seq(Message) /\ sleepers' \in Seq(Callers \cup {Parser})
      <4>1. queue' = <<>> /\ sleepers' = <<>>
        BY <2>1
      <4> QED
        BY <4>1
    <3>2. parserPc' \in ParserPcs
      BY <1>1, <2>1 DEF TypeOK, ParserPcs
    <3>3. mishaps' \subseteq Mishaps
      BY <1>1, <2>1 DEF RestartTypeOK, Mishaps
    <3> QED
      BY <3>1, <3>2, <3>3
  <2>3. TypeOK'
    BY <1>1, <1>2, <1>3, <1>4, <2>2 DEF TypeOK
  <2>4. RestartTypeOK'
    BY <1>1, <1>2, <2>1, <2>2, <2>3 DEF RestartTypeOK
  <2>5. Listed' /\ Backed'
    <3>1. ~Causeless'
      BY <2>1 DEF Causeless
    <3>2. Listed'
      <4>1. sleepers' = <<>>
        BY <2>1
      <4> QED
        BY <4>1 DEF Listed
    <3> QED
      BY <3>1, <3>2 DEF Backed
  <2>6. Counted'
    BY <1>2, <1>6, <2>1 DEF GInv, Counted, Removed
  <2> QED
    BY <1>5, <2>4, <2>5, <2>6 DEF GInv
<1>8. CASE QueueStays
  <2>1. /\ sleepers' = IF Parser \in ToSet(sleepers) THEN <<Parser>> ELSE <<>>
        /\ mishaps' = mishaps \cup Note("call abandoned", Outstanding # {})
        /\ UNCHANGED <<queue, parserPc, queueThere, queueFirst>>
    BY <1>8 DEF QueueStays
  <2>2. sleepers' \in Seq(Callers \cup {Parser})
    <3>1. <<Parser>> \in Seq(Callers \cup {Parser}) /\ <<>> \in Seq(Callers \cup {Parser})
      OBVIOUS
    <3> QED
      BY <2>1, <3>1
  <2>3. TypeOK'
    BY <1>1, <1>2, <1>3, <1>4, <2>1, <2>2 DEF TypeOK
  <2>4. Listed'
    <3>1. CASE Parser \in ToSet(sleepers)
      <4>1. PICK i \in 1..Len(sleepers) : sleepers[i] = Parser
        BY <3>1 DEF ToSet
      <4>2. parserPc = "asleep"
        BY <4>1, ChannelAssumption DEF GInv, Listed, Asleep, ChannelAssumption
      <4>3. sleepers' = <<Parser>> /\ Parser \in Asleep'
        BY <2>1, <3>1, <4>2 DEF Asleep
      <4> QED
        BY <4>3 DEF Listed
    <3>2. CASE Parser \notin ToSet(sleepers)
      <4>1. sleepers' = <<>>
        BY <2>1, <3>2
      <4> QED
        BY <4>1 DEF Listed
    <3> QED
      BY <3>1, <3>2
  <2>5. mishaps' \subseteq Mishaps
    BY <1>1, <2>1 DEF RestartTypeOK, Note, Mishaps
  <2>6. RestartTypeOK'
    BY <1>1, <1>2, <2>1, <2>3, <2>5 DEF RestartTypeOK
  <2>7. Backed'
    <3>1. Outstanding' = {} /\ InFlight' = InFlight
      BY <1>2, <2>1 DEF Outstanding, InFlight, InParser
    <3>2. Causeless' => Outstanding = {} /\ Causeless
      BY <2>1 DEF Causeless, Note
    <3>3. Causeless' => InFlight = 0
      <4>1. InFlight \in Nat /\ Cardinality({}) = 0
        BY <1>1, Countable, FS_EmptySet
      <4>2. Causeless' => InFlight <= Cardinality({})
        BY <3>2 DEF GInv, Backed
      <4> QED
        BY <4>1, <4>2
    <3> QED
      BY <3>1, <3>3, FS_EmptySet DEF Backed
  <2>8. Counted'
    BY <1>2, <1>6, <2>1 DEF GInv, Counted, Removed
  <2> QED
    BY <1>5, <2>4, <2>6, <2>7, <2>8 DEF GInv
<1> QED
  BY <1>7, <1>8 DEF Gone


\* What a step that leaves the channel of CameraChannel alone has to keep.
LEMMA ChannelStill ==
    ASSUME GInv, UNCHANGED vars
    PROVE  /\ TypeOK' /\ CommandGiven' /\ Listed'
           /\ Outstanding' = Outstanding /\ InFlight' = InFlight
<1>1. UNCHANGED <<pc, arg, branch, msg, CommandNumber, queue, sleepers, parserPc, RxCommand,
                  flagActive, flagAlarm, burst, offered>>
  BY DEF vars, callerVars, kernelVars, parserVars, flagVars, historyVars
<1>2. Outstanding' = Outstanding /\ InFlight' = InFlight /\ Asleep' = Asleep
  BY <1>1 DEF Outstanding, InFlight, InParser, Asleep
<1>3. TypeOK' /\ CommandGiven'
  BY <1>1 DEF GInv, RestartTypeOK, TypeOK, CommandGiven
<1> QED
  BY <1>1, <1>2, <1>3, ListKept DEF GInv

\* The segment that shmget makes is one that the ends so far allow.
LEMMA ShmgetCounts ==
    ASSUME GInv, ShmgetCreates, faults' = faults
    PROVE  /\ segment' \in Segments /\ lastSegment' \in Segments /\ segment' # 0
           /\ lastSegment' + (IF segment' = 0 THEN 1 ELSE 0) <= faults' + 1
<1>1. /\ segment \in {0} \cup Segments /\ lastSegment \in Segments /\ faults \in 0..MaxFaults
      /\ lastSegment + (IF segment = 0 THEN 1 ELSE 0) <= faults + 1
  BY DEF GInv, RestartTypeOK, Counted
<1>2. CASE segment = 0
  BY <1>1, <1>2, RestartAssumption DEF ShmgetCreates, Segments, RestartAssumption
<1>3. CASE segment # 0
  BY <1>1, <1>3, RestartAssumption DEF ShmgetCreates, Segments, RestartAssumption
<1> QED
  BY <1>2, <1>3

\* The opening of camera_ctl keeps the invariant: a call that puts another queue
\* under the others notes it.
LEMMA GhostOpeningSteps ==
    ASSUME GInv, NEW d \in Callers, Shmget(d) \/ Shmat(d) \/ Msgget(d)
    PROVE  GInv'
<1>1. RestartTypeOK /\ opening \in [Callers -> {"no", "shmget", "shmat", "done"}]
  BY DEF GInv, RestartTypeOK
<1>2. CASE NoCallers
  <2>1. faults' = faults
    <3>1. CASE Shmget(d)
      BY <3>1 DEF Shmget, causeVars
    <3>2. CASE Shmat(d)
      BY <3>2 DEF Shmat, causeVars
    <3>3. CASE Msgget(d)
      BY <3>3 DEF Msgget
    <3> QED
      BY <3>1, <3>2, <3>3
  <2> QED
    BY <1>1, <1>2, <2>1, WaysToGo, GhostServerGone DEF RestartTypeOK, NoCallers
<1>3. CASE Shmget(d)
  <2>1. /\ UNCHANGED vars /\ ShmgetCreates /\ shmid' = segment'
        /\ opening' = [opening EXCEPT ![d] = "shmget"]
        /\ UNCHANGED <<published, attached, mapped, queueThere, queueFirst, MessageQueueId, serverUp,
                       sentry, sentrySegment, disturbed, mishaps, faults>>
    BY <1>3 DEF Shmget, queueVars, processVars, causeVars
  <2>2. /\ TypeOK' /\ CommandGiven' /\ Listed'
        /\ Outstanding' = Outstanding /\ InFlight' = InFlight
    BY <2>1, ChannelStill
  <2>3. /\ segment' \in Segments /\ lastSegment' \in Segments /\ segment' # 0
        /\ lastSegment' + (IF segment' = 0 THEN 1 ELSE 0) <= faults' + 1
    BY <2>1, ShmgetCounts
  <2>4. RestartTypeOK'
    BY <1>1, <2>1, <2>2, <2>3 DEF RestartTypeOK
  <2>5. Counted'
    BY <2>1, <2>3 DEF GInv, Counted, Removed
  <2>6. Backed'
    BY <2>1, <2>2, StillBacked
  <2> QED
    BY <2>2, <2>4, <2>5, <2>6 DEF GInv
<1>4. CASE Shmat(d) /\ ~NoCallers
  <2>1. /\ UNCHANGED vars /\ opening[d] = "shmget"
        /\ opening' = [opening EXCEPT ![d] = "shmat"]
        /\ attached' = attached \cup {shmid} /\ mapped' = shmid
        /\ UNCHANGED <<segment, lastSegment, published, shmid, queueThere, queueFirst,
                       MessageQueueId, serverUp, sentry, sentrySegment, disturbed, mishaps, faults>>
    BY <1>4 DEF Shmat, queueVars, processVars, causeVars
  <2>2. /\ TypeOK' /\ CommandGiven' /\ Listed'
        /\ Outstanding' = Outstanding /\ InFlight' = InFlight
    BY <2>1, ChannelStill
  <2>3. shmid \in Segments
    BY <1>1, <2>1 DEF GInv, Counted, RestartTypeOK
  <2>4. RestartTypeOK'
    BY <1>1, <2>1, <2>2, <2>3 DEF RestartTypeOK
  <2>5. Counted'
    BY <1>1, <2>1 DEF GInv, Counted, Removed
  <2>6. Backed'
    BY <2>1, <2>2, StillBacked
  <2> QED
    BY <2>2, <2>4, <2>5, <2>6 DEF GInv
<1>5. CASE Msgget(d) /\ ~NoCallers
  <2>1. /\ UNCHANGED vars /\ opening[d] = "shmat"
        /\ opening' = [opening EXCEPT ![d] = "done"]
        /\ MessageQueueId' \in {"command", "private"}
        /\ mishaps' = mishaps \cup
              Note("queue changed", MessageQueueId' # MessageQueueId /\ Outstanding # {})
        /\ UNCHANGED <<segment, lastSegment, published, attached, mapped, shmid, queueThere,
                       queueFirst, serverUp, sentry, sentrySegment, disturbed, faults>>
    BY <1>5 DEF Msgget, memoryVars, processVars
  <2>2. /\ TypeOK' /\ CommandGiven' /\ Listed'
        /\ Outstanding' = Outstanding /\ InFlight' = InFlight
    BY <2>1, ChannelStill
  <2>3. mishaps' \subseteq Mishaps
    BY <1>1, <2>1 DEF RestartTypeOK, Note, Mishaps
  <2>4. RestartTypeOK'
    BY <1>1, <2>1, <2>2, <2>3 DEF RestartTypeOK
  <2>5. Counted'
    BY <1>1, <2>1 DEF GInv, Counted, Removed
  <2>6. Backed'
    <3>1. Causeless' => Causeless /\ (MessageQueueId' = MessageQueueId \/ Outstanding = {})
      BY <2>1 DEF Causeless, Note
    <3>2. InFlight \in Nat
      BY <1>1, Countable DEF RestartTypeOK
    <3>3. Outstanding = {} /\ InFlight <= Cardinality(Outstanding) => InFlight = 0
      BY <3>2, FS_EmptySet
    <3> QED
      BY <2>2, <3>1, <3>3 DEF GInv, Backed
  <2> QED
    BY <2>2, <2>4, <2>5, <2>6 DEF GInv
<1> QED
  BY <1>2, <1>3, <1>4, <1>5


\* The starts of SentryMode and the first step to its end keep the invariant: a
\* queue that is there is used with whatever is in it.
LEMMA GhostSentryStarts ==
    ASSUME GInv, SentryStarts \/ SentryClears \/ SentryPublishes \/ SentryInterrupted
    PROVE  GInv'
<1>1. RestartTypeOK /\ faults \in Nat /\ lastSegment \in Nat
  BY DEF GInv, RestartTypeOK, Segments
<1>2. /\ UNCHANGED <<attached, mapped, shmid, queueFirst, MessageQueueId, serverUp, opening,
                     mishaps>>
      /\ UNCHANGED vars /\ Disturb
  BY DEF SentryStarts, SentryClears, SentryPublishes, SentryInterrupted, queueVars
<1>3. /\ TypeOK' /\ CommandGiven' /\ Listed'
      /\ Outstanding' = Outstanding /\ InFlight' = InFlight
  BY <1>2, ChannelStill
<1>4. Backed'
  BY <1>2, <1>3, StillBacked
<1>5. disturbed' \subseteq Callers
  BY <1>1, <1>2 DEF RestartTypeOK, Disturb, Opening
<1>6. CASE SentryStarts
  <2>1. /\ sentry' = "created" /\ ShmgetCreates /\ sentrySegment' = segment'
        /\ queueThere' = TRUE /\ published' = published /\ faults' = faults
    BY <1>6 DEF SentryStarts
  <2>2. /\ segment' \in Segments /\ lastSegment' \in Segments /\ segment' # 0
        /\ lastSegment' + (IF segment' = 0 THEN 1 ELSE 0) <= faults' + 1
    BY <2>1, ShmgetCounts
  <2>3. RestartTypeOK'
    BY <1>1, <1>2, <1>3, <1>5, <2>1, <2>2 DEF RestartTypeOK
  <2>4. Counted'
    BY <1>2, <2>1, <2>2 DEF GInv, Counted, Removed
  <2> QED
    BY <1>3, <1>4, <2>3, <2>4 DEF GInv
<1>7. CASE SentryClears \/ SentryPublishes
  <2>1. /\ sentry \in {"created", "cleared"} /\ sentry' \in {"cleared", "up"}
        /\ published' \subseteq published \cup {sentrySegment}
        /\ UNCHANGED <<segment, lastSegment, queueThere, sentrySegment, faults>>
    BY <1>7 DEF SentryClears, SentryPublishes, queueVars
  <2>2. sentrySegment \in Segments
    BY <1>1, <2>1 DEF GInv, Counted, RestartTypeOK
  <2>3. RestartTypeOK'
    BY <1>1, <1>2, <1>3, <1>5, <2>1, <2>2 DEF RestartTypeOK
  <2>4. Counted'
    BY <1>2, <2>1, <2>2 DEF GInv, Counted, Removed
  <2> QED
    BY <1>3, <1>4, <2>3, <2>4 DEF GInv
<1>8. CASE SentryInterrupted
  <2>1. /\ sentry # "down" /\ sentry' = "stopping" /\ faults < MaxFaults /\ faults' = faults + 1
        /\ segment' \in {0, segment}
        /\ UNCHANGED <<lastSegment, published, queueThere, sentrySegment>>
    BY <1>8 DEF SentryInterrupted, queueVars
  <2>2. faults' \in 0..MaxFaults
    BY <1>1, <2>1, RestartAssumption DEF RestartAssumption
  <2>3. RestartTypeOK'
    BY <1>1, <1>2, <1>3, <1>5, <2>1, <2>2 DEF RestartTypeOK
  <2>4. lastSegment' + (IF segment' = 0 THEN 1 ELSE 0) <= faults' + 1
    <3>1. lastSegment <= faults + 1 /\ lastSegment' = lastSegment
      BY <1>1, <2>1 DEF GInv, Counted
    <3>2. lastSegment' + 1 <= faults' + 1
      BY <1>1, <2>1, <3>1
    <3> QED
      BY <1>1, <2>1, <3>1, <3>2
  <2>5. Counted'
    BY <1>2, <2>1, <2>4 DEF GInv, Counted, Removed
  <2> QED
    BY <1>3, <1>4, <2>3, <2>5 DEF GInv
<1> QED
  BY <1>6, <1>7, <1>8

\* The end of SentryMode keeps the invariant: the packet in the parser's hands is
\* gone, and after SIGINT every message and every sleeper.
LEMMA GhostSentryEnds ==
    ASSUME GInv, SentryKilled \/ SentryExits
    PROVE  GInv'
<1>1. RestartTypeOK /\ TypeOK /\ faults \in Nat /\ lastSegment \in Nat
  BY DEF GInv, RestartTypeOK, Segments
<1>2. /\ sentry' = "down" /\ sentrySegment' = 0
      /\ parserPc' = "recv" /\ RxCommand' = NoMessage
      /\ flagActive' = FALSE /\ flagAlarm' = FALSE /\ Disturb
      /\ UNCHANGED <<segment, lastSegment, published, attached, mapped, shmid, serverUp,
                     opening, arg, branch, msg, CommandNumber, burst, offered>>
  BY DEF SentryKilled, SentryExits, NoSentry, callerVars, memoryVars, historyVars
<1>3. NoMessage \in Message /\ disturbed' \subseteq Callers
  <2>1. NoMessage \in Message
    BY DEF NoMessage, Message
  <2> QED
    BY <1>1, <1>2, <2>1 DEF RestartTypeOK, Disturb, Opening
<1>4. CASE SentryKilled
  <2>1. /\ faults < MaxFaults /\ faults' = faults + 1 /\ ParserLeavesList
        /\ mishaps' = mishaps \cup Note("packet lost", parserPc \in {"exec", "reply"})
        /\ UNCHANGED <<pc, queue, queueThere, queueFirst, MessageQueueId>>
    BY <1>4 DEF SentryKilled, callerVars, queueVars
  <2>2. Asleep \ {Parser} \subseteq Asleep'
    BY <2>1 DEF Asleep
  <2>3. Listed' /\ sleepers' \in Seq(Callers \cup {Parser})
    BY <1>1, <2>1, <2>2, ListRemove DEF GInv
  <2>4. TypeOK'
    BY <1>1, <1>2, <1>3, <2>1, <2>3 DEF TypeOK, ParserPcs
  <2>5. CommandGiven'
    BY <1>2, <2>1 DEF GInv, CommandGiven
  <2>6. mishaps' \subseteq Mishaps
    BY <1>1, <2>1 DEF RestartTypeOK, Note, Mishaps
  <2>7. faults' \in 0..MaxFaults
    <3>1. faults < MaxFaults /\ faults' = faults + 1
      BY <2>1
    <3> QED
      BY <1>1, <3>1, RestartAssumption DEF RestartAssumption
  <2>8. RestartTypeOK'
    BY <1>1, <1>2, <1>3, <2>1, <2>4, <2>6, <2>7 DEF RestartTypeOK
  <2>9. Backed'
    <3>1. Outstanding' = Outstanding /\ InParser' = 0 /\ Len(queue') = Len(queue)
      BY <1>2, <2>1 DEF Outstanding, InParser
    <3>2. /\ Len(queue) \in Nat /\ InParser \in {0, 1} /\ InFlight = Len(queue) + InParser
          /\ InFlight' = Len(queue') + InParser'
      BY <1>1, Countable DEF InFlight
    <3>3. InFlight' \in Nat /\ InFlight \in Nat /\ InFlight' <= InFlight
      BY <3>1, <3>2
    <3>4. Causeless' => Causeless /\ MessageQueueId' = MessageQueueId
      BY <2>1 DEF Causeless
    <3> QED
      BY <3>1, <3>3, <3>4, OutstandingFinite DEF GInv, Backed
  <2>10. lastSegment' + (IF segment' = 0 THEN 1 ELSE 0) <= faults' + 1
    <3>1. lastSegment + (IF segment = 0 THEN 1 ELSE 0) <= faults + 1
      BY DEF GInv, Counted
    <3>2. lastSegment' = lastSegment /\ segment' = segment /\ faults' = faults + 1
      BY <1>2, <2>1
    <3> QED
      BY <1>1, <3>1, <3>2
  <2>11. Counted'
    BY <1>2, <2>10 DEF GInv, Counted, Removed
  <2> QED
    BY <2>3, <2>5, <2>8, <2>9, <2>11 DEF GInv
<1>5. CASE SentryExits
  <2>1. /\ faults' = faults /\ mishaps' = mishaps /\ queue' = <<>> /\ sleepers' = <<>>
        /\ queueThere' = FALSE /\ queueFirst' = FALSE
        /\ MessageQueueId' \in {"removed", MessageQueueId}
        /\ pc' = [c \in Callers |-> IF pc[c] = "asleep" THEN "got" ELSE pc[c]]
    BY <1>5 DEF SentryExits
  <2>2. TypeOK'
    <3>1. queue' \in Seq(Message) /\ sleepers' \in Seq(Callers \cup {Parser})
      BY <2>1
    <3>2. pc' \in [Callers -> CallerPcs]
      BY <1>1, <2>1 DEF TypeOK, CallerPcs
    <3> QED
      BY <1>1, <1>2, <1>3, <3>1, <3>2 DEF TypeOK, ParserPcs
  <2>3. CommandGiven' /\ Listed'
    <3>1. \A c \in Callers : pc'[c] = "set" => pc[c] = "set"
      BY <2>1
    <3> QED
      BY <1>2, <2>1, <3>1 DEF GInv, CommandGiven, Listed
  <2>4. RestartTypeOK'
    BY <1>1, <1>2, <1>3, <2>1, <2>2 DEF RestartTypeOK
  <2>5. Backed'
    <3>1. InFlight' = 0
      BY <1>2, <2>1 DEF InFlight, InParser
    <3>2. Cardinality(Outstanding') \in Nat
      <4>1. Outstanding' \subseteq Callers
        BY DEF Outstanding
      <4> QED
        BY <4>1, ChannelAssumption, FS_Subset, FS_CardinalityType DEF ChannelAssumption
    <3> QED
      BY <3>1, <3>2 DEF Backed
  <2>6. Counted'
    BY <1>2, <2>1 DEF GInv, Counted, Removed
  <2> QED
    BY <2>3, <2>4, <2>5, <2>6 DEF GInv
<1> QED
  BY <1>4, <1>5


\* Every step keeps the invariant.
LEMMA GhostNextInv == GInv /\ [RestartNext]_restartVars => GInv'
<1> SUFFICES ASSUME GInv, [RestartNext]_restartVars PROVE GInv'
  OBVIOUS
<1>1. CASE UNCHANGED vars /\ UNCHANGED <<memoryVars, queueVars, sentry, sentrySegment, opening,
                                         causeVars>> /\ serverUp' \in BOOLEAN
  <2>1. /\ TypeOK' /\ CommandGiven' /\ Listed'
        /\ Outstanding' = Outstanding /\ InFlight' = InFlight
    BY <1>1, ChannelStill
  <2>2. UNCHANGED <<segment, lastSegment, published, attached, mapped, shmid, queueThere,
                    queueFirst, MessageQueueId, sentry, sentrySegment, opening, disturbed, mishaps, faults>>
    BY <1>1 DEF memoryVars, queueVars, causeVars
  <2>3. Backed'
    BY <2>1, <2>2, StillBacked
  <2>4. RestartTypeOK' /\ Counted'
    BY <1>1, <2>1, <2>2 DEF GInv, RestartTypeOK, Counted, Removed
  <2> QED
    BY <2>1, <2>3, <2>4 DEF GInv
<1>2. CASE ServerStarts \/ UNCHANGED restartVars
  BY <1>1, <1>2 DEF ServerStarts, restartVars, processVars, GInv, RestartTypeOK
<1>3. CASE ServerEnds \/ ServerInterrupted
  <2>1. faults \in Nat /\ faults < MaxFaults /\ faults' = faults + 1 /\ Gone
    BY <1>3, WaysToGo DEF ServerEnds, ServerInterrupted, GInv, RestartTypeOK
  <2>2. faults' \in 0..MaxFaults
    BY <2>1, RestartAssumption DEF RestartAssumption
  <2> QED
    BY <2>1, <2>2, GhostServerGone
<1>4. CASE SentryStarts \/ SentryClears \/ SentryPublishes \/ SentryInterrupted
  BY <1>4, GhostSentryStarts
<1>5. CASE SentryKilled \/ SentryExits
  BY <1>5, GhostSentryEnds
<1>6. CASE \E c \in Callers : Shmget(c) \/ Shmat(c) \/ Msgget(c)
  BY <1>6, GhostOpeningSteps
<1>7. CASE \/ \E c \in Callers, k \in Commands : CallSet(c, k)
           \/ \E c \in Callers : CallDispatch(c) \/ CallReceive(c) \/ CallReturn(c)
           \/ ParserStep
  BY <1>7, GhostChannelSteps
<1> QED
  BY <1>2, <1>3, <1>4, <1>5, <1>6, <1>7 DEF RestartNext

\* It holds at the start.
LEMMA GhostInitInv == RestartInit => GInv
<1> SUFFICES ASSUME RestartInit PROVE GInv
  OBVIOUS
<1>1. 1 \in Segments /\ 0 \in 0..MaxFaults
  BY RestartAssumption DEF RestartAssumption, Segments
<1>2. TypeOK /\ CommandGiven
  BY InitInv DEF RestartInit, Init, IInv, CommandGiven
<1>3. Listed
  BY DEF RestartInit, Init, Listed
<1>4. RestartTypeOK
  BY <1>1, <1>2 DEF RestartInit, RestartTypeOK
<1>5. Backed
  <2>1. InFlight = 0
    BY DEF RestartInit, Init, InFlight, InParser
  <2> QED
    BY <2>1, OutstandingFinite DEF Backed
<1>6. Counted
  BY DEF RestartInit, Counted
<1> QED
  BY <1>2, <1>3, <1>4, <1>5, <1>6 DEF GInv

\* Whatever ends and starts, the variables keep their types; in particular the
\* segments are never more than the ends plus one.
THEOREM RestartTypes == RestartSpec => []RestartTypeOK
<1>1. GInv => RestartTypeOK
  BY DEF GInv
<1> QED
  BY <1>1, GhostInitInv, GhostNextInv, PTL DEF RestartSpec

\* Without an abandoned call or a changed or removed queue the parser has a command in its
\* hands only while a call waits: SentryMode's flags do not move for nobody,
\* however often SentryMode itself is interrupted, killed and started again.
THEOREM NoGhostWithoutCause == RestartSpec => GhostsHaveACause
<1>1. ASSUME GInv, [RestartNext]_restartVars,
             sentry = "up", sentry' = "up", Outstanding = {}, Causeless
      PROVE  UNCHANGED flagVars
  <2>1. CASE ParserStep
    <3>1. CASE ParserReceive \/ ParserReply \/ ParserWithoutQueue
      BY <3>1 DEF ParserReceive, ParserReply, ParserWithoutQueue
    <3>2. CASE ParserExecute
      <4>1. parserPc = "exec" /\ InParser = 1
        BY <3>2 DEF ParserExecute, InParser
      <4>2. InFlight \in Nat /\ InFlight # 0
        BY <1>1, <4>1 DEF GInv, RestartTypeOK, TypeOK, InFlight
      <4>3. InFlight <= Cardinality({})
        BY <1>1 DEF GInv, Backed
      <4> QED
        BY <4>2, <4>3, FS_EmptySet
    <3> QED
      BY <2>1, <3>1, <3>2 DEF ParserStep
  <2>2. CASE \/ ServerEnds \/ ServerInterrupted
             \/ \E c \in Callers : Shmget(c) \/ Shmat(c) \/ Msgget(c)
    <3>1. NoCallers \/ ServerInterrupted => UNCHANGED flagVars
      BY DEF NoCallers, ServerInterrupted
    <3>2. vars' = vars => UNCHANGED flagVars
      BY DEF vars
    <3>3. NoCallers \/ ServerInterrupted \/ vars' = vars
      BY <2>2 DEF ServerEnds, Shmget, Shmat, Msgget
    <3> QED
      BY <3>1, <3>2, <3>3
  <2>3. CASE \/ ServerStarts \/ SentryStarts \/ SentryClears \/ SentryPublishes
             \/ SentryInterrupted \/ UNCHANGED restartVars
    BY <2>3 DEF ServerStarts, SentryStarts, SentryClears, SentryPublishes, SentryInterrupted,
                restartVars, vars
  <2>4. CASE SentryExits \/ SentryKilled
    BY <1>1, <2>4 DEF SentryExits, SentryKilled, NoSentry
  <2>5. CASE \/ \E c \in Callers, k \in Commands : CallSet(c, k)
             \/ \E c \in Callers : CallDispatch(c) \/ CallReceive(c) \/ CallReturn(c)
    BY <2>5 DEF CallSet, SetCommand, CallDispatch, Dispatch, CallReceive, Receive,
                CallReturn, Return
  <2> QED
    BY <1>1, <2>1, <2>2, <2>3, <2>4, <2>5 DEF RestartNext
<1>2. GInv /\ [RestartNext]_restartVars
        => [sentry = "up" /\ sentry' = "up" /\ Outstanding = {}
              /\ mishaps \cap {"call abandoned", "queue changed", "queue removed"} = {}
                => UNCHANGED flagVars]_restartVars
  BY <1>1 DEF Causeless
<1> QED
  BY <1>2, GhostInitInv, GhostNextInv, PTL DEF RestartSpec, GhostsHaveACause
=============================================================================
