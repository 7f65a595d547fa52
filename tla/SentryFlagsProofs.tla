--------------------------- MODULE SentryFlagsProofs ---------------------------
(***************************************************************************)
(* Proofs about SentryFlags, for all operations of the threads and any     *)
(* number of signals: types, the exclusion by the semaphores while no P    *)
(* was interrupted, and the guarded flags that are then never lost.        *)
(***************************************************************************)
EXTENDS SentryFlags, TLAPS

\* The steps an operation can be at, by the semaphores it takes.
Fits(f) ==
    /\ f.pc = "P_SUSPEND" \/ f.pc = "V_SUSPEND" => "SUSPEND" \in Semaphores(f.job)
    /\ f.pc = "P_ALARM" \/ f.pc = "V_ALARM"     => "ALARM" \in Semaphores(f.job)

\* Only handlers lie on top of something, and a signal is blocked in its handler.
StackShape ==
    \A t \in Threads :
        /\ Len(stack[t]) <= 3
        /\ \A i \in 1..Len(stack[t]) : Fits(stack[t][i])
        /\ \A i \in 1..Len(stack[t]) : i > 1 => stack[t][i].job \in Handlers
        /\ \A i, j \in 1..Len(stack[t]) :
              stack[t][i].job \in Handlers /\ stack[t][i].job = stack[t][j].job => i = j

\* Operation i of thread t is under way and between its P and its V of s.
HasSem(t, i, s) == i \in 1..Len(stack[t]) /\ Holds(stack[t][i], s)

\* What semaphore s says as long as no P was interrupted.
Counts(s) ==
    /\ (\E t \in Threads, i \in 1..3 : HasSem(t, i, s)) => sem[s] = 0
    /\ (\A t \in Threads, i \in 1..3 : ~HasSem(t, i, s)) => sem[s] = 1
    /\ \A t, u \in Threads, i, j \in 1..3 :
          HasSem(t, i, s) /\ HasSem(u, j, s) => t = u /\ i = j

AllCount == ~interrupted => Counts("SUSPEND") /\ Counts("ALARM")

\* As long as nothing was lost, an operation that is about to store has the
\* present values of the flags its semaphores guard.
Fresh ==
    ~interrupted /\ lost = {} =>
        \A t \in Threads : \A i \in 1..Len(stack[t]) : stack[t][i].pc = "store" =>
            \A y \in Flags : Guard(y) \in Semaphores(stack[t][i].job) =>
                stack[t][i].byte[y] = Flag[y]

\* The inductive invariant.
IInv == TypeOK /\ StackShape /\ AllCount /\ Fresh /\ GuardedFlagKept

-----------------------------------------------------------------------------
(* The operations. *)

\* An operation takes one, both or none of the two semaphores.
LEMMA SemaphoresOf ==
    \A j \in JobNames : Semaphores(j) \in {{}, {"SUSPEND"}, {"ALARM"}, {"SUSPEND", "ALARM"}}
  BY DEF Semaphores

\* An operation has the semaphore of the flag it writes, if there is one.
LEMMA WriterHasGuard ==
    \A j \in JobNames : Guard(Target(j)) \in {"none"} \cup Semaphores(j)
  BY DEF Guard, Target, Semaphores

\* What it writes is a flag.
LEMMA WritesFlag ==
    \A j \in JobNames, b \in Bytes : Target(j) \in Flags /\ Value(j, b) \in BOOLEAN
<1> SUFFICES ASSUME NEW j \in JobNames, NEW b \in Bytes
             PROVE  Target(j) \in Flags /\ Value(j, b) \in BOOLEAN
  OBVIOUS
<1>1. Target(j) \in Flags
  BY DEF Target, Flags
<1>2. Value(j, b) \in BOOLEAN
  <2>1. CASE j = "SIGUSR1"
    BY <2>1 DEF Value
  <2>2. CASE j = "SIGUSR2"
    BY <2>2 DEF Value
  <2>3. CASE j \notin {"SIGUSR1", "SIGUSR2"}
    <3>1. Value(j, b) = (j \in {"active", "trigger_alarm", "in_long", "different"})
      BY <2>3 DEF Value
    <3> QED
      BY <3>1
  <2> QED
    BY <2>1, <2>2, <2>3
<1> QED
  BY <1>1, <1>2

\* An operation that starts is at one of its steps and holds nothing.
LEMMA StartsClean ==
    \A j \in JobNames : /\ Starting(j) \in Frame
                         /\ Fits(Starting(j))
                         /\ \A s : ~Holds(Starting(j), s)
                         /\ Starting(j).job = j
                         /\ Starting(j).pc # "store"
<1> SUFFICES ASSUME NEW j \in JobNames
             PROVE  /\ Starting(j) \in Frame /\ Fits(Starting(j))
                    /\ \A s : ~Holds(Starting(j), s)
                    /\ Starting(j).job = j /\ Starting(j).pc # "store"
  OBVIOUS
<1>1. NoByte \in Bytes
  BY DEF NoByte, Bytes
<1>2. \/ Semaphores(j) = {} /\ First(j) = "load"
      \/ Semaphores(j) = {"ALARM"} /\ First(j) = "P_ALARM"
      \/ "SUSPEND" \in Semaphores(j) /\ First(j) = "P_SUSPEND"
  BY SemaphoresOf DEF First
<1> QED
  BY <1>1, <1>2 DEF Starting, Frame, Pcs, Fits, Holds

\* The moves of an operation f from step to step, g being f at its next one.
LEMMA AfterItsP ==
    ASSUME NEW f \in Frame, Fits(f), NEW b \in Bytes, NEW s \in {"SUSPEND", "ALARM"},
           f.pc = P(s), NEW g, g = [job |-> f.job, pc |-> AfterP(f.job, s), byte |-> b]
    PROVE  /\ AfterP(f.job, s) \in Pcs
           /\ Fits(g) /\ ~Holds(f, s) /\ Holds(g, s) /\ g.pc # "store"
           /\ \A r \in {"SUSPEND", "ALARM"} \ {s} : Holds(g, r) <=> Holds(f, r)
  BY DEF Frame, Fits, Holds, P, AfterP, Pcs

LEMMA AfterItsStore ==
    ASSUME NEW f \in Frame, Fits(f), NEW b \in Bytes, f.pc \in {"load", "store"},
           NEW g, g = [job |-> f.job, pc |-> AfterStore(f.job), byte |-> b]
    PROVE  /\ AfterStore(f.job) \in Pcs \cup {"end"}
           /\ Fits(g) /\ g.pc # "store"
           /\ \A r \in {"SUSPEND", "ALARM"} :
                 (AfterStore(f.job) # "end" /\ Holds(g, r)) <=> Holds(f, r)
<1>1. f.job \in JobNames
  BY DEF Frame
<1>2. \/ "ALARM" \in Semaphores(f.job) /\ AfterStore(f.job) = "V_ALARM"
      \/ Semaphores(f.job) = {"SUSPEND"} /\ AfterStore(f.job) = "V_SUSPEND"
      \/ Semaphores(f.job) = {} /\ AfterStore(f.job) = "end"
  BY <1>1, SemaphoresOf DEF AfterStore
<1> QED
  BY <1>2 DEF Fits, Holds, Pcs

LEMMA AfterItsLoad ==
    ASSUME NEW f \in Frame, NEW b \in Bytes, f.pc = "load",
           NEW g, g = [job |-> f.job, pc |-> "store", byte |-> b]
    PROVE  Fits(g) /\ \A r \in {"SUSPEND", "ALARM"} : Holds(g, r) <=> Holds(f, r)
  BY DEF Frame, Fits, Holds

LEMMA AfterItsV ==
    ASSUME NEW f \in Frame, Fits(f), NEW b \in Bytes, NEW s \in {"SUSPEND", "ALARM"},
           f.pc = V(s), NEW g, g = [job |-> f.job, pc |-> AfterV(f.job, s), byte |-> b]
    PROVE  /\ AfterV(f.job, s) \in Pcs \cup {"end"}
           /\ Fits(g) /\ Holds(f, s) /\ g.pc # "store"
           /\ ~(AfterV(f.job, s) # "end" /\ Holds(g, s))
           /\ \A r \in {"SUSPEND", "ALARM"} \ {s} :
                 (AfterV(f.job, s) # "end" /\ Holds(g, r)) <=> Holds(f, r)
  BY DEF Frame, Fits, Holds, V, AfterV, Pcs

-----------------------------------------------------------------------------
(* The stacks. *)

\* Goto changes the innermost operation of one thread, or takes it off.
LEMMA GotoEffect ==
    ASSUME TypeOK, NEW t \in Threads, stack[t] # <<>>,
           NEW p \in Pcs \cup {"end"}, NEW b \in Bytes, Goto(t, p, b)
    PROVE  LET n == Len(stack[t])
               g == [job |-> Top(t).job, pc |-> p, byte |-> b]
           IN  /\ n \in Nat \ {0} /\ Top(t) \in Frame /\ Top(t) = stack[t][n]
               /\ stack' \in [Threads -> Seq(Frame)]
               /\ \A u \in Threads : u # t => stack'[u] = stack[u]
               /\ Len(stack'[t]) = IF p = "end" THEN n - 1 ELSE n
               /\ \A i \in 1..(n - 1) : stack'[t][i] = stack[t][i]
               /\ p # "end" => stack'[t][n] = g
<1> DEFINE n == Len(stack[t])
           g == [job |-> Top(t).job, pc |-> p, byte |-> b]
<1>1. stack[t] \in Seq(Frame) /\ n \in Nat \ {0}
  BY DEF TypeOK
<1>2. Top(t) = stack[t][n] /\ Top(t) \in Frame
  BY <1>1 DEF Top
<1>3. CASE p = "end"
  <2>1. stack' = [stack EXCEPT ![t] = SubSeq(@, 1, n - 1)]
    BY <1>3 DEF Goto
  <2>2. stack'[t] = SubSeq(stack[t], 1, n - 1)
    BY <2>1 DEF TypeOK
  <2>3. \A u \in Threads : u # t => stack'[u] = stack[u]
    BY <2>1 DEF TypeOK
  <2>4. /\ SubSeq(stack[t], 1, n - 1) \in Seq(Frame)
        /\ Len(SubSeq(stack[t], 1, n - 1)) = n - 1
        /\ \A i \in 1..(n - 1) : SubSeq(stack[t], 1, n - 1)[i] = stack[t][i]
    BY <1>1
  <2> QED
    BY <1>1, <1>2, <1>3, <2>1, <2>2, <2>3, <2>4 DEF TypeOK
<1>4. CASE p # "end"
  <2>1. stack' = [stack EXCEPT ![t] = [@ EXCEPT ![Len(@)].pc = p, ![Len(@)].byte = b]]
    BY <1>4 DEF Goto
  <2>2. stack'[t] = [stack[t] EXCEPT ![n].pc = p, ![n].byte = b]
    BY <2>1 DEF TypeOK
  <2>3. \A u \in Threads : u # t => stack'[u] = stack[u]
    BY <2>1 DEF TypeOK
  <2>4. stack'[t] = [stack[t] EXCEPT ![n] = g]
    BY <1>1, <1>2, <2>2 DEF Frame
  <2>5. g \in Frame
    BY <1>2, <1>4 DEF Frame
  <2>6. /\ stack'[t] \in Seq(Frame) /\ Len(stack'[t]) = n
        /\ \A i \in 1..(n - 1) : stack'[t][i] = stack[t][i]
        /\ stack'[t][n] = g
    BY <1>1, <2>4, <2>5
  <2> QED
    BY <1>1, <1>2, <1>4, <2>1, <2>3, <2>6 DEF TypeOK
<1> QED
  BY <1>3, <1>4

\* A move of the innermost operation, which fits, keeps the shape of the stacks.
LEMMA ShapeMove ==
    ASSUME TypeOK, StackShape, NEW t \in Threads, stack[t] # <<>>,
           NEW p \in Pcs \cup {"end"}, NEW b \in Bytes, Goto(t, p, b),
           p # "end" => Fits([job |-> Top(t).job, pc |-> p, byte |-> b])
    PROVE  StackShape'
<1> DEFINE n == Len(stack[t])
           g == [job |-> Top(t).job, pc |-> p, byte |-> b]
<1>1. /\ n \in Nat \ {0} /\ Top(t) = stack[t][n]
      /\ \A u \in Threads : u # t => stack'[u] = stack[u]
      /\ Len(stack'[t]) = IF p = "end" THEN n - 1 ELSE n
      /\ \A i \in 1..(n - 1) : stack'[t][i] = stack[t][i]
      /\ p # "end" => stack'[t][n] = g
  BY GotoEffect
<1>2. g.job = stack[t][n].job
  BY <1>1
<1>3. \A i \in 1..Len(stack'[t]) : i \in 1..n /\ stack'[t][i].job = stack[t][i].job
                                   /\ Fits(stack'[t][i])
  <2> SUFFICES ASSUME NEW i \in 1..Len(stack'[t])
               PROVE  i \in 1..n /\ stack'[t][i].job = stack[t][i].job /\ Fits(stack'[t][i])
    OBVIOUS
  <2>1. CASE i \in 1..(n - 1)
    BY <1>1, <2>1 DEF StackShape
  <2>2. CASE i = n /\ p # "end"
    BY <1>1, <1>2, <2>2
  <2> QED
    BY <1>1, <2>1, <2>2
<1>4. n <= 3 /\ Len(stack'[t]) <= 3
  BY <1>1 DEF StackShape
<1>5. ASSUME NEW u \in Threads
      PROVE  /\ Len(stack'[u]) <= 3
             /\ \A i \in 1..Len(stack'[u]) : Fits(stack'[u][i])
             /\ \A i \in 1..Len(stack'[u]) : i > 1 => stack'[u][i].job \in Handlers
             /\ \A i, j \in 1..Len(stack'[u]) :
                   stack'[u][i].job \in Handlers /\ stack'[u][i].job = stack'[u][j].job => i = j
  <2>1. CASE u = t
    BY <1>3, <1>4, <2>1 DEF StackShape
  <2>2. CASE u # t
    BY <1>1, <2>2 DEF StackShape
  <2> QED
    BY <2>1, <2>2
<1> QED
  BY <1>5 DEF StackShape

\* A move that takes, releases or keeps semaphore s, in the stack and in sem alike.
LEMMA CountsMove ==
    ASSUME TypeOK, StackShape, NEW t \in Threads, stack[t] # <<>>,
           NEW p \in Pcs \cup {"end"}, NEW b \in Bytes, Goto(t, p, b),
           NEW s \in {"SUSPEND", "ALARM"}, Counts(s), NEW after \in BOOLEAN,
           after <=> p # "end" /\ Holds([job |-> Top(t).job, pc |-> p, byte |-> b], s),
           \/ sem'[s] = sem[s] /\ (after <=> Holds(Top(t), s))
           \/ sem[s] > 0 /\ sem'[s] = sem[s] - 1 /\ ~Holds(Top(t), s) /\ after
           \/ sem'[s] = sem[s] + 1 /\ Holds(Top(t), s) /\ ~after
    PROVE  Counts(s)'
<1> DEFINE n == Len(stack[t])
           g == [job |-> Top(t).job, pc |-> p, byte |-> b]
           Before(u, i) == HasSem(u, i, s)
           After(u, i)  == i \in 1..Len(stack'[u]) /\ Holds(stack'[u][i], s)
<1>1. /\ n \in Nat \ {0} /\ Top(t) = stack[t][n]
      /\ \A u \in Threads : u # t => stack'[u] = stack[u]
      /\ Len(stack'[t]) = IF p = "end" THEN n - 1 ELSE n
      /\ \A i \in 1..(n - 1) : stack'[t][i] = stack[t][i]
      /\ p # "end" => stack'[t][n] = g
  BY GotoEffect
<1>2. n \in 1..3
  <2>1. n <= 3
    BY DEF StackShape
  <2>2. n \in Nat \ {0}
    BY <1>1
  <2> HIDE DEF n
  <2> QED
    BY <2>1, <2>2
<1>3. \A u \in Threads, i \in 1..3 : u # t => (After(u, i) <=> Before(u, i))
  BY <1>1 DEF HasSem
<1>4. \A i \in 1..3 : i # n => (After(t, i) <=> Before(t, i))
  <2> SUFFICES ASSUME NEW i \in 1..3, i # n PROVE After(t, i) <=> Before(t, i)
    OBVIOUS
  <2>1. CASE i < n
    <3>1. i \in 1..(n - 1) /\ i \in 1..n /\ i \in 1..Len(stack'[t])
      BY <1>1, <2>1
    <3> QED
      BY <1>1, <3>1 DEF HasSem
  <2>2. CASE i > n
    BY <1>1, <2>2 DEF HasSem
  <2> QED
    BY <1>1, <2>1, <2>2
<1>5. After(t, n) <=> after
  <2>1. CASE p = "end"
    BY <1>1, <2>1
  <2>2. CASE p # "end"
    BY <1>1, <2>2
  <2> QED
    BY <2>1, <2>2
<1>6. Before(t, n) <=> Holds(Top(t), s)
  BY <1>1 DEF HasSem
<1>7. sem[s] \in {0, 1}
  BY DEF Counts
<1> HIDE DEF Before, After, n
<1>8. /\ (\E u \in Threads, i \in 1..3 : Before(u, i)) => sem[s] = 0
      /\ (\A u \in Threads, i \in 1..3 : ~Before(u, i)) => sem[s] = 1
      /\ \A u, v \in Threads, i, j \in 1..3 : Before(u, i) /\ Before(v, j) => u = v /\ i = j
  BY DEF Counts, Before
<1>9. /\ (\E u \in Threads, i \in 1..3 : After(u, i)) => sem'[s] = 0
      /\ (\A u \in Threads, i \in 1..3 : ~After(u, i)) => sem'[s] = 1
      /\ \A u, v \in Threads, i, j \in 1..3 : After(u, i) /\ After(v, j) => u = v /\ i = j
  <2>1. CASE sem'[s] = sem[s] /\ (after <=> Holds(Top(t), s))
    <3>1. \A u \in Threads, i \in 1..3 : After(u, i) <=> Before(u, i)
      BY <1>3, <1>4, <1>5, <1>6, <2>1
    <3> QED
      BY <1>8, <2>1, <3>1
  <2>2. CASE sem[s] > 0 /\ sem'[s] = sem[s] - 1 /\ ~Holds(Top(t), s) /\ after
    <3>1. sem[s] = 1 /\ sem'[s] = 0 /\ \A u \in Threads, i \in 1..3 : ~Before(u, i)
      BY <1>7, <1>8, <2>2
    <3>2. \A u \in Threads, i \in 1..3 : After(u, i) <=> u = t /\ i = n
      BY <1>3, <1>4, <1>5, <2>2, <3>1
    <3> QED
      BY <1>2, <3>1, <3>2
  <2>3. CASE sem'[s] = sem[s] + 1 /\ Holds(Top(t), s) /\ ~after
    <3>1. Before(t, n) /\ sem[s] = 0 /\ sem'[s] = 1
      BY <1>2, <1>6, <1>7, <1>8, <2>3
    <3>2. \A u \in Threads, i \in 1..3 : ~After(u, i)
      BY <1>2, <1>3, <1>4, <1>5, <1>8, <2>3, <3>1
    <3> QED
      BY <3>1, <3>2
  <2> QED
    BY <2>1, <2>2, <2>3
<1> QED
  BY <1>9 DEF Counts, HasSem, After

\* Operation h may start on top of the operations st ...
Pushable(st, h) ==
    /\ st \in Seq(Frame) /\ h \in JobNames
    /\ Len(st) <= 2
    /\ Len(st) > 0 => h \in Handlers
    /\ \A i \in 1..Len(st) : Fits(st[i]) /\ st[i].job # h /\ (i > 1 => st[i].job \in Handlers)
    /\ \A i, j \in 1..Len(st) : st[i].job \in Handlers /\ st[i].job = st[j].job => i = j

\* ... and thread t comes to have it there.
Pushed(t, st, h) ==
    /\ Len(stack'[t]) = Len(st) + 1
    /\ stack'[t][Len(st) + 1] = Starting(h)
    /\ \A i \in 1..Len(st) : stack'[t][i] = st[i]
    /\ \A u \in Threads : u # t => stack'[u] = stack[u]

\* A new operation on top of what may be left of thread t's stack.
LEMMA Push ==
    ASSUME TypeOK, StackShape, NEW t \in Threads, NEW st, NEW h, Pushable(st, h),
           stack' = [stack EXCEPT ![t] = Append(st, Starting(h))]
    PROVE  stack' \in [Threads -> Seq(Frame)] /\ StackShape' /\ Pushed(t, st, h)
<1> USE DEF Pushable
<1>1. Starting(h) \in Frame /\ Fits(Starting(h)) /\ Starting(h).job = h
  BY StartsClean
<1>2. Len(st) \in Nat
  OBVIOUS
<1>3. /\ stack'[t] = Append(st, Starting(h))
      /\ \A u \in Threads : u # t => stack'[u] = stack[u]
  BY DEF TypeOK
<1>4. /\ stack'[t] \in Seq(Frame) /\ Len(stack'[t]) = Len(st) + 1
      /\ stack'[t][Len(st) + 1] = Starting(h)
      /\ \A i \in 1..Len(st) : stack'[t][i] = st[i]
  BY <1>1, <1>3
<1>5. stack' \in [Threads -> Seq(Frame)]
  BY <1>3, <1>4 DEF TypeOK
<1>6. /\ Len(stack'[t]) <= 3
      /\ \A i \in 1..Len(stack'[t]) : Fits(stack'[t][i])
      /\ \A i \in 1..Len(stack'[t]) : i > 1 => stack'[t][i].job \in Handlers
      /\ \A i, j \in 1..Len(stack'[t]) :
            stack'[t][i].job \in Handlers /\ stack'[t][i].job = stack'[t][j].job => i = j
  <2>1. \A i \in 1..Len(stack'[t]) : i \in 1..Len(st) \/ i = Len(st) + 1
    BY <1>2, <1>4
  <2>2. \A i \in 1..Len(stack'[t]) : Fits(stack'[t][i])
    BY <1>1, <1>4, <2>1
  <2>3. \A i \in 1..Len(stack'[t]) : i > 1 => stack'[t][i].job \in Handlers
    BY <1>1, <1>2, <1>4, <2>1
  <2>4. \A i, j \in 1..Len(stack'[t]) :
           stack'[t][i].job \in Handlers /\ stack'[t][i].job = stack'[t][j].job => i = j
    BY <1>1, <1>4, <2>1
  <2> QED
    BY <1>2, <1>4, <2>2, <2>3, <2>4
<1>7. StackShape'
  BY <1>3, <1>6 DEF StackShape
<1> QED
  BY <1>3, <1>4, <1>5, <1>7 DEF Pushed

\* An operation that starts holds nothing, so it leaves every count as it is.
LEMMA CountsPush ==
    ASSUME TypeOK, StackShape, NEW t \in Threads, NEW st \in Seq(Frame), NEW h \in JobNames,
           Pushed(t, st, h),
           \/ st = stack[t]
           \/ stack[t] = <<>> /\ \A i \in 1..Len(st) : \A r : ~Holds(st[i], r),
           NEW s \in {"SUSPEND", "ALARM"}, Counts(s), sem'[s] = sem[s]
    PROVE  Counts(s)'
<1> USE DEF Pushed
<1> DEFINE Before(u, i) == HasSem(u, i, s)
           After(u, i)  == i \in 1..Len(stack'[u]) /\ Holds(stack'[u][i], s)
<1>1. ~Holds(Starting(h), s)
  BY StartsClean
<1>2. Len(st) \in Nat /\ Len(stack[t]) \in Nat
  BY DEF TypeOK
<1>3. ASSUME NEW i \in 1..3 PROVE After(t, i) <=> Before(t, i)
  <2>1. After(t, i) <=> i \in 1..Len(st) /\ Holds(st[i], s)
    BY <1>1, <1>2
  <2>2. CASE st = stack[t]
    BY <2>1, <2>2 DEF HasSem
  <2>3. CASE stack[t] = <<>> /\ \A j \in 1..Len(st) : \A r : ~Holds(st[j], r)
    <3>1. Len(stack[t]) = 0
      BY <2>3
    <3>2. ~Before(t, i)
      BY <3>1 DEF HasSem
    <3> QED
      BY <2>1, <2>3, <3>2
  <2> QED
    BY <2>2, <2>3
<1>4. ASSUME NEW u \in Threads, NEW i \in 1..3, u # t PROVE After(u, i) <=> Before(u, i)
  BY <1>4 DEF HasSem
<1>5. \A u \in Threads, i \in 1..3 : After(u, i) <=> Before(u, i)
  BY <1>3, <1>4
<1>6. \A u \in Threads, i \in 1..3 : HasSem(u, i, s)' <=> HasSem(u, i, s)
  BY <1>5 DEF HasSem
<1> QED
  BY <1>6 DEF Counts

-----------------------------------------------------------------------------
(* What an operation is about to store. *)

\* A move to another step than the store makes nothing stale.
LEMMA FreshMove ==
    ASSUME TypeOK, StackShape, Fresh, NEW t \in Threads, stack[t] # <<>>,
           NEW p \in Pcs \cup {"end"}, NEW b \in Bytes, Goto(t, p, b), p # "store",
           UNCHANGED <<Flag, lost, interrupted>>
    PROVE  Fresh'
<1> DEFINE n == Len(stack[t])
<1>1. /\ n \in Nat \ {0}
      /\ \A u \in Threads : u # t => stack'[u] = stack[u]
      /\ Len(stack'[t]) = IF p = "end" THEN n - 1 ELSE n
      /\ \A i \in 1..(n - 1) : stack'[t][i] = stack[t][i]
      /\ p # "end" => stack'[t][n] = [job |-> Top(t).job, pc |-> p, byte |-> b]
  BY GotoEffect
<1>2. ASSUME NEW u \in Threads, NEW i \in 1..Len(stack'[u]), stack'[u][i].pc = "store"
      PROVE  i \in 1..Len(stack[u]) /\ stack'[u][i] = stack[u][i]
  <2>1. CASE u = t
    <3>1. i \in 1..(n - 1) \/ (i = n /\ p # "end")
      BY <1>1, <2>1
    <3>2. i \in 1..(n - 1)
      <4>1. SUFFICES ASSUME i = n, p # "end" PROVE FALSE
        BY <3>1
      <4>2. stack'[t][n].pc = p
        BY <1>1, <4>1
      <4> QED
        BY <1>2, <2>1, <4>1, <4>2
    <3> QED
      BY <1>1, <2>1, <3>2
  <2>2. CASE u # t
    BY <1>1, <2>2
  <2> QED
    BY <2>1, <2>2
<1>3. ASSUME ~interrupted, lost = {}, NEW u \in Threads, NEW i \in 1..Len(stack'[u]),
             stack'[u][i].pc = "store", NEW y \in Flags,
             Guard(y) \in Semaphores(stack'[u][i].job)
      PROVE  stack'[u][i].byte[y] = Flag[y]
  <2>1. i \in 1..Len(stack[u]) /\ stack'[u][i] = stack[u][i]
    BY <1>2, <1>3
  <2>2. stack[u][i].byte[y] = Flag[y]
    BY <1>3, <2>1 DEF Fresh
  <2> QED
    BY <2>1, <2>2
<1> QED
  BY <1>3 DEF Fresh

\* Nor does an operation that starts on top of others.
LEMMA FreshPush ==
    ASSUME TypeOK, Fresh, NEW t \in Threads, NEW st \in Seq(Frame), NEW h \in JobNames,
           Pushed(t, st, h),
           st = stack[t] \/ \A i \in 1..Len(st) : st[i].pc # "store",
           UNCHANGED <<Flag, lost, interrupted>>
    PROVE  Fresh'
<1> USE DEF Pushed
<1>1. ASSUME NEW u \in Threads, NEW i \in 1..Len(stack'[u]), stack'[u][i].pc = "store"
      PROVE  i \in 1..Len(stack[u]) /\ stack'[u][i] = stack[u][i]
  <2>1. CASE u = t
    <3>1. Starting(h).pc # "store"
      BY StartsClean
    <3>2. Len(st) \in Nat
      OBVIOUS
    <3>3. i \in 1..Len(st) \/ i = Len(st) + 1
      BY <2>1, <3>2
    <3>4. i \in 1..Len(st) /\ stack'[t][i] = st[i]
      BY <1>1, <2>1, <3>1, <3>3
    <3> QED
      BY <1>1, <2>1, <3>4
  <2>2. CASE u # t
    BY <2>2
  <2> QED
    BY <2>1, <2>2
<1> HIDE DEF Pushed
<1>2. ASSUME ~interrupted, lost = {}, NEW u \in Threads, NEW i \in 1..Len(stack'[u]),
             stack'[u][i].pc = "store", NEW y \in Flags,
             Guard(y) \in Semaphores(stack'[u][i].job)
      PROVE  stack'[u][i].byte[y] = Flag[y]
  <2>1. i \in 1..Len(stack[u]) /\ stack'[u][i] = stack[u][i]
    BY <1>1, <1>2
  <2>2. stack[u][i].byte[y] = Flag[y]
    BY <1>2, <2>1 DEF Fresh
  <2> QED
    BY <2>1, <2>2
<1> QED
  BY <1>2 DEF Fresh

-----------------------------------------------------------------------------
(* Init and the steps. *)

LEMMA InitFlags == Init => IInv
<1> SUFFICES ASSUME Init PROVE IInv
  OBVIOUS
<1>1. TypeOK
  <2>1. <<>> \in Seq(Frame)
    OBVIOUS
  <2>2. stack \in [Threads -> Seq(Frame)]
    BY <2>1 DEF Init
  <2>3. Flag \in Bytes /\ sem \in [{"SUSPEND", "ALARM"} -> Nat]
    BY DEF Init, Bytes
  <2>4. RxCommand \in JobsOf("parser") \cup {"none"} /\ interrupted \in BOOLEAN
    BY DEF Init
  <2>5. signals \in 0..MaxSignals
    BY FlagsAssumption DEF Init
  <2>6. pending \subseteq Handlers /\ lost \subseteq JobNames \X Flags
    BY DEF Init
  <2> QED
    BY <2>2, <2>3, <2>4, <2>5, <2>6 DEF TypeOK
<1>2. \A t \in Threads : stack[t] = <<>> /\ Len(stack[t]) = 0
  BY DEF Init
<1>3. StackShape /\ Fresh
  BY <1>2 DEF StackShape, Fresh
<1>4. AllCount
  BY <1>2 DEF Init, AllCount, Counts, HasSem
<1>5. GuardedFlagKept
  BY DEF Init, GuardedFlagKept
<1> QED
  BY <1>1, <1>3, <1>4, <1>5 DEF IInv

\* The facts about the innermost operation that every step of a thread needs.
LEMMA TopFits ==
    ASSUME TypeOK, StackShape, NEW t \in Threads, stack[t] # <<>>
    PROVE  /\ Len(stack[t]) \in 1..3 /\ Top(t) = stack[t][Len(stack[t])]
           /\ Top(t) \in Frame /\ Fits(Top(t)) /\ Top(t).job \in JobNames
           /\ Top(t).byte \in Bytes
<1>1. stack[t] \in Seq(Frame) /\ Len(stack[t]) \in Nat \ {0}
  BY DEF TypeOK
<1>2. Len(stack[t]) <= 3
  BY DEF StackShape
<1>3. Len(stack[t]) \in 1..3 /\ Len(stack[t]) \in 1..Len(stack[t])
  <2> DEFINE n == Len(stack[t])
  <2>1. n \in Nat \ {0} /\ n <= 3
    BY <1>1, <1>2
  <2> HIDE DEF n
  <2>2. n \in 1..3 /\ n \in 1..n
    BY <2>1
  <2> QED
    BY <2>2 DEF n
<1>4. stack[t][Len(stack[t])] \in Frame /\ Fits(stack[t][Len(stack[t])])
  BY <1>1, <1>3 DEF StackShape
<1> QED
  BY <1>3, <1>4 DEF Top, Frame

\* P(s).
LEMMA PKeeps ==
    ASSUME IInv, NEW t \in Threads, NEW s \in {"SUSPEND", "ALARM"}, PStep(t, s)
    PROVE  IInv'
<1> DEFINE f == Top(t)
           p == AfterP(f.job, s)
           g == [job |-> f.job, pc |-> p, byte |-> NoByte]
<1>1. /\ TypeOK /\ StackShape /\ AllCount /\ Fresh /\ GuardedFlagKept
      /\ stack[t] # <<>> /\ f.pc = P(s) /\ sem[s] > 0
      /\ sem' = [sem EXCEPT ![s] = @ - 1]
      /\ Goto(t, p, NoByte)
      /\ UNCHANGED <<Flag, RxCommand, pending, signals, interrupted, lost>>
  BY DEF IInv, PStep, At
<1>2. NoByte \in Bytes /\ f \in Frame /\ Fits(f)
  BY <1>1, TopFits DEF NoByte, Bytes
<1>3. /\ p \in Pcs /\ Fits(g) /\ ~Holds(f, s) /\ Holds(g, s) /\ g.pc # "store"
      /\ \A r \in {"SUSPEND", "ALARM"} \ {s} : Holds(g, r) <=> Holds(f, r)
  BY <1>1, <1>2, AfterItsP
<1>4. p # "store" /\ p # "end"
  BY <1>3 DEF Pcs
<1> HIDE DEF p
<1>5. stack' \in [Threads -> Seq(Frame)]
  BY <1>1, <1>2, <1>3, GotoEffect
<1>6. TypeOK'
  BY <1>1, <1>5 DEF TypeOK
<1>7. StackShape'
  BY <1>1, <1>2, <1>3, ShapeMove
<1>8. ASSUME NEW r \in {"SUSPEND", "ALARM"}, Counts(r) PROVE Counts(r)'
  <2>1. CASE r = s
    <3>1. sem'[r] = sem[r] - 1
      BY <1>1, <2>1 DEF TypeOK
    <3> QED
      BY <1>1, <1>2, <1>3, <1>4, <1>8, <2>1, <3>1, CountsMove
  <2>2. CASE r # s
    <3>1. sem'[r] = sem[r]
      BY <1>1, <2>2 DEF TypeOK
    <3> QED
      BY <1>1, <1>2, <1>3, <1>4, <1>8, <2>2, <3>1, CountsMove
  <2> QED
    BY <2>1, <2>2
<1>9. AllCount'
  BY <1>1, <1>8 DEF AllCount
<1>10. Fresh' /\ GuardedFlagKept'
  BY <1>1, <1>2, <1>3, <1>4, FreshMove DEF GuardedFlagKept
<1> QED
  BY <1>6, <1>7, <1>9, <1>10 DEF IInv

\* V(s).
LEMMA VKeeps ==
    ASSUME IInv, NEW t \in Threads, NEW s \in {"SUSPEND", "ALARM"}, VStep(t, s)
    PROVE  IInv'
<1> DEFINE f == Top(t)
           p == AfterV(f.job, s)
           g == [job |-> f.job, pc |-> p, byte |-> NoByte]
<1>1. /\ TypeOK /\ StackShape /\ AllCount /\ Fresh /\ GuardedFlagKept
      /\ stack[t] # <<>> /\ f.pc = V(s)
      /\ sem' = [sem EXCEPT ![s] = @ + 1]
      /\ Goto(t, p, NoByte)
      /\ UNCHANGED <<Flag, RxCommand, pending, signals, interrupted, lost>>
  BY DEF IInv, VStep, At
<1>2. NoByte \in Bytes /\ f \in Frame /\ Fits(f)
  BY <1>1, TopFits DEF NoByte, Bytes
<1>3. /\ p \in Pcs \cup {"end"} /\ Fits(g) /\ Holds(f, s) /\ g.pc # "store"
      /\ ~(p # "end" /\ Holds(g, s))
      /\ \A r \in {"SUSPEND", "ALARM"} \ {s} : (p # "end" /\ Holds(g, r)) <=> Holds(f, r)
  BY <1>1, <1>2, AfterItsV
<1>4. p # "store"
  BY <1>3
<1> HIDE DEF p
<1>5. stack' \in [Threads -> Seq(Frame)]
  BY <1>1, <1>2, <1>3, GotoEffect
<1>6. TypeOK'
  BY <1>1, <1>5 DEF TypeOK
<1>7. StackShape'
  BY <1>1, <1>2, <1>3, ShapeMove
<1>8. ASSUME NEW r \in {"SUSPEND", "ALARM"}, Counts(r) PROVE Counts(r)'
  <2>1. CASE r = s
    <3>1. sem'[r] = sem[r] + 1
      BY <1>1, <2>1 DEF TypeOK
    <3> QED
      BY <1>1, <1>2, <1>3, <1>8, <2>1, <3>1, CountsMove
  <2>2. CASE r # s
    <3>1. sem'[r] = sem[r]
      BY <1>1, <2>2 DEF TypeOK
    <3> QED
      BY <1>1, <1>2, <1>3, <1>8, <2>2, <3>1, CountsMove
  <2> QED
    BY <2>1, <2>2
<1>9. AllCount'
  BY <1>1, <1>8 DEF AllCount
<1>10. Fresh' /\ GuardedFlagKept'
  BY <1>1, <1>2, <1>3, <1>4, FreshMove DEF GuardedFlagKept
<1> QED
  BY <1>6, <1>7, <1>9, <1>10 DEF IInv

\* Loading the byte: what is loaded is the present byte.
LEMMA LoadKeeps ==
    ASSUME IInv, NEW t \in Threads, Load(t)
    PROVE  IInv'
<1> DEFINE f == Top(t)
           n == Len(stack[t])
<1>1. /\ TypeOK /\ StackShape /\ AllCount /\ Fresh /\ GuardedFlagKept
      /\ stack[t] # <<>> /\ f.pc = "load"
      /\ UNCHANGED <<Flag, sem, RxCommand, pending, signals, interrupted, lost>>
  BY DEF IInv, Load, At
<1>2. NoByte \in Bytes /\ Flag \in Bytes /\ f \in Frame /\ Fits(f)
  BY <1>1, TopFits DEF NoByte, Bytes, TypeOK
<1>3. /\ TypeOK' /\ StackShape' /\ Fresh'
      /\ \A r \in {"SUSPEND", "ALARM"} : Counts(r) => Counts(r)'
  <2>1. CASE Writes(f.job, Flag)
    <3> DEFINE g == [job |-> f.job, pc |-> "store", byte |-> Flag]
    <3>1. Goto(t, "store", Flag)
      BY <2>1 DEF Load
    <3>2. "store" \in Pcs /\ "store" # "end"
      BY DEF Pcs
    <3>3. Fits(g) /\ \A r \in {"SUSPEND", "ALARM"} : Holds(g, r) <=> Holds(f, r)
      BY <1>1, <1>2, AfterItsLoad
    <3>4. /\ n \in Nat \ {0}
          /\ stack' \in [Threads -> Seq(Frame)]
          /\ \A u \in Threads : u # t => stack'[u] = stack[u]
          /\ Len(stack'[t]) = n
          /\ \A i \in 1..(n - 1) : stack'[t][i] = stack[t][i]
          /\ stack'[t][n] = g
      BY <1>1, <1>2, <3>1, <3>2, GotoEffect
    <3>5. TypeOK'
      BY <1>1, <3>4 DEF TypeOK
    <3>6. StackShape'
      BY <1>1, <1>2, <3>1, <3>2, <3>3, ShapeMove
    <3>7. ASSUME NEW u \in Threads, NEW i \in 1..Len(stack'[u]), ~interrupted, lost = {},
                 stack'[u][i].pc = "store",
                 NEW y \in Flags, Guard(y) \in Semaphores(stack'[u][i].job)
          PROVE  stack'[u][i].byte[y] = Flag[y]
      <4>1. CASE u = t /\ i = n
        BY <3>4, <4>1
      <4>2. CASE u = t /\ i # n
        <5>1. i \in 1..(n - 1) /\ i \in 1..Len(stack[t])
          BY <3>4, <4>2
        <5>2. stack'[u][i] = stack[t][i]
          BY <3>4, <4>2, <5>1
        <5>3. stack[t][i].pc = "store" /\ Guard(y) \in Semaphores(stack[t][i].job)
          BY <3>7, <5>2
        <5>4. stack[t][i].byte[y] = Flag[y]
          BY <1>1, <3>7, <5>1, <5>3 DEF Fresh
        <5> QED
          BY <5>2, <5>4
      <4>3. CASE u # t
        <5>1. stack'[u] = stack[u]
          BY <3>4, <4>3
        <5>2. \A x \in Flags : Guard(x) \in Semaphores(stack[u][i].job) =>
                 stack[u][i].byte[x] = Flag[x]
          BY <1>1, <3>7, <5>1 DEF Fresh
        <5> QED
          BY <3>7, <5>1, <5>2
      <4> QED
        BY <4>1, <4>2, <4>3
    <3>8. Fresh'
      BY <1>1, <3>7 DEF Fresh
    <3>9. ASSUME NEW r \in {"SUSPEND", "ALARM"}, Counts(r) PROVE Counts(r)'
      BY <1>1, <1>2, <3>1, <3>2, <3>3, <3>9, CountsMove
    <3> QED
      BY <3>5, <3>6, <3>8, <3>9
  <2>2. CASE ~Writes(f.job, Flag)
    <3> DEFINE p == AfterStore(f.job)
               g == [job |-> f.job, pc |-> p, byte |-> NoByte]
    <3>1. Goto(t, p, NoByte)
      BY <2>2 DEF Load
    <3>2. /\ p \in Pcs \cup {"end"} /\ Fits(g) /\ g.pc # "store"
          /\ \A r \in {"SUSPEND", "ALARM"} : (p # "end" /\ Holds(g, r)) <=> Holds(f, r)
      BY <1>1, <1>2, AfterItsStore
    <3>3. p # "store"
      BY <3>2
    <3> HIDE DEF p
    <3>4. stack' \in [Threads -> Seq(Frame)]
      BY <1>1, <1>2, <3>1, <3>2, GotoEffect
    <3>5. TypeOK' /\ StackShape' /\ Fresh'
      BY <1>1, <1>2, <3>1, <3>2, <3>3, <3>4, ShapeMove, FreshMove DEF TypeOK
    <3>6. ASSUME NEW r \in {"SUSPEND", "ALARM"}, Counts(r) PROVE Counts(r)'
      BY <1>1, <1>2, <3>1, <3>2, <3>6, CountsMove
    <3> QED
      BY <3>5, <3>6
  <2> QED
    BY <2>1, <2>2
<1>4. AllCount'
  BY <1>1, <1>3 DEF AllCount
<1>5. GuardedFlagKept'
  BY <1>1 DEF GuardedFlagKept
<1> QED
  BY <1>3, <1>4, <1>5 DEF IInv

\* As long as no P was interrupted, two operations that are about to store do not
\* hold the same semaphore.
LEMMA StoresApart ==
    ASSUME TypeOK, StackShape, AllCount, ~interrupted
    PROVE  \A t, u \in Threads, i, j \in Nat : \A s :
              /\ i \in 1..Len(stack[t]) /\ stack[t][i].pc = "store"
              /\ j \in 1..Len(stack[u]) /\ stack[u][j].pc = "store"
              /\ s \in Semaphores(stack[t][i].job) /\ s \in Semaphores(stack[u][j].job)
              => t = u /\ i = j
<1> SUFFICES ASSUME NEW t \in Threads, NEW u \in Threads, NEW i \in Nat, NEW j \in Nat, NEW s,
                    i \in 1..Len(stack[t]), stack[t][i].pc = "store",
                    j \in 1..Len(stack[u]), stack[u][j].pc = "store",
                    s \in Semaphores(stack[t][i].job), s \in Semaphores(stack[u][j].job)
             PROVE  t = u /\ i = j
  OBVIOUS
<1>1. Len(stack[t]) \in Nat /\ Len(stack[u]) \in Nat
  BY DEF TypeOK
<1>2. Len(stack[t]) <= 3 /\ Len(stack[u]) <= 3
  BY DEF StackShape
<1>3. i \in 1..3 /\ j \in 1..3
  <2> DEFINE m == Len(stack[t])
             n == Len(stack[u])
  <2>1. m \in Nat /\ n \in Nat /\ m <= 3 /\ n <= 3 /\ i \in 1..m /\ j \in 1..n
    BY <1>1, <1>2
  <2> HIDE DEF m, n
  <2> QED
    BY <2>1
<1>4. HasSem(t, i, s) /\ HasSem(u, j, s)
  BY DEF HasSem, Holds
<1>5. stack[t][i].job \in JobNames
  <2>1. stack[t] \in Seq(Frame)
    BY DEF TypeOK
  <2>2. stack[t][i] \in Frame
    BY <2>1
  <2> QED
    BY <2>2 DEF Frame
<1>6. s \in {"SUSPEND", "ALARM"}
  BY <1>5, SemaphoresOf
<1> QED
  BY <1>3, <1>4, <1>6 DEF AllCount, Counts

\* Storing the byte: another flag whose semaphore the operation does not hold may
\* get an old value; then lost is no longer empty.
LEMMA StoreKeeps ==
    ASSUME IInv, NEW t \in Threads, Store(t)
    PROVE  IInv'
<1> DEFINE f == Top(t)
           n == Len(stack[t])
           p == AfterStore(f.job)
           g == [job |-> f.job, pc |-> p, byte |-> NoByte]
           undone == {<<f.job, x>> : x \in {y \in Flags \ {Target(f.job)} :
                                              f.byte[y] # Flag[y]}}
<1>1. /\ TypeOK /\ StackShape /\ AllCount /\ Fresh /\ GuardedFlagKept
      /\ stack[t] # <<>> /\ f.pc = "store"
      /\ Flag' = [f.byte EXCEPT ![Target(f.job)] = Value(f.job, f.byte)]
      /\ lost' = IF lost = {} THEN undone ELSE lost
      /\ Goto(t, p, NoByte)
      /\ UNCHANGED <<sem, RxCommand, pending, signals, interrupted>>
  BY DEF IInv, Store, At
<1>2. /\ NoByte \in Bytes /\ f \in Frame /\ Fits(f) /\ f.job \in JobNames
      /\ f.byte \in Bytes /\ n \in 1..3 /\ f = stack[t][n]
  BY <1>1, TopFits DEF NoByte, Bytes
<1>3. /\ p \in Pcs \cup {"end"} /\ Fits(g) /\ g.pc # "store"
      /\ \A r \in {"SUSPEND", "ALARM"} : (p # "end" /\ Holds(g, r)) <=> Holds(f, r)
  BY <1>1, <1>2, AfterItsStore
<1>4. p # "store"
  BY <1>3
<1>5. Target(f.job) \in Flags /\ Value(f.job, f.byte) \in BOOLEAN
  BY <1>2, WritesFlag
<1> HIDE DEF p
<1>6. /\ n \in Nat \ {0}
      /\ stack' \in [Threads -> Seq(Frame)]
      /\ \A u \in Threads : u # t => stack'[u] = stack[u]
      /\ Len(stack'[t]) = IF p = "end" THEN n - 1 ELSE n
      /\ \A i \in 1..(n - 1) : stack'[t][i] = stack[t][i]
      /\ p # "end" => stack'[t][n] = g
  BY <1>1, <1>2, <1>3, GotoEffect
<1>7. TypeOK'
  <2>1. Flag' \in Bytes
    BY <1>1, <1>2, <1>5 DEF Bytes
  <2>2. undone \subseteq JobNames \X Flags
    BY <1>2
  <2> QED
    BY <1>1, <1>6, <2>1, <2>2 DEF TypeOK
<1>8. StackShape'
  BY <1>1, <1>2, <1>3, ShapeMove
<1>9. ASSUME NEW r \in {"SUSPEND", "ALARM"}, Counts(r) PROVE Counts(r)'
  BY <1>1, <1>2, <1>3, <1>9, CountsMove
<1>10. AllCount'
  BY <1>1, <1>9 DEF AllCount
<1>11. ASSUME ~interrupted, lost = {}, NEW y \in Flags, Guard(y) \in Semaphores(f.job)
       PROVE  f.byte[y] = Flag[y]
  <2>1. n \in 1..Len(stack[t])
    BY <1>6
  <2>2. stack[t][n].pc = "store"
    BY <1>1, <1>2
  <2> QED
    BY <1>1, <1>2, <1>11, <2>1, <2>2 DEF Fresh
<1>12. GuardedFlagKept'
  <2>1. CASE lost = {}
    <3>1. ASSUME ~interrupted, NEW x \in undone PROVE Guard(x[2]) \notin Semaphores(x[1])
      <4>1. PICK y \in Flags : x = <<f.job, y>> /\ f.byte[y] # Flag[y]
        BY <3>1
      <4> QED
        BY <1>11, <2>1, <3>1, <4>1
    <3> QED
      BY <1>1, <2>1, <3>1 DEF GuardedFlagKept
  <2>2. CASE lost # {}
    BY <1>1, <2>2 DEF GuardedFlagKept
  <2> QED
    BY <2>1, <2>2
<1>13. Fresh'
  <2> SUFFICES ASSUME ~interrupted', lost' = {},
                      NEW u \in Threads, NEW i \in 1..Len(stack'[u]),
                      stack'[u][i].pc = "store",
                      NEW y \in Flags, Guard(y) \in Semaphores(stack'[u][i].job)
               PROVE  stack'[u][i].byte[y] = Flag'[y]
    BY DEF Fresh
  <2>1. ~interrupted /\ lost = {} /\ undone = {}
    BY <1>1
  <2>2. \A x \in Flags \ {Target(f.job)} : f.byte[x] = Flag[x]
    BY <2>1
  <2>3. \A x \in Flags \ {Target(f.job)} : Flag'[x] = Flag[x]
    BY <1>1, <1>2, <2>2 DEF Bytes
  <2>4. i \in 1..Len(stack[u]) /\ stack'[u][i] = stack[u][i] /\ ~(u = t /\ i = n)
    <3>1. CASE u = t
      <4>1. i \in 1..(n - 1) \/ (i = n /\ p # "end")
        BY <1>6, <3>1
      <4>2. i \in 1..(n - 1)
        <5>1. SUFFICES ASSUME i = n, p # "end" PROVE FALSE
          BY <4>1
        <5>2. stack'[t][n] = g
          BY <1>6, <5>1
        <5>3. stack'[t][n].pc # "store"
          BY <1>3, <5>2
        <5> QED
          BY <3>1, <5>1, <5>3
      <4> QED
        BY <1>6, <3>1, <4>2
    <3>2. CASE u # t
      BY <1>6, <3>2
    <3> QED
      BY <3>1, <3>2
  <2>5. stack[u][i].byte[y] = Flag[y]
    BY <1>1, <2>1, <2>4 DEF Fresh
  <2>6. y # Target(f.job)
    <3>1. SUFFICES ASSUME y = Target(f.job) PROVE FALSE
      OBVIOUS
    <3>2. stack[u][i].job \in JobNames
      <4>1. stack[u] \in Seq(Frame)
        BY <1>1 DEF TypeOK
      <4>2. stack[u][i] \in Frame
        BY <2>4, <4>1
      <4> QED
        BY <4>2 DEF Frame
    <3>3. Guard(y) # "none"
      BY <2>4, <3>2, SemaphoresOf
    <3>4. Guard(y) \in Semaphores(f.job)
      BY <1>2, <3>1, <3>3, WriterHasGuard
    <3>5. n \in 1..Len(stack[t]) /\ stack[t][n].pc = "store"
      BY <1>1, <1>2, <1>6
    <3>6. Guard(y) \in Semaphores(stack[t][n].job) /\ Guard(y) \in Semaphores(stack[u][i].job)
      BY <1>2, <2>4, <3>4
    <3>7. stack[u][i].pc = "store"
      BY <2>4
    <3>8. t = u /\ n = i
      <4>1. TypeOK /\ StackShape /\ AllCount /\ ~interrupted
        BY <1>1, <2>1
      <4>2. i \in 1..Len(stack[u])
        BY <2>4
      <4>3. n \in 1..Len(stack[t]) /\ stack[t][n].pc = "store"
        BY <3>5
      <4> DEFINE s == Guard(y)
      <4>4. s \in Semaphores(stack[t][n].job) /\ s \in Semaphores(stack[u][i].job)
        BY <3>6
      <4>5. n \in Nat /\ i \in Nat
        BY <1>6
      <4> HIDE DEF n, s
      <4> QED
        BY <3>7, <4>1, <4>2, <4>3, <4>4, <4>5, StoresApart
    <3> QED
      BY <2>4, <3>8
  <2> QED
    BY <2>3, <2>4, <2>5, <2>6
<1> QED
  BY <1>7, <1>8, <1>10, <1>12, <1>13 DEF IInv

\* An operation begins, alone in its thread.
LEMMA BeginKeeps ==
    ASSUME IInv, NEW t \in Threads, NEW j \in Jobs, Begin(t, j)
    PROVE  IInv'
<1> DEFINE st == <<>>
<1>1. /\ TypeOK /\ StackShape /\ AllCount /\ Fresh /\ GuardedFlagKept
      /\ stack[t] = <<>> /\ j \in JobsOf(t)
      /\ stack' = [stack EXCEPT ![t] = <<Starting(j)>>]
      /\ RxCommand' = IF t = "parser" THEN j ELSE RxCommand
      /\ UNCHANGED <<Flag, sem, pending, signals, interrupted, lost>>
  BY DEF IInv, Begin
<1>2. j \in JobNames
  BY FlagsAssumption DEF JobNames
<1>3. st \in Seq(Frame) /\ Len(st) = 0
  OBVIOUS
<1>4. stack' = [stack EXCEPT ![t] = Append(st, Starting(j))]
  BY <1>1
<1>5. st = stack[t]
  BY <1>1
<1> HIDE DEF st
<1>6. Pushable(st, j)
  BY <1>2, <1>3 DEF Pushable
<1>7. stack' \in [Threads -> Seq(Frame)] /\ StackShape' /\ Pushed(t, st, j)
  BY <1>1, <1>2, <1>3, <1>4, <1>6, Push
<1>8. RxCommand' \in JobsOf("parser") \cup {"none"}
  BY <1>1 DEF TypeOK
<1>9. TypeOK'
  BY <1>1, <1>7, <1>8 DEF TypeOK
<1>10. Fresh'
  BY <1>1, <1>2, <1>3, <1>5, <1>7, FreshPush
<1>11. ASSUME NEW s \in {"SUSPEND", "ALARM"}, Counts(s) PROVE Counts(s)'
  BY <1>1, <1>2, <1>3, <1>5, <1>7, <1>11, CountsPush
<1>12. AllCount' /\ GuardedFlagKept'
  BY <1>1, <1>11 DEF AllCount, GuardedFlagKept
<1> QED
  BY <1>7, <1>9, <1>10, <1>12 DEF IInv

\* kill().
LEMMA SendKeeps ==
    ASSUME IInv, NEW h \in Handlers, Send(h)
    PROVE  IInv'
<1>1. TypeOK'
  BY FlagsAssumption DEF IInv, Send, TypeOK
<1>2. StackShape' /\ Fresh' /\ GuardedFlagKept'
  BY DEF IInv, Send, StackShape, Fresh, GuardedFlagKept
<1>3. AllCount'
  BY DEF IInv, Send, AllCount, Counts, HasSem
<1> QED
  BY <1>1, <1>2, <1>3 DEF IInv

\* Where a handler may start, at most one other handler lies.
LEMMA RoomForHandler ==
    ASSUME TypeOK, StackShape, NEW t \in Threads, NEW h \in Handlers, ~Blocks(t, h)
    PROVE  Len(stack[t]) <= 2 /\ \A i \in 1..Len(stack[t]) : stack[t][i].job # h
<1>1. \A i \in 1..Len(stack[t]) : stack[t][i].job # h
  BY DEF Blocks
<1>2. Len(stack[t]) \in Nat
  BY DEF TypeOK
<1>3. ASSUME Len(stack[t]) = 3 PROVE FALSE
  <2>1. 2 \in 1..Len(stack[t]) /\ 3 \in 1..Len(stack[t])
    BY <1>3
  <2>2. stack[t][2].job \in Handlers /\ stack[t][3].job \in Handlers
    BY <2>1 DEF StackShape
  <2>3. stack[t][2].job # stack[t][3].job
    BY <2>1, <2>2 DEF StackShape
  <2> QED
    BY <1>1, <2>1, <2>2, <2>3 DEF Handlers
<1>4. Len(stack[t]) <= 3
  BY DEF StackShape
<1>5. Len(stack[t]) <= 2
  <2> DEFINE n == Len(stack[t])
  <2>1. n \in Nat /\ n <= 3 /\ n # 3
    BY <1>2, <1>3, <1>4
  <2> HIDE DEF n
  <2>2. n <= 2
    BY <2>1
  <2> QED
    BY <2>2 DEF n
<1> QED
  BY <1>1, <1>5

\* A handler starts between two steps of a thread.
LEMMA DeliverKeeps ==
    ASSUME IInv, NEW t \in Threads, NEW h \in Handlers, Deliver(t, h)
    PROVE  IInv'
<1> DEFINE st == stack[t]
<1>1. /\ TypeOK /\ StackShape /\ AllCount /\ Fresh /\ GuardedFlagKept
      /\ ~Blocks(t, h)
      /\ stack' = [stack EXCEPT ![t] = Append(st, Starting(h))]
      /\ pending' = pending \ {h}
      /\ UNCHANGED <<Flag, sem, RxCommand, signals, interrupted, lost>>
  BY DEF IInv, Deliver, Chosen
<1>2. h \in JobNames /\ st \in Seq(Frame)
  BY <1>1 DEF JobNames, TypeOK
<1>3. Pushable(st, h)
  BY <1>1, <1>2, RoomForHandler DEF StackShape, Pushable
<1> HIDE DEF st
<1>4. stack' \in [Threads -> Seq(Frame)] /\ StackShape' /\ Pushed(t, st, h)
  BY <1>1, <1>2, <1>3, Push
<1>5. TypeOK'
  BY <1>1, <1>4 DEF TypeOK
<1>6. Fresh'
  BY <1>1, <1>2, <1>4, FreshPush DEF st
<1>7. ASSUME NEW s \in {"SUSPEND", "ALARM"}, Counts(s) PROVE Counts(s)'
  BY <1>1, <1>2, <1>4, <1>7, CountsPush DEF st
<1>8. AllCount' /\ GuardedFlagKept'
  BY <1>1, <1>7 DEF AllCount, GuardedFlagKept
<1> QED
  BY <1>4, <1>5, <1>6, <1>8 DEF IInv

\* A handler starts in a P, which fails: from here on only the types and the
\* shape of the stacks are known.
LEMMA DeliverInPKeeps ==
    ASSUME IInv, NEW t \in Threads, NEW h \in Handlers, NEW s \in {"SUSPEND", "ALARM"},
           DeliverInP(t, h, s)
    PROVE  IInv'
<1> DEFINE n == Len(stack[t])
           p == AfterP(Top(t).job, s)
           g == [job |-> Top(t).job, pc |-> p, byte |-> Top(t).byte]
           st == [stack[t] EXCEPT ![n].pc = p]
<1>1. /\ TypeOK /\ StackShape
      /\ ~Blocks(t, h) /\ stack[t] # <<>> /\ Top(t).pc = P(s)
      /\ stack' = [stack EXCEPT ![t] = Append(st, Starting(h))]
      /\ pending' = pending \ {h} /\ interrupted' = TRUE
      /\ UNCHANGED <<Flag, sem, RxCommand, signals, lost>>
  BY DEF IInv, DeliverInP, Chosen, At
<1>2. /\ n \in 1..3 /\ Top(t) = stack[t][n] /\ Top(t) \in Frame /\ Fits(Top(t))
      /\ Top(t).byte \in Bytes /\ Top(t).job \in JobNames
  BY <1>1, TopFits
<1>3. p \in Pcs /\ Fits(g)
  BY <1>1, <1>2, AfterItsP
<1> HIDE DEF p
<1>4. g = [stack[t][n] EXCEPT !.pc = p] /\ g \in Frame /\ g.job = stack[t][n].job
  BY <1>2, <1>3 DEF Frame
<1>5. st = [stack[t] EXCEPT ![n] = g]
  BY <1>2, <1>4
<1>6. stack[t] \in Seq(Frame)
  BY <1>1 DEF TypeOK
<1> HIDE DEF st, g
<1>7. /\ st \in Seq(Frame) /\ Len(st) = Len(stack[t]) /\ st[n] = g
      /\ \A i \in 1..Len(stack[t]) : i # n => st[i] = stack[t][i]
  <2>1. n \in 1..Len(stack[t]) /\ g \in Frame
    <3>1. n \in 1..3
      BY <1>2
    <3> HIDE DEF n
    <3>2. n \in 1..n
      BY <3>1
    <3> QED
      BY <1>4, <3>2 DEF n
  <2>2. /\ st \in Seq(Frame) /\ Len(st) = Len(stack[t])
        /\ \A i \in 1..Len(stack[t]) : i # n => st[i] = stack[t][i]
    BY <1>5, <1>6, <2>1
  <2>3. st[n] = g
    BY <1>5, <1>6, <2>1
  <2> QED
    BY <2>2, <2>3
<1>8. \A i \in 1..Len(st) : st[i].job = stack[t][i].job /\ Fits(st[i])
  BY <1>1, <1>3, <1>4, <1>7 DEF StackShape
<1>9. Len(stack[t]) <= 2 /\ \A i \in 1..Len(stack[t]) : stack[t][i].job # h
  BY <1>1, RoomForHandler
<1>10. Pushable(st, h)
  BY <1>1, <1>7, <1>8, <1>9 DEF Pushable, StackShape, JobNames
<1>11. stack' \in [Threads -> Seq(Frame)] /\ StackShape'
  BY <1>1, <1>10, Push
<1>12. TypeOK'
  BY <1>1, <1>11 DEF TypeOK
<1>13. AllCount' /\ Fresh' /\ GuardedFlagKept'
  BY <1>1 DEF AllCount, Fresh, GuardedFlagKept
<1> QED
  BY <1>11, <1>12, <1>13 DEF IInv

\* A handler starts in the parser's msgrcv, on top of the command the parser then
\* executes once more, if it has one.
LEMMA DeliverInMsgrcvKeeps ==
    ASSUME IInv, NEW h \in Handlers, DeliverInMsgrcv(h)
    PROVE  IInv'
<1> DEFINE t == "parser"
           st == IF RxCommand = "none" THEN <<>> ELSE <<Starting(RxCommand)>>
<1>1. /\ TypeOK /\ StackShape /\ AllCount /\ Fresh /\ GuardedFlagKept
      /\ stack[t] = <<>>
      /\ stack' = [stack EXCEPT ![t] = st \o <<Starting(h)>>]
      /\ pending' = pending \ {h}
      /\ UNCHANGED <<Flag, sem, RxCommand, signals, interrupted, lost>>
  BY DEF IInv, DeliverInMsgrcv
<1>2. t \in Threads /\ h \in JobNames
  BY DEF Threads, JobNames
<1>3. JobsOf(t) \subseteq JobNames
  BY <1>2 DEF JobNames, AllJobs
<1>4. JobsOf(t) \cap Handlers = {}
  BY DEF JobsOf, Handlers
<1>5. CASE RxCommand = "none"
  <2>1. st = <<>> /\ Len(st) = 0 /\ st \in Seq(Frame)
    BY <1>5
  <2>2. st \o <<Starting(h)>> = Append(st, Starting(h))
    BY <2>1
  <2>3. Pushable(st, h)
    BY <1>2, <2>1 DEF Pushable
  <2>4. \A i \in 1..Len(st) : FALSE
    BY <2>1
  <2>5. st = stack[t]
    BY <1>1, <2>1
  <2> HIDE DEF st, t
  <2>6. stack' \in [Threads -> Seq(Frame)] /\ StackShape' /\ Pushed(t, st, h)
    BY <1>1, <1>2, <2>2, <2>3, Push
  <2>7. TypeOK'
    BY <1>1, <2>6 DEF TypeOK
  <2>8. Fresh'
    BY <1>1, <1>2, <2>1, <2>5, <2>6, FreshPush
  <2>9. ASSUME NEW s \in {"SUSPEND", "ALARM"}, Counts(s) PROVE Counts(s)'
    BY <1>1, <1>2, <2>1, <2>5, <2>6, <2>9, CountsPush
  <2>10. AllCount' /\ GuardedFlagKept'
    BY <1>1, <2>9 DEF AllCount, GuardedFlagKept
  <2> QED
    BY <2>6, <2>7, <2>8, <2>10 DEF IInv
<1>6. CASE RxCommand # "none"
  <2> DEFINE r == RxCommand
  <2>1. r \in JobsOf(t) /\ r \in JobNames /\ r \notin Handlers
    BY <1>1, <1>3, <1>4, <1>6 DEF TypeOK
  <2>2. /\ Starting(r) \in Frame /\ Fits(Starting(r)) /\ \A s : ~Holds(Starting(r), s)
        /\ Starting(r).job = r /\ Starting(r).pc # "store"
    BY <2>1, StartsClean
  <2>3. st = <<Starting(r)>> /\ Len(st) = 1 /\ st \in Seq(Frame) /\ st[1] = Starting(r)
    BY <1>6, <2>2
  <2>4. st \o <<Starting(h)>> = Append(st, Starting(h))
    BY <2>3
  <2>5. \A i \in 1..Len(st) : i = 1 /\ st[i] = Starting(r)
    BY <2>3
  <2>6. Pushable(st, h)
    BY <1>2, <2>1, <2>2, <2>3, <2>5 DEF Pushable
  <2> HIDE DEF st, t
  <2>7. stack' \in [Threads -> Seq(Frame)] /\ StackShape' /\ Pushed(t, st, h)
    BY <1>1, <1>2, <2>4, <2>6, Push
  <2>8. TypeOK'
    BY <1>1, <2>7 DEF TypeOK
  <2>9. \A i \in 1..Len(st) : st[i].pc # "store"
    BY <2>2, <2>5
  <2>10. Fresh'
    BY <1>1, <1>2, <2>3, <2>7, <2>9, FreshPush
  <2>11. \A i \in 1..Len(st) : \A s : ~Holds(st[i], s)
    BY <2>2, <2>5
  <2>12. ASSUME NEW s \in {"SUSPEND", "ALARM"}, Counts(s) PROVE Counts(s)'
    BY <1>1, <1>2, <2>3, <2>7, <2>11, <2>12, CountsPush
  <2>13. AllCount' /\ GuardedFlagKept'
    BY <1>1, <2>12 DEF AllCount, GuardedFlagKept
  <2> QED
    BY <2>7, <2>8, <2>10, <2>13 DEF IInv
<1> QED
  BY <1>5, <1>6

\* Every step keeps the invariant.
LEMMA NextFlags == IInv /\ [Next]_vars => IInv'
<1> SUFFICES ASSUME IInv, [Next]_vars PROVE IInv'
  OBVIOUS
<1>1. CASE UNCHANGED vars
  BY <1>1 DEF vars, IInv, TypeOK, StackShape, AllCount, Counts, HasSem, Fresh, GuardedFlagKept
<1>2. CASE \E t \in Threads, j \in Jobs : Begin(t, j)
  BY <1>2, BeginKeeps
<1>3. CASE \E t \in Threads, s \in {"SUSPEND", "ALARM"} : PStep(t, s) \/ VStep(t, s)
  BY <1>3, PKeeps, VKeeps
<1>4. CASE \E t \in Threads : Load(t) \/ Store(t)
  BY <1>4, LoadKeeps, StoreKeeps
<1>5. CASE \E h \in Handlers : Send(h)
  BY <1>5, SendKeeps
<1>6. CASE \E t \in Threads, h \in Handlers : Deliver(t, h)
  BY <1>6, DeliverKeeps
<1>7. CASE \E t \in Threads, h \in Handlers, s \in {"SUSPEND", "ALARM"} : DeliverInP(t, h, s)
  BY <1>7, DeliverInPKeeps
<1>8. CASE \E h \in Handlers : DeliverInMsgrcv(h)
  BY <1>8, DeliverInMsgrcvKeeps
<1> QED
  BY <1>1, <1>2, <1>3, <1>4, <1>5, <1>6, <1>7, <1>8 DEF Next

-----------------------------------------------------------------------------
(* The theorems. *)

\* The invariant holds in every state that can be reached.
LEMMA FlagsInvariant == Spec => []IInv
<1>1. Init => IInv
  BY InitFlags
<1>2. IInv /\ [Next]_vars => IInv'
  BY NextFlags
<1> QED
  BY <1>1, <1>2, PTL DEF Spec

\* The flags, the semaphores and the stacks of operations keep their types: a
\* stack never loses an operation it does not have.
THEOREM FlagsTypeCorrect == Spec => []TypeOK
<1>1. IInv => TypeOK
  BY DEF IInv
<1> QED
  BY <1>1, FlagsInvariant, PTL

\* The two semaphores exclude one another's holders, for all thirteen operations
\* and however many signals arrive, until a P is interrupted.
THEOREM SemaphoresExclude == Spec => []Exclusion
<1>1. IInv => Exclusion
  <2> SUFFICES ASSUME IInv, ~interrupted, NEW s \in {"SUSPEND", "ALARM"}
               PROVE  /\ sem[s] = IF \E l \in Levels : Held(l, s) THEN 0 ELSE 1
                      /\ \A l, m \in Levels : Held(l, s) /\ Held(m, s) => l = m
    BY DEF Exclusion
  <2>1. Counts(s) /\ TypeOK /\ StackShape
    BY DEF IInv, AllCount
  <2>2. ASSUME NEW l \in Levels, Held(l, s)
        PROVE  /\ l[1] \in Threads /\ l[2] \in 1..3 /\ l = <<l[1], l[2]>>
               /\ HasSem(l[1], l[2], s)
    <3>1. l \in Threads \X (1..4) /\ l[2] <= Len(stack[l[1]])
      BY DEF Levels
    <3>2. Len(stack[l[1]]) <= 3 /\ Len(stack[l[1]]) \in Nat
      BY <2>1, <3>1 DEF StackShape, TypeOK
    <3>3. l[2] \in 1..3 /\ l[2] \in 1..Len(stack[l[1]])
      <4> DEFINE n == Len(stack[l[1]])
      <4>1. l[2] \in 1..4 /\ l[2] <= n /\ n <= 3 /\ n \in Nat
        BY <3>1, <3>2
      <4> HIDE DEF n
      <4>2. l[2] \in 1..3 /\ l[2] \in 1..n
        BY <4>1
      <4> QED
        BY <4>2 DEF n
    <3> QED
      BY <2>2, <3>1, <3>3 DEF HasSem, Held
  <2>3. ASSUME NEW t \in Threads, NEW i \in 1..3, HasSem(t, i, s)
        PROVE  <<t, i>> \in Levels /\ Held(<<t, i>>, s)
    <3>1. i \in 1..Len(stack[t]) /\ Holds(stack[t][i], s) /\ i \in 1..4
      BY <2>3 DEF HasSem
    <3>2. Len(stack[t]) \in Nat
      BY <2>1 DEF TypeOK
    <3>3. i <= Len(stack[t])
      BY <3>1, <3>2
    <3> QED
      BY <3>1, <3>3 DEF Levels, Held
  <2>4. CASE \E l \in Levels : Held(l, s)
    BY <2>1, <2>2, <2>4 DEF Counts
  <2>5. CASE ~\E l \in Levels : Held(l, s)
    BY <2>1, <2>3, <2>5 DEF Counts
  <2>6. ASSUME NEW l \in Levels, NEW m \in Levels, Held(l, s), Held(m, s) PROVE l = m
    BY <2>1, <2>2, <2>6 DEF Counts
  <2> QED
    BY <2>4, <2>5, <2>6
<1> QED
  BY <1>1, FlagsInvariant, PTL

\* Until a P is interrupted or some unguarded flag is lost, no guarded flag is.
THEOREM GuardedFlagsSafe == Spec => []GuardedFlagKept
<1>1. IInv => GuardedFlagKept
  BY DEF IInv
<1> QED
  BY <1>1, FlagsInvariant, PTL
=============================================================================
