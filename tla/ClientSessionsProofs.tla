------------------------- MODULE ClientSessionsProofs ------------------------
(***************************************************************************)
(* Theorems about ClientSessions, for any number of clients, slots and     *)
(* descriptors and any finite set of threads.  SlotLedger needs to know    *)
(* where the main thread is while it holds a slot (InHand) and that a      *)
(* thread that serves has a slot (HasSlot).  OwnConnection needs to know,  *)
(* besides, that until a slot is reused too early nobody is in the slot    *)
(* and on the descriptor that the main thread is about to give (Own).      *)
(***************************************************************************)
EXTENDS ClientSessions, FiniteSetTheorems, TLAPS

\* The main thread holds a slot just between client_info_get and
\* pthread_create, and a descriptor from accept until then.
InHand ==
    /\ mainPc = "start" <=> newSlot # NoSlot
    /\ mainPc # "accept" => acceptFd # NoFd

HasSlot == \A t \in Threads : pc[t] # "none" => slot[t] # NoSlot

IInv == TypeOK /\ InHand /\ HasSlot /\ SlotLedger

-----------------------------------------------------------------------------
\* The values that stand for no slot and no descriptor are neither.
LEMMA NoneOutside == NoSlot \notin Slots /\ NoFd \notin Fds
  BY SessionsAssumption DEF NoSlot, NoFd, Slots, Fds, SessionsAssumption

\* The threads that serve from a slot can be counted.
LEMMA HoldersFinite ==
    ASSUME NEW s \in Slots
    PROVE  IsFiniteSet(Holders(s)) /\ Cardinality(Holders(s)) \in Nat
<1>1. Holders(s) \subseteq Threads
  BY DEF Holders
<1>2. IsFiniteSet(Holders(s))
  BY <1>1, SessionsAssumption, FS_Subset DEF SessionsAssumption
<1> QED
  BY <1>2, FS_CardinalityType

-----------------------------------------------------------------------------
\* Every step keeps the types.
LEMMA TypeNext == TypeOK /\ InHand /\ HasSlot /\ [Next]_vars => TypeOK'
<1> SUFFICES ASSUME TypeOK, InHand, HasSlot, [Next]_vars PROVE TypeOK'
  OBVIOUS
<1> USE DEF TypeOK, MainPcs, Serving, Departing, mainVars, tableVars, threadVars
<1>1. ASSUME NEW c \in Clients, Accept(c) PROVE TypeOK'
  BY <1>1 DEF Accept
<1>2. ASSUME NEW c \in Clients, Disconnect(c) PROVE TypeOK'
  BY <1>2 DEF Disconnect
<1>3. CASE AcceptFails
  BY <1>3 DEF AcceptFails
<1>4. CASE SkipSlot
  <2>1. index + 1 \in 1..(MaxSlot + 1)
    BY <1>4, SessionsAssumption DEF SkipSlot, Slots, SessionsAssumption
  <2> QED
    BY <1>4, <2>1 DEF SkipSlot
<1>12. 1 \in 1..(MaxSlot + 1)
  BY SessionsAssumption DEF SessionsAssumption
<1>13. CASE TakeSlot
  BY <1>12, <1>13 DEF TakeSlot
<1>5. CASE NoSlotLeft
  BY <1>5, <1>12 DEF NoSlotLeft
<1>6. ASSUME NEW t \in Threads, StartThread(t) PROVE TypeOK'
  BY <1>6 DEF StartThread, InHand
<1>7. ASSUME NEW t \in Threads, NEW a \in Accounts, UserFree(t, a) PROVE TypeOK'
  BY <1>7 DEF UserFree, Goto
<1>8. ASSUME NEW t \in Threads, PasswordRight(t) \/ PasswordWrong(t) \/ PromptNobody(t)
      PROVE  TypeOK'
  BY <1>8 DEF PasswordRight, PasswordWrong, PromptNobody, Goto
<1>9. ASSUME NEW t \in Threads, EndSession(t) \/ FreeSlot(t) \/ GoOffline(t)
      PROVE  TypeOK'
  BY <1>9 DEF EndSession, FreeSlot, GoOffline, Goto
<1>10. ASSUME NEW t \in Threads, Close(t) PROVE TypeOK'
  BY <1>10 DEF Close, Goto
<1>11. CASE UNCHANGED vars
  BY <1>11 DEF vars
<1> QED
  BY <1>1, <1>2, <1>3, <1>4, <1>5, <1>6, <1>7, <1>8, <1>9, <1>10, <1>11, <1>12, <1>13
     DEF Next

\* Every step keeps the main thread's slot and descriptor in step with its place
\* in pj_client_handle, and a thread with the slot it was given.
LEMMA PlaceNext == TypeOK /\ InHand /\ HasSlot /\ [Next]_vars => InHand' /\ HasSlot'
<1> SUFFICES ASSUME TypeOK, InHand, HasSlot, [Next]_vars PROVE InHand' /\ HasSlot'
  OBVIOUS
<1> USE NoneOutside DEF TypeOK, InHand, HasSlot, mainVars, tableVars, threadVars
<1>1. ASSUME NEW c \in Clients, Accept(c) PROVE InHand' /\ HasSlot'
  BY <1>1 DEF Accept
<1>2. ASSUME NEW c \in Clients, Disconnect(c) PROVE InHand' /\ HasSlot'
  BY <1>2 DEF Disconnect
<1>3. CASE AcceptFails
  BY <1>3 DEF AcceptFails
<1>4. CASE SkipSlot \/ TakeSlot
  BY <1>4 DEF SkipSlot, TakeSlot
<1>5. CASE NoSlotLeft
  BY <1>5 DEF NoSlotLeft
<1>6. ASSUME NEW t \in Threads, StartThread(t) PROVE InHand' /\ HasSlot'
  BY <1>6 DEF StartThread
<1>7. ASSUME NEW t \in Threads, NEW a \in Accounts, UserFree(t, a)
      PROVE  InHand' /\ HasSlot'
  BY <1>7 DEF UserFree, Goto, At
<1>8. ASSUME NEW t \in Threads, PasswordRight(t) \/ PasswordWrong(t) \/ PromptNobody(t)
      PROVE  InHand' /\ HasSlot'
  BY <1>8 DEF PasswordRight, PasswordWrong, PromptNobody, Goto, At
<1>9. ASSUME NEW t \in Threads, EndSession(t) \/ FreeSlot(t) \/ GoOffline(t)
      PROVE  InHand' /\ HasSlot'
  BY <1>9 DEF EndSession, FreeSlot, GoOffline, Goto, At
<1>10. ASSUME NEW t \in Threads, Close(t) PROVE InHand' /\ HasSlot'
  BY <1>10 DEF Close, Goto
<1>11. CASE UNCHANGED vars
  BY <1>11 DEF vars
<1> QED
  BY <1>1, <1>2, <1>3, <1>4, <1>5, <1>6, <1>7, <1>8, <1>9, <1>10, <1>11 DEF Next

-----------------------------------------------------------------------------
\* A step that moves no thread into or out of a slot and takes no slot keeps
\* the ledger.
LEMMA LedgerKept ==
    ASSUME SlotLedger, UNCHANGED <<used, newSlot, slot>>,
           \A t \in Threads : pc'[t] \in Serving <=> pc[t] \in Serving
    PROVE  SlotLedger'
<1>1. \A s \in Slots : Holders(s)' = Holders(s)
  BY DEF Holders
<1> QED
  BY <1>1 DEF SlotLedger

\* Every step keeps the ledger: client_info_get moves a slot from free to in
\* hand, pthread_create from there to a thread, client_task back to free.
LEMMA LedgerNext == IInv /\ [Next]_vars => SlotLedger'
<1> SUFFICES ASSUME IInv, [Next]_vars PROVE SlotLedger'
  OBVIOUS
<1> USE DEF IInv, mainVars, tableVars, threadVars
<1>1. ASSUME NEW c \in Clients, Accept(c) PROVE SlotLedger'
  BY <1>1, LedgerKept DEF Accept
<1>2. ASSUME NEW c \in Clients, Disconnect(c) PROVE SlotLedger'
  BY <1>2, LedgerKept DEF Disconnect
<1>3. CASE AcceptFails
  BY <1>3, LedgerKept DEF AcceptFails
<1>14. CASE SkipSlot
  BY <1>14, LedgerKept DEF SkipSlot
<1>4. CASE TakeSlot
  <2> DEFINE n == index
  <2>1. /\ n \in Slots
        /\ newSlot' = n
        /\ used' = [used EXCEPT ![n] = 1]
    BY <1>4 DEF TakeSlot
  <2>2. newSlot = NoSlot
    BY <1>4, NoneOutside DEF TakeSlot, InHand
  <2>3. used[n] = 0
    BY <1>4 DEF TakeSlot
  <2> SUFFICES ASSUME NEW s \in Slots
               PROVE  used'[s] = (IF newSlot' = s THEN 1 ELSE 0) + Cardinality(Holders(s)')
    BY DEF SlotLedger
  <2>4. Holders(s)' = Holders(s)
    BY <1>4 DEF TakeSlot, Holders
  <2>5. used[s] = Cardinality(Holders(s))
    BY <2>2, NoneOutside, HoldersFinite DEF SlotLedger
  <2>6. CASE s = n
    BY <2>1, <2>3, <2>4, <2>5, <2>6 DEF TypeOK
  <2>7. CASE s # n
    BY <2>1, <2>4, <2>5, <2>7, HoldersFinite DEF TypeOK
  <2> QED
    BY <2>6, <2>7
<1>5. CASE NoSlotLeft
  BY <1>5, LedgerKept DEF NoSlotLeft
<1>6. ASSUME NEW t \in Threads, StartThread(t) PROVE SlotLedger'
  <2>1. /\ newSlot \in Slots /\ newSlot' = NoSlot
        /\ pc[t] = "none" /\ pc' = [pc EXCEPT ![t] = "user"]
        /\ slot' = [slot EXCEPT ![t] = newSlot]
        /\ used' = used
    BY <1>6, NoneOutside DEF StartThread, InHand, TypeOK
  <2> SUFFICES ASSUME NEW s \in Slots
               PROVE  used'[s] = (IF newSlot' = s THEN 1 ELSE 0) + Cardinality(Holders(s)')
    BY DEF SlotLedger
  <2>2. used[s] = (IF newSlot = s THEN 1 ELSE 0) + Cardinality(Holders(s))
    BY DEF SlotLedger
  <2>3. newSlot' # s
    BY <2>1, NoneOutside
  <2>4. CASE s = newSlot
    <3>1. Holders(s)' = Holders(s) \cup {t} /\ t \notin Holders(s)
      BY <2>1, <2>4 DEF Holders, Serving, TypeOK
    <3>2. Cardinality(Holders(s)') = Cardinality(Holders(s)) + 1
      BY <3>1, HoldersFinite, FS_AddElement
    <3> QED
      BY <2>1, <2>2, <2>3, <2>4, <3>2, HoldersFinite
  <2>5. CASE s # newSlot
    <3>1. Holders(s)' = Holders(s)
      BY <2>1, <2>5 DEF Holders, Serving, TypeOK
    <3> QED
      BY <2>1, <2>2, <2>3, <2>5, <3>1
  <2> QED
    BY <2>4, <2>5
<1>7. ASSUME NEW t \in Threads, NEW a \in Accounts, UserFree(t, a) PROVE SlotLedger'
  BY <1>7, LedgerKept DEF UserFree, Goto, At, Serving, TypeOK
<1>8. ASSUME NEW t \in Threads, PasswordRight(t) \/ PasswordWrong(t) \/ EndSession(t)
      PROVE  SlotLedger'
  BY <1>8, LedgerKept
     DEF PasswordRight, PasswordWrong, EndSession, Goto, At, Serving, TypeOK
<1>9. ASSUME NEW t \in Threads, PromptNobody(t) PROVE SlotLedger'
  BY <1>9, LedgerKept DEF PromptNobody
<1>10. ASSUME NEW t \in Threads, FreeSlot(t) PROVE SlotLedger'
  <2> DEFINE n == slot[t]
  <2>1. /\ n \in Slots /\ newSlot' = newSlot /\ slot' = slot
        /\ pc[t] = "leave" /\ pc' = [pc EXCEPT ![t] = "offline"]
        /\ used' = [used EXCEPT ![n] = 0]
    BY <1>10 DEF FreeSlot, Goto, At, HasSlot, TypeOK
  <2> SUFFICES ASSUME NEW s \in Slots
               PROVE  used'[s] = (IF newSlot' = s THEN 1 ELSE 0) + Cardinality(Holders(s)')
    BY DEF SlotLedger
  <2>2. used[s] = (IF newSlot = s THEN 1 ELSE 0) + Cardinality(Holders(s))
    BY DEF SlotLedger
  <2>3. CASE s = n
    <3>1. t \in Holders(s) /\ Holders(s)' = Holders(s) \ {t}
      BY <2>1, <2>3 DEF Holders, Serving, TypeOK
    <3>2. Cardinality(Holders(s)') = Cardinality(Holders(s)) - 1
      BY <3>1, HoldersFinite, FS_RemoveElement
    <3>3. Cardinality(Holders(s)) \in Nat /\ Cardinality(Holders(s)) # 0
      BY <3>1, HoldersFinite, FS_EmptySet
    <3>4. used[s] \in {0, 1} /\ used'[s] = 0
      BY <2>1, <2>3 DEF TypeOK
    <3> QED
      BY <2>1, <2>2, <3>2, <3>3, <3>4
  <2>4. CASE s # n
    <3>1. Holders(s)' = Holders(s)
      BY <2>1, <2>4 DEF Holders, Serving, TypeOK
    <3> QED
      BY <2>1, <2>2, <2>4, <3>1 DEF TypeOK
  <2> QED
    BY <2>3, <2>4
<1>11. ASSUME NEW t \in Threads, GoOffline(t) PROVE SlotLedger'
  BY <1>11, LedgerKept DEF GoOffline, Goto, At, Serving, TypeOK
<1>12. ASSUME NEW t \in Threads, Close(t) PROVE SlotLedger'
  <2>1. \A s \in Slots : Holders(s)' = Holders(s)
    BY <1>12 DEF Close, Goto, At, Holders, Serving, TypeOK
  <2> QED
    BY <1>12, <2>1 DEF SlotLedger, Close
<1>13. CASE UNCHANGED vars
  BY <1>13, LedgerKept DEF vars
<1> QED
  BY <1>1, <1>2, <1>3, <1>4, <1>5, <1>6, <1>7, <1>8, <1>9, <1>10, <1>11, <1>12, <1>13, <1>14
     DEF Next

\* The zeroed tables of main satisfy the invariant.
LEMMA InitIInv == Init => IInv
<1> SUFFICES ASSUME Init PROVE IInv
  OBVIOUS
<1> USE NoneOutside DEF Init
<1>5. 1 \in 1..(MaxSlot + 1)
  BY SessionsAssumption DEF SessionsAssumption
<1>1. TypeOK
  BY <1>5 DEF TypeOK, MainPcs
<1>2. InHand /\ HasSlot
  BY DEF InHand, HasSlot
<1>3. \A s \in Slots : Holders(s) = {}
  BY DEF Holders, Serving
<1>4. SlotLedger
  <2>1. \A s \in Slots : used[s] = 0 /\ newSlot # s
    OBVIOUS
  <2>2. \A s \in Slots : Cardinality(Holders(s)) = 0
    BY <1>3, FS_EmptySet
  <2> QED
    BY <2>1, <2>2 DEF SlotLedger
<1> QED
  BY <1>1, <1>2, <1>4 DEF IInv

-----------------------------------------------------------------------------
\* The inductive invariant holds throughout, whatever the numbers of clients,
\* threads, slots and descriptors.
THEOREM SessionsInvariance == Spec => []IInv
<1>1. IInv /\ [Next]_vars => IInv'
  BY TypeNext, PlaceNext, LedgerNext DEF IInv
<1> QED
  BY <1>1, InitIInv, PTL DEF Spec

\* Every variable of the sessions keeps its type; in particular a thread never
\* follows an index that is no slot.
THEOREM SessionsTypeCorrect == Spec => []TypeOK
  BY SessionsInvariance, PTL DEF IInv

\* No slot of clientInfo is ever lost or shared by two serving threads.
THEOREM SlotTableExact == Spec => []SlotLedger
  BY SessionsInvariance, PTL DEF IInv

-----------------------------------------------------------------------------
(* Connections and accounts. *)

\* Threads that have not ended.
Active == {t \in Threads : pc[t] \in Serving \cup Departing}

\* Until a slot is reused too early: each thread is on the connection it was
\* created for, alone in its slot and on its descriptor, and so will be the one
\* that is about to be created.
Own ==
    ~reused =>
        /\ \A t \in Active : /\ firstFd[t] \in Fds
                             /\ slotFd[slot[t]] = firstFd[t]
                             /\ fdConn[firstFd[t]] # "closed"
        /\ \A t, u \in Active : t # u => slot[t] # slot[u] /\ firstFd[t] # firstFd[u]
        /\ mainPc = "start" => \A t \in Active : slot[t] # newSlot
        /\ mainPc # "accept" => /\ fdConn[acceptFd] # "closed"
                                /\ \A t \in Active : firstFd[t] # acceptFd

OInv == IInv /\ Own /\ NoAccountLockedOut

\* Nobody serves from a free slot.
LEMMA FreeSlotEmpty ==
    ASSUME IInv, NEW s \in Slots, used[s] = 0
    PROVE  \A t \in Threads : pc[t] \in Serving => slot[t] # s
<1>1. Cardinality(Holders(s)) = 0
  BY HoldersFinite DEF IInv, SlotLedger
<1>2. Holders(s) = {}
  BY <1>1, HoldersFinite, FS_EmptySet
<1> QED
  BY <1>2 DEF Holders

\* A step of a thread in its slot, which neither ends the thread nor touches
\* what Own is about.
LEMMA OwnKept ==
    ASSUME Own, UNCHANGED <<reused, slot, firstFd, slotFd, fdConn, mainPc, newSlot, acceptFd>>,
           Active' = Active
    PROVE  Own'
  BY DEF Own

\* Every step keeps Own.
LEMMA OwnNext == IInv /\ Own /\ [Next]_vars => Own'
<1> SUFFICES ASSUME IInv, Own, [Next]_vars PROVE Own'
  OBVIOUS
<1> USE DEF IInv, mainVars, tableVars, threadVars
<1>1. ASSUME NEW c \in Clients, Accept(c) PROVE Own'
  <2>1. PICK f \in Fds : /\ fdConn[f] = "closed" /\ acceptFd' = f
                         /\ fdConn' = [fdConn EXCEPT ![f] = c]
    BY <1>1 DEF Accept, IsLeast, FreeFds
  <2>2. Active' = Active /\ mainPc' = "slot"
    BY <1>1 DEF Accept, Active
  <2>3. c # "closed"
    BY SessionsAssumption DEF SessionsAssumption
  <2> QED
    BY <1>1, <2>1, <2>2, <2>3 DEF Accept, Own, TypeOK
<1>2. ASSUME NEW c \in Clients, Disconnect(c) PROVE Own'
  <2>1. PICK f \in Fds : fdConn[f] = c /\ fdConn' = [fdConn EXCEPT ![f] = "gone"]
    BY <1>2 DEF Disconnect
  <2>2. Active' = Active /\ \A g \in Fds : fdConn[g] # "closed" => fdConn'[g] # "closed"
    BY <1>2, <2>1 DEF Disconnect, Active, TypeOK
  <2>3. mainPc # "accept" => acceptFd \in Fds
    BY DEF TypeOK, InHand
  <2> QED
    BY <1>2, <2>2, <2>3 DEF Disconnect, Own
<1>3. CASE AcceptFails
  BY <1>3, OwnKept DEF AcceptFails, Active
<1>13. CASE SkipSlot
  BY <1>13, OwnKept DEF SkipSlot, Active
<1>4. CASE TakeSlot
  <2> DEFINE n == index
  <2>1. /\ n \in Slots /\ used[n] = 0 /\ newSlot' = n
        /\ reused' = (reused \/ \E t \in Threads : pc[t] \in Departing /\ slot[t] = n)
    BY <1>4 DEF TakeSlot
  <2>2. \A t \in Threads : pc[t] \in Serving => slot[t] # n
    BY <2>1, FreeSlotEmpty
  <2>3. Active' = Active /\ mainPc' = "start" /\ mainPc = "slot"
    BY <1>4 DEF TakeSlot, Active
  <2>4. ~reused' => ~reused /\ \A t \in Active : slot[t] # n
    BY <2>1, <2>2 DEF Active
  <2> QED
    BY <1>4, <2>1, <2>3, <2>4 DEF TakeSlot, Own
<1>5. CASE NoSlotLeft
  BY <1>5 DEF NoSlotLeft, Own, Active
<1>6. ASSUME NEW t \in Threads, StartThread(t) PROVE Own'
  <2>1. /\ newSlot \in Slots /\ acceptFd \in Fds /\ mainPc = "start" /\ mainPc' = "accept"
        /\ slotFd' = [slotFd EXCEPT ![newSlot] = acceptFd]
        /\ slot' = [slot EXCEPT ![t] = newSlot]
        /\ firstFd' = [firstFd EXCEPT ![t] = acceptFd]
        /\ reused' = reused /\ fdConn' = fdConn
    BY <1>6, NoneOutside DEF StartThread, InHand, TypeOK
  <2>2. Active' = Active \cup {t} /\ t \notin Active
    BY <1>6 DEF StartThread, Active, Serving, Departing, TypeOK
  <2>3. \A u \in Active : slot[u] \in Slots
    BY DEF Active, HasSlot, TypeOK, Serving, Departing
  <2> SUFFICES ASSUME ~reused PROVE Own'
    BY <2>1 DEF Own
  <2>4. \A u \in Active : slotFd'[slot'[u]] = firstFd'[u] /\ slot'[u] = slot[u]
                          /\ firstFd'[u] = firstFd[u] /\ firstFd[u] \in Fds
                          /\ fdConn[firstFd[u]] # "closed"
    BY <2>1, <2>2, <2>3 DEF Own, TypeOK, Active
  <2>5. slot'[t] = newSlot /\ firstFd'[t] = acceptFd /\ slotFd'[newSlot] = acceptFd
    BY <2>1 DEF TypeOK
  <2>6. fdConn[acceptFd] # "closed" /\ \A u \in Active : slot[u] # newSlot /\ firstFd[u] # acceptFd
    BY <2>1 DEF Own
  <2> QED
    BY <2>1, <2>2, <2>4, <2>5, <2>6 DEF Own
<1>7. ASSUME NEW t \in Threads, NEW a \in Accounts, UserFree(t, a) PROVE Own'
  <2>1. Active' = Active
    BY <1>7 DEF UserFree, Goto, At, Active, Serving, Departing, TypeOK
  <2> QED
    BY <1>7, <2>1, OwnKept DEF UserFree
<1>8. ASSUME NEW t \in Threads, PasswordRight(t) \/ PasswordWrong(t) \/ EndSession(t)
      PROVE  Own'
  <2>1. Active' = Active
    BY <1>8 DEF PasswordRight, PasswordWrong, EndSession, Goto, At, Active, Serving,
                Departing, TypeOK
  <2> QED
    BY <1>8, <2>1, OwnKept DEF PasswordRight, PasswordWrong, EndSession
<1>9. ASSUME NEW t \in Threads, PromptNobody(t) PROVE Own'
  BY <1>9, OwnKept DEF PromptNobody, Active
<1>10. ASSUME NEW t \in Threads, FreeSlot(t) \/ GoOffline(t) PROVE Own'
  <2>1. Active' = Active
    BY <1>10 DEF FreeSlot, GoOffline, Goto, At, Active, Serving, Departing, TypeOK
  <2> QED
    BY <1>10, <2>1, OwnKept DEF FreeSlot, GoOffline
<1>11. ASSUME NEW t \in Threads, Close(t) PROVE Own'
  <2> SUFFICES ASSUME ~reused PROVE Own'
    BY <1>11 DEF Own, Close
  <2>1. t \in Active /\ Active' = Active \ {t}
    BY <1>11 DEF Close, Goto, At, Active, Serving, Departing, TypeOK
  <2>2. fdConn' = [f \in Fds |-> IF f = firstFd[t] THEN "closed" ELSE fdConn[f]]
    BY <1>11, <2>1 DEF Close, Own
  <2>3. \A u \in Active' : slot'[u] = slot[u] /\ firstFd'[u] = firstFd[u]
    BY <1>11, <2>1 DEF Close, TypeOK, Active
  <2>4. \A u \in Active' : fdConn'[firstFd[u]] # "closed"
    BY <2>1, <2>2 DEF Own
  <2>5. mainPc # "accept" => acceptFd \in Fds /\ acceptFd # firstFd[t]
    BY <2>1 DEF TypeOK, InHand, Own
  <2> QED
    BY <1>11, <2>1, <2>2, <2>3, <2>4, <2>5 DEF Close, Own
<1>12. CASE UNCHANGED vars
  BY <1>12, OwnKept DEF vars, Active
<1> QED
  BY <1>1, <1>2, <1>3, <1>4, <1>5, <1>6, <1>7, <1>8, <1>9, <1>10, <1>11, <1>12, <1>13
     DEF Next

\* A step that changes neither accounts nor the threads that are in one keeps
\* every online account occupied.
LEMMA OccupiedKept ==
    ASSUME NoAccountLockedOut, reused' = reused, online' = online,
           \A t \in Threads : pc[t] \in {"session", "leave", "offline"} =>
               /\ pc'[t] \in {"session", "leave", "offline"}
               /\ account'[slot'[t]] = account[slot[t]]
    PROVE  NoAccountLockedOut'
  BY DEF NoAccountLockedOut

\* Every step keeps the online accounts occupied: a name is written into the
\* slot of its own thread only, and an account goes offline with its user.
LEMMA OccupiedNext ==
    IInv /\ Own /\ NoAccountLockedOut /\ [Next]_vars => NoAccountLockedOut'
<1> SUFFICES ASSUME IInv, Own, NoAccountLockedOut, [Next]_vars PROVE NoAccountLockedOut'
  OBVIOUS
<1> USE DEF IInv, mainVars, tableVars, threadVars
<1>1. ASSUME NEW c \in Clients, Accept(c) \/ Disconnect(c) PROVE NoAccountLockedOut'
  BY <1>1, OccupiedKept DEF Accept, Disconnect
<1>2. CASE AcceptFails \/ SkipSlot \/ NoSlotLeft
  BY <1>2, OccupiedKept DEF AcceptFails, SkipSlot, NoSlotLeft
<1>3. CASE TakeSlot
  BY <1>3 DEF TakeSlot, NoAccountLockedOut
<1>4. ASSUME NEW t \in Threads, StartThread(t) PROVE NoAccountLockedOut'
  BY <1>4, OccupiedKept DEF StartThread, TypeOK
<1>5. ASSUME NEW t \in Threads, NEW a \in Accounts, UserFree(t, a)
      PROVE  NoAccountLockedOut'
  <2> SUFFICES ASSUME ~reused PROVE NoAccountLockedOut'
    BY <1>5 DEF UserFree, NoAccountLockedOut
  <2>1. t \in Active /\ slot[t] \in Slots
    BY <1>5 DEF UserFree, At, Active, Serving, HasSlot, TypeOK
  <2>2. ASSUME NEW u \in Threads, pc[u] \in {"session", "leave", "offline"}
        PROVE  pc'[u] = pc[u] /\ account'[slot'[u]] = account[slot[u]]
    <3>1. u \in Active /\ u # t /\ slot[u] \in Slots
      BY <1>5, <2>2 DEF UserFree, At, Active, Serving, Departing, HasSlot, TypeOK
    <3>2. slot[u] # slot[t]
      BY <2>1, <3>1 DEF Own
    <3> QED
      BY <1>5, <2>1, <3>1, <3>2 DEF UserFree, Goto, TypeOK
  <2> QED
    BY <1>5, <2>2, OccupiedKept DEF UserFree
<1>6. ASSUME NEW t \in Threads, PasswordRight(t) PROVE NoAccountLockedOut'
  <2>1. /\ account[slot[t]] \in Accounts
        /\ pc[t] = "password" /\ pc' = [pc EXCEPT ![t] = "session"]
        /\ online' = [online EXCEPT ![account[slot[t]]] = 1]
        /\ UNCHANGED <<reused, account, slot>>
    BY <1>6 DEF PasswordRight, Goto, At, HasSlot, TypeOK
  <2>2. pc'[t] = "session" /\ \A u \in Threads \ {t} : pc'[u] = pc[u]
    BY <2>1 DEF TypeOK
  <2> SUFFICES ASSUME ~reused', NEW a \in Accounts, online'[a] = 1
               PROVE  \E u \in Threads : /\ pc'[u] \in {"session", "leave", "offline"}
                                         /\ account'[slot'[u]] = a
    BY DEF NoAccountLockedOut
  <2>3. CASE a = account[slot[t]]
    BY <2>1, <2>2, <2>3
  <2>4. CASE a # account[slot[t]]
    BY <2>1, <2>2, <2>4 DEF NoAccountLockedOut, TypeOK
  <2> QED
    BY <2>3, <2>4
<1>7. ASSUME NEW t \in Threads, PasswordWrong(t) \/ EndSession(t) \/ FreeSlot(t)
      PROVE  NoAccountLockedOut'
  BY <1>7, OccupiedKept DEF PasswordWrong, EndSession, FreeSlot, Goto, At, TypeOK
<1>8. ASSUME NEW t \in Threads, PromptNobody(t) PROVE NoAccountLockedOut'
  BY <1>8, OccupiedKept DEF PromptNobody
<1>9. ASSUME NEW t \in Threads, GoOffline(t) PROVE NoAccountLockedOut'
  <2>1. /\ account[slot[t]] \in Accounts
        /\ pc[t] = "offline" /\ pc' = [pc EXCEPT ![t] = "close"]
        /\ online' = [online EXCEPT ![account[slot[t]]] = 0]
        /\ UNCHANGED <<reused, account, slot>>
    BY <1>9 DEF GoOffline, Goto, At, HasSlot, TypeOK
  <2> SUFFICES ASSUME ~reused', NEW a \in Accounts, online'[a] = 1
               PROVE  \E u \in Threads : /\ pc'[u] \in {"session", "leave", "offline"}
                                         /\ account'[slot'[u]] = a
    BY DEF NoAccountLockedOut
  <2>2. a # account[slot[t]] /\ online[a] = 1
    BY <2>1 DEF TypeOK
  <2>3. PICK u \in Threads : pc[u] \in {"session", "leave", "offline"} /\ account[slot[u]] = a
    BY <2>1, <2>2 DEF NoAccountLockedOut
  <2> QED
    BY <2>1, <2>2, <2>3 DEF TypeOK
<1>10. ASSUME NEW t \in Threads, Close(t) PROVE NoAccountLockedOut'
  BY <1>10, OccupiedKept DEF Close, Goto, At, TypeOK
<1>11. CASE UNCHANGED vars
  BY <1>11, OccupiedKept DEF vars
<1> QED
  BY <1>1, <1>2, <1>3, <1>4, <1>5, <1>6, <1>7, <1>8, <1>9, <1>10, <1>11 DEF Next

\* Own and the occupied accounts hold throughout.
LEMMA OwnershipInvariance == Spec => []OInv
<1>1. Init => OInv
  <2> SUFFICES ASSUME Init PROVE Own /\ NoAccountLockedOut
    BY InitIInv DEF OInv
  <2>1. Active = {}
    BY DEF Init, Active, Serving, Departing
  <2>2. Own
    BY <2>1 DEF Init, Own
  <2>3. NoAccountLockedOut
    BY DEF Init, NoAccountLockedOut
  <2> QED
    BY <2>2, <2>3
<1>2. OInv /\ [Next]_vars => OInv'
  BY TypeNext, PlaceNext, LedgerNext, OwnNext, OccupiedNext DEF OInv, IInv
<1> QED
  BY <1>1, <1>2, PTL DEF Spec

\* Unless a slot was reused while its old thread still departs, every client is
\* served by its own thread on its own, open connection.
THEOREM ConnectionsNotMixed == Spec => []OwnConnection
<1>1. OInv => OwnConnection
  BY DEF OInv, Own, OwnConnection, Active
<1> QED
  BY <1>1, OwnershipInvariance, PTL

\* Unless a slot was reused while its old thread still departs, an account that
\* is marked online has a thread that will mark it offline.
THEOREM AccountsReleased == Spec => []NoAccountLockedOut
<1>1. OInv => NoAccountLockedOut
  BY DEF OInv
<1> QED
  BY <1>1, OwnershipInvariance, PTL
=============================================================================
