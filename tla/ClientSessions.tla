---------------------------- MODULE ClientSessions ---------------------------
(***************************************************************************)
(* The sessions of server.c: the accept loop (pj_client_handle), the table *)
(* clientInfo of session slots (client_info_get), the thread of each       *)
(* client (client_task, account_check) and the account table.              *)
(*                                                                         *)
(* A slot is shared by the thread that serves it and, because client_task  *)
(* frees it before it is done with it, by the thread of the next client.   *)
(* Each access to the tables that another thread can come between is a     *)
(* step of its own.  What an authenticated client commands is the subject  *)
(* of SecurityPanel; here it is in session until it quits or disconnects.  *)
(***************************************************************************)
EXTENDS Naturals, FiniteSets

CONSTANTS
    Clients,   \* programs that connect; each keeps one connection at a time
    Threads,   \* bound: client threads that exist at the same time
    MaxSlot,   \* MAX_CLIENT_NUM
    MaxFd,     \* descriptors the process may have for connections
    Accounts   \* accounts[]

Slots == 1..MaxSlot
Fds   == 1..MaxFd

ASSUME SessionsAssumption ==
    /\ MaxSlot \in Nat \ {0}
    /\ MaxFd \in Nat \ {0}
    /\ Accounts # {}
    /\ IsFiniteSet(Threads)
    /\ {"closed", "gone"} \cap Clients = {}

NoSlot == 0
NoFd   == 0

VARIABLES
    alive,     \* the server process runs
    fdConn,    \* what the kernel has behind each descriptor
    mainPc,    \* where the main thread is in pj_client_handle
    acceptFd,  \* its local variable
    index,     \* where it is in the loop of client_info_get
    newSlot,   \* its local client_info
    used,      \* clientInfo[].used
    slotFd,    \* clientInfo[].fd
    account,   \* clientInfo[].account_id
    online,    \* accounts[].online
    pc,        \* where each client thread is
    slot,      \* its argument, cinfo
    firstFd,   \* history: the connection the thread was created for
    reused     \* history: a slot has been given away while the thread that
               \* freed it was still going to use it

mainVars    == <<mainPc, acceptFd, index, newSlot>>
tableVars   == <<used, slotFd, account>>
threadVars  == <<pc, slot, firstFd>>
vars == <<alive, fdConn, mainVars, tableVars, online, threadVars, reused>>

MainPcs   == {"accept", "slot", "start"}
\* Threads that serve a client, and those that have freed their slot.
Serving   == {"user", "password", "session", "leave"}
Departing == {"offline", "close"}

TypeOK ==
    /\ alive \in BOOLEAN /\ reused \in BOOLEAN
    /\ fdConn \in [Fds -> Clients \cup {"closed", "gone"}]
    /\ mainPc \in MainPcs
    /\ acceptFd \in Fds \cup {NoFd}
    /\ index \in 1..(MaxSlot + 1)
    /\ newSlot \in Slots \cup {NoSlot}
    /\ used \in [Slots -> {0, 1}]
    /\ slotFd \in [Slots -> Fds \cup {NoFd}]
    /\ account \in [Slots -> Accounts]
    /\ online \in [Accounts -> {0, 1}]
    /\ pc \in [Threads -> Serving \cup Departing \cup {"none"}]
    /\ slot \in [Threads -> Slots \cup {NoSlot}]
    /\ firstFd \in [Threads -> Fds \cup {NoFd}]

Init ==
    /\ alive = TRUE
    /\ fdConn = [f \in Fds |-> "closed"]
    /\ mainPc = "accept" /\ acceptFd = NoFd /\ index = 1 /\ newSlot = NoSlot
    /\ used = [s \in Slots |-> 0]
    /\ slotFd = [s \in Slots |-> NoFd]
    /\ account \in {[s \in Slots |-> a] : a \in Accounts}
    /\ online = [a \in Accounts |-> 0]
    /\ pc = [t \in Threads |-> "none"]
    /\ slot = [t \in Threads |-> NoSlot]
    /\ firstFd = [t \in Threads |-> NoFd]
    /\ reused = FALSE

IsLeast(x, S) == x \in S /\ \A y \in S : x <= y

-----------------------------------------------------------------------------
(* The main thread, in pj_client_handle. *)

FreeFds == {f \in Fds : fdConn[f] = "closed"}

\* accept: client c has connected; the kernel returns the lowest descriptor.
Accept(c) ==
    /\ alive
    /\ mainPc = "accept"
    /\ \A f \in Fds : fdConn[f] # c
    /\ \E f \in Fds :
          /\ IsLeast(f, FreeFds)
          /\ acceptFd' = f
          /\ fdConn' = [fdConn EXCEPT ![f] = c]
    /\ mainPc' = "slot"
    /\ UNCHANGED <<alive, index, newSlot, tableVars, online, threadVars, reused>>

\* accept fails when there is no descriptor: pj_client_handle returns, main
\* returns, the process and all its threads end.
AcceptFails ==
    /\ alive
    /\ mainPc = "accept"
    /\ FreeFds = {}
    /\ alive' = FALSE
    /\ UNCHANGED <<fdConn, mainVars, tableVars, online, threadVars, reused>>

\* Variant: the loop of client_info_get runs to MAX_CLIENT_NUM inclusive.
TakeSlotOffByOne ==
    /\ alive
    /\ mainPc = "slot"
    /\ index \in Slots => used[index] = 0
    /\ newSlot' = index
    /\ used' = [n \in Slots |-> IF n = index THEN 1 ELSE used[n]]
    /\ mainPc' = "start" /\ index' = 1
    /\ UNCHANGED <<alive, fdConn, acceptFd, slotFd, account, online, threadVars, reused>>

\* client_info_get: a used slot is passed over, though it may be freed after that.
SkipSlot ==
    /\ alive
    /\ mainPc = "slot"
    /\ index \in Slots
    /\ used[index] = 1
    /\ index' = index + 1
    /\ UNCHANGED <<alive, fdConn, mainPc, acceptFd, newSlot, tableVars, online,
                   threadVars, reused>>

\* An unused slot is marked as used; nobody else marks slots, so that the test
\* and the mark are one step.
TakeSlot ==
    /\ alive
    /\ mainPc = "slot"
    /\ index \in Slots
    /\ used[index] = 0
    /\ newSlot' = index
    /\ used' = [used EXCEPT ![index] = 1]
    /\ reused' = (reused \/ \E t \in Threads : pc[t] \in Departing /\ slot[t] = index)
    /\ mainPc' = "start" /\ index' = 1
    /\ UNCHANGED <<alive, fdConn, acceptFd, slotFd, account, online, threadVars>>

\* No slot: the loop of pj_client_handle goes on and nobody keeps the descriptor.
NoSlotLeft ==
    /\ alive
    /\ mainPc = "slot"
    /\ index \notin Slots
    /\ mainPc' = "accept" /\ index' = 1
    /\ acceptFd' = NoFd
    /\ UNCHANGED <<alive, fdConn, newSlot, tableVars, online, threadVars, reused>>

\* fd = acceptFd, pthread_create and pthread_detach.
StartThread(t) ==
    /\ alive
    /\ mainPc = "start"
    /\ pc[t] = "none"
    /\ slotFd' = [slotFd EXCEPT ![newSlot] = acceptFd]
    /\ pc' = [pc EXCEPT ![t] = "user"]
    /\ slot' = [slot EXCEPT ![t] = newSlot]
    /\ firstFd' = [firstFd EXCEPT ![t] = acceptFd]
    /\ mainPc' = "accept" /\ acceptFd' = NoFd /\ newSlot' = NoSlot
    /\ UNCHANGED <<alive, fdConn, index, used, account, online, reused>>

-----------------------------------------------------------------------------
(* A client thread, in client_task. *)

\* What is at the other end of the descriptor in t's slot now.
Peer(t) == IF slotFd[slot[t]] = NoFd THEN "closed" ELSE fdConn[slotFd[slot[t]]]

At(t, p) == alive /\ pc[t] = p
Goto(t, p) == pc' = [pc EXCEPT ![t] = p]

\* Variant: the account goes online with its name, before its password.
UserOnline(t, a) ==
    /\ At(t, "user")
    /\ Peer(t) \in Clients
    /\ online[a] = 0
    /\ account' = [account EXCEPT ![slot[t]] = a]
    /\ online' = [online EXCEPT ![a] = 1]
    /\ Goto(t, "password")
    /\ UNCHANGED <<alive, fdConn, mainVars, used, slotFd, slot, firstFd, reused>>

\* account_check: the name is of an account that is not online ...
UserFree(t, a) ==
    /\ At(t, "user")
    /\ Peer(t) \in Clients
    /\ online[a] = 0
    /\ account' = [account EXCEPT ![slot[t]] = a]
    /\ Goto(t, "password")
    /\ UNCHANGED <<alive, fdConn, mainVars, used, slotFd, online, slot, firstFd, reused>>

\* ... (an unknown name, or one that is online, only prompts again); then the
\* password is the account's name ...
PasswordRight(t) ==
    /\ At(t, "password")
    /\ Peer(t) \in Clients
    /\ online' = [online EXCEPT ![account[slot[t]]] = 1]
    /\ Goto(t, "session")
    /\ UNCHANGED <<alive, fdConn, mainVars, tableVars, slot, firstFd, reused>>

\* Variant: after a wrong password the thread leaves and keeps its slot.
PasswordWrongLeaves(t) ==
    /\ At(t, "password")
    /\ Goto(t, "close")
    /\ UNCHANGED <<alive, fdConn, mainVars, tableVars, online, slot, firstFd, reused>>

\* ... or it is not, or recv returns nothing.
PasswordWrong(t) ==
    /\ At(t, "password")
    /\ Goto(t, "user")
    /\ UNCHANGED <<alive, fdConn, mainVars, tableVars, online, slot, firstFd, reused>>

\* The client has gone: account_check, or unlock_handler after its prompt, does
\* not look at what recv returns and sends once more, and the signal SIGPIPE
\* ends the process.
PromptNobody(t) ==
    /\ At(t, "user") \/ At(t, "session")
    /\ Peer(t) = "gone"
    /\ alive' = FALSE
    /\ UNCHANGED <<fdConn, mainVars, tableVars, online, threadVars, reused>>

\* Variant: "quit" closes the descriptor, which client_task closes again.
EndSessionCloses(t) ==
    /\ At(t, "session")
    /\ Peer(t) # "closed"
    /\ fdConn' = [fdConn EXCEPT ![slotFd[slot[t]]] = "closed"]
    /\ Goto(t, "leave")
    /\ UNCHANGED <<alive, mainVars, tableVars, online, slot, firstFd, reused>>

\* user_cmd_handle returns: "quit", or recv returns 0.
EndSession(t) ==
    /\ At(t, "session")
    /\ Peer(t) # "closed"
    /\ Goto(t, "leave")
    /\ UNCHANGED <<alive, fdConn, mainVars, tableVars, online, slot, firstFd, reused>>

\* cinfo->used = 0.
FreeSlot(t) ==
    /\ At(t, "leave")
    /\ used' = [used EXCEPT ![slot[t]] = 0]
    /\ Goto(t, "offline")
    /\ UNCHANGED <<alive, fdConn, mainVars, slotFd, account, online, slot, firstFd, reused>>

\* accounts[cinfo->account_id].online = 0.
GoOffline(t) ==
    /\ At(t, "offline")
    /\ online' = [online EXCEPT ![account[slot[t]]] = 0]
    /\ Goto(t, "close")
    /\ UNCHANGED <<alive, fdConn, mainVars, tableVars, slot, firstFd, reused>>

\* close(cinfo->fd), pthread_exit.
Close(t) ==
    /\ At(t, "close")
    /\ fdConn' = [f \in Fds |-> IF f = slotFd[slot[t]] THEN "closed" ELSE fdConn[f]]
    /\ Goto(t, "none")
    /\ slot' = [slot EXCEPT ![t] = NoSlot]
    /\ firstFd' = [firstFd EXCEPT ![t] = NoFd]
    /\ UNCHANGED <<alive, mainVars, tableVars, online, reused>>

-----------------------------------------------------------------------------
\* Client c closes its connection.
Disconnect(c) ==
    /\ alive
    /\ \E f \in Fds : fdConn[f] = c /\ fdConn' = [fdConn EXCEPT ![f] = "gone"]
    /\ UNCHANGED <<alive, mainVars, tableVars, online, threadVars, reused>>

Next ==
    \/ \E c \in Clients : Accept(c) \/ Disconnect(c)
    \/ AcceptFails
    \/ SkipSlot
    \/ TakeSlot
    \/ NoSlotLeft
    \/ \E t \in Threads :
          \/ StartThread(t)
          \/ \E a \in Accounts : UserFree(t, a)
          \/ PasswordRight(t) \/ PasswordWrong(t) \/ PromptNobody(t)
          \/ EndSession(t) \/ FreeSlot(t) \/ GoOffline(t) \/ Close(t)

Spec == Init /\ [][Next]_vars

-----------------------------------------------------------------------------
(* Properties. *)

Holders(s) == {t \in Threads : slot[t] = s /\ pc[t] \in Serving}

\* The slot table is exact: a slot is used just when the main thread has taken
\* it for the next client or one single thread serves its client from it; no
\* slot is lost and none is shared by two threads that serve.
SlotLedger ==
    \A s \in Slots :
        LET inHand == IF newSlot = s THEN 1 ELSE 0
        IN  used[s] = inHand + Cardinality(Holders(s))

\* A thread serves the connection it was created for, which is still open on
\* this side, and no two threads serve the same one: until a slot is reused too
\* early nobody types into another client's session.
OwnConnection ==
    ~reused =>
        \A t \in Threads : pc[t] \in Serving \cup Departing =>
            /\ slotFd[slot[t]] = firstFd[t]
            /\ fdConn[firstFd[t]] # "closed"
            /\ \A u \in Threads \ {t} :
                   pc[u] \in Serving \cup Departing => firstFd[u] # firstFd[t]

\* No account is left online with nobody in it, so that its user is refused
\* with "User exists!" for good.
NoAccountLockedOut ==
    ~reused =>
        \A a \in Accounts : online[a] = 1 =>
            \E t \in Threads : /\ pc[t] \in {"session", "leave", "offline"}
                               /\ account[slot[t]] = a

=============================================================================
