---------------------------- MODULE ClientProtocol ----------------------------
(***************************************************************************)
(* One client program (client.c) talking to its thread of the server       *)
(* (account_check, user_cmd_handle and unlock_handler in server.c).        *)
(*                                                                         *)
(* The messages have no framing: a recv returns whatever has arrived, and  *)
(* of several messages in it only the first is looked at (cmd_str_parse    *)
(* compares prefixes; no command of the table is a prefix of another).     *)
(* The client prompts its user at "user:", and also at "User exists!" and  *)
(* "Please try again!", after which the server sends one more "user:".     *)
(*                                                                         *)
(* A stream is a sequence of messages.  A line is what it means to the     *)
(* server: name (of the user's account; it is the password as well), code  *)
(* (the passcode on the LCD), lock (any command answered by one MSG:),     *)
(* unlock, or other.                                                       *)
(***************************************************************************)
EXTENDS Naturals, SequencesExt

CONSTANTS
    StreamLimit,  \* bound: messages under way when the user types a command
    MaxDoubled    \* bound: how often a retry and the "user:" after it are received apart

ASSUME ProtocolAssumption == StreamLimit \in Nat \ {0} /\ MaxDoubled \in Nat

Messages == {"user:", "password:", "Please try again!", "User exists!", "Welcome!",
             "Passcode please:", "MSG:", "fragment"}
Commands == {"lock", "unlock"}
Lines    == Commands \cup {"name", "code", "other"}

VARIABLES
    serverUp,   \* the server process runs
    serverPc,   \* where the server's thread is
    elsewhere,  \* accounts[].online of the account, set by another session
    clientPc,   \* where the client is
    prompt,     \* what the client asks its user for: login or passcode
    toClient, toServer,  \* what has been sent and not received
    conn,       \* the connection as the server's end of it knows it
    careful,    \* the user answers each prompt rightly from now on, and only that
    awaiting,   \* history: the user has not seen an answer since her last line
    early,      \* history: she has typed a command all the same
    doubled,    \* history: how often one answer was prompted for twice
    split,      \* history: a message was cut in two by recv's 64 bytes
    lost        \* history: a command the client sent was not executed

serverVars  == <<serverUp, serverPc>>
clientVars  == <<clientPc, prompt>>
userVars    == <<careful, awaiting, early, doubled, split>>
vars == <<serverVars, elsewhere, clientVars, toClient, toServer, conn, userVars, lost>>

\* prompt_user is before send("user:"), user, password, session and passcode are
\* in recv.
LoginPcs  == {"prompt_user", "user", "password"}
ServerPcs == LoginPcs \cup {"session", "passcode", "ended"}
\* main is in select, ask and command in fgets, recv in the loop of
\* socket_msg_handle; spin is that loop after the end of the stream.
ClientPcs == {"main", "ask", "command", "recv", "spin", "gone"}
\* fin: the client has closed; fin_sent: something was sent to it since;
\* fin_reset: its RST is here.  reset: an RST without a FIN; reset_told: the
\* error was reported.
ConnStates == {"open", "fin", "fin_sent", "fin_reset", "reset", "reset_told"}

TypeOK ==
    /\ serverUp \in BOOLEAN
    /\ serverPc \in ServerPcs
    /\ elsewhere \in BOOLEAN
    /\ clientPc \in ClientPcs
    /\ prompt \in {"login", "passcode"}
    /\ toClient \in Seq(Messages)
    /\ toServer \in Seq(Lines)
    /\ conn \in ConnStates
    /\ careful \in BOOLEAN /\ awaiting \in BOOLEAN /\ early \in BOOLEAN
    /\ doubled \in 0..MaxDoubled
    /\ split \in BOOLEAN /\ lost \in BOOLEAN

Init ==
    /\ serverUp = TRUE
    /\ serverPc = "prompt_user"
    /\ elsewhere = FALSE
    /\ clientPc = "main"
    /\ prompt = "login"
    /\ toClient = <<>>
    /\ toServer = <<>>
    /\ conn = "open"
    /\ careful = FALSE
    /\ awaiting = TRUE
    /\ early = FALSE
    /\ doubled = 0
    /\ split = FALSE
    /\ lost = FALSE

-----------------------------------------------------------------------------
(* The server's end of the connection. *)

Rest(s, k) == SubSeq(s, k + 1, Len(s))

\* Variant: a send that fails closes the connection.
ServerSendsOrCloses(m) ==
    /\ toClient' = IF conn = "open" THEN Append(toClient, m) ELSE toClient
    /\ conn' = CASE conn = "fin"   -> "fin_sent"
                 [] conn = "reset" -> "closed"
                 [] OTHER          -> conn
    /\ serverUp' = (conn \notin {"fin_reset", "reset_told"})

\* send(m), whose result nobody looks at: a client that has closed answers with
\* an RST, and after that the next send kills the process by SIGPIPE.
ServerSends(m) ==
    /\ toClient' = IF conn = "open" THEN Append(toClient, m) ELSE toClient
    /\ conn' = CASE conn = "fin"   -> "fin_sent"
                 [] conn = "reset" -> "reset_told"
                 [] OTHER          -> conn
    /\ serverUp' = (conn \notin {"fin_reset", "reset_told"})

\* recv returns k of the lines that have come, of which the first is used and the others
\* are forgotten; a command among the lines is executed only by Session.
ServerReceives(k, executed) ==
    /\ toServer' = Rest(toServer, k)
    /\ lost' = (lost \/ \E i \in 1..k :
                    toServer[i] \in Commands /\ ~(executed /\ i = 1))

\* recv returns 0 when the client has closed and everything has been read ...
AtEnd == toServer = <<>> /\ conn \in {"fin", "fin_sent", "fin_reset", "reset_told"}

\* ... and -1, once, when it was reset.
AtReset == toServer = <<>> /\ conn = "reset"

Told == conn' = IF AtReset THEN "reset_told" ELSE conn

\* send(m) after a recv that found nothing: the -1 has used the error up, and the
\* signal comes at once.
ServerSendsOn(m) ==
    \/ AtEnd /\ ServerSends(m)
    \/ AtReset /\ Told /\ serverUp' = FALSE /\ UNCHANGED toClient

-----------------------------------------------------------------------------
(* The thread of the server. *)

At(p) == serverUp /\ serverPc = p

\* account_check: send "user:".
PromptUser ==
    /\ At("prompt_user")
    /\ ServerSends("user:")
    /\ serverPc' = "user"
    /\ UNCHANGED <<elsewhere, clientVars, toServer, userVars, lost>>

\* Variant: after an unknown name the loop goes back to recv, not to the prompt.
UserLineSilent(k) ==
    /\ At("user")
    /\ ServerReceives(k, FALSE)
    /\ \/ /\ toServer[1] = "name" /\ ~elsewhere
          /\ ServerSends("password:")
          /\ serverPc' = "password"
       \/ /\ toServer[1] = "name" /\ elsewhere
          /\ ServerSends("User exists!")
          /\ serverPc' = "prompt_user"
       \/ /\ toServer[1] # "name"
          /\ UNCHANGED <<serverPc, toClient, conn, serverUp>>
    /\ UNCHANGED <<elsewhere, clientVars, userVars>>

\* The first line is a name of the table or not (then account_check returns -1
\* and starts again), and the account is free or not.
UserLine(k) ==
    /\ At("user")
    /\ ServerReceives(k, FALSE)
    /\ \/ /\ toServer[1] = "name" /\ ~elsewhere
          /\ ServerSends("password:")
          /\ serverPc' = "password"
       \/ /\ toServer[1] = "name" /\ elsewhere
          /\ ServerSends("User exists!")
          /\ serverPc' = "prompt_user"
       \/ /\ toServer[1] # "name"
          /\ serverPc' = "prompt_user"
          /\ UNCHANGED <<toClient, conn, serverUp>>
    /\ UNCHANGED <<elsewhere, clientVars, userVars>>

PasswordLine(k) ==
    /\ At("password")
    /\ ServerReceives(k, FALSE)
    /\ IF toServer[1] = "name"
       THEN ServerSends("Welcome!") /\ serverPc' = "session"
       ELSE ServerSends("Please try again!") /\ serverPc' = "prompt_user"
    /\ UNCHANGED <<elsewhere, clientVars, userVars>>

\* account_check does not look at what recv returns: nothing is a wrong name, or
\* a wrong password.
NothingAtLogin ==
    /\ At("user") \/ At("password")
    /\ AtEnd \/ AtReset
    /\ serverPc' = "prompt_user"
    /\ IF serverPc = "password" THEN ServerSendsOn("Please try again!")
       ELSE Told /\ UNCHANGED <<toClient, serverUp>>
    /\ UNCHANGED <<elsewhere, clientVars, toServer, userVars, lost>>

\* user_cmd_handle: a command is answered, unlock by a prompt if no alarm and no
\* privilege stands against it, anything else not at all.
SessionLine(k) ==
    /\ At("session")
    /\ ServerReceives(k, TRUE)
    /\ \/ toServer[1] \in Commands /\ ServerSends("MSG:") /\ UNCHANGED serverPc
       \/ /\ toServer[1] = "unlock"
          /\ ServerSends("Passcode please:")
          /\ serverPc' = "passcode"
       \/ /\ toServer[1] \notin Commands
          /\ UNCHANGED <<toClient, conn, serverUp, serverPc>>
    /\ UNCHANGED <<elsewhere, clientVars, userVars>>

\* A "quit" among the other lines, typed at a prompt: the thread ends and closes
\* the connection, and what has come with it and after it is never looked at.
SessionQuit ==
    /\ At("session")
    /\ toServer # <<>> /\ toServer[1] = "other"
    /\ ServerReceives(Len(toServer), TRUE)
    /\ serverPc' = "ended"
    /\ UNCHANGED <<serverUp, elsewhere, clientVars, toClient, conn, userVars>>

\* Variant: recv's 0 is taken for an empty command, as its -1 is.
SessionEndUnnoticed ==
    /\ At("session")
    /\ AtEnd
    /\ UNCHANGED vars

\* recv returns 0: user_cmd_handle returns and client_task ends.
SessionEnd ==
    /\ At("session")
    /\ AtEnd
    /\ serverPc' = "ended"
    /\ UNCHANGED <<serverUp, elsewhere, clientVars, toClient, toServer, conn, userVars, lost>>

\* It returns -1: that is an empty command.
SessionReset ==
    /\ At("session")
    /\ AtReset
    /\ Told
    /\ UNCHANGED <<serverVars, elsewhere, clientVars, toClient, toServer, userVars, lost>>

\* Variant: after a wrong passcode unlock_handler waits for another.
PasscodeLineRepeats(k) ==
    /\ At("passcode")
    /\ ServerReceives(k, FALSE)
    /\ ServerSends("MSG:")
    /\ serverPc' = IF toServer[1] = "code" THEN "session" ELSE "passcode"
    /\ UNCHANGED <<elsewhere, clientVars, userVars>>

\* unlock_handler: right or wrong, one message.
PasscodeLine(k) ==
    /\ At("passcode")
    /\ ServerReceives(k, FALSE)
    /\ ServerSends("MSG:")
    /\ serverPc' = "session"
    /\ UNCHANGED <<elsewhere, clientVars, userVars>>

\* recv returns nothing: a wrong passcode.
NoPasscode ==
    /\ At("passcode")
    /\ ServerSendsOn("MSG:")
    /\ serverPc' = "session"
    /\ UNCHANGED <<elsewhere, clientVars, toServer, userVars, lost>>

\* The server ends: SIGINT, or another client's thread brings it down.  What it has
\* sent can still be received.
ServerEnds ==
    /\ serverUp
    /\ serverUp' = FALSE
    /\ UNCHANGED <<serverPc, elsewhere, clientVars, toClient, toServer, conn, userVars, lost>>

-----------------------------------------------------------------------------
(* The client. *)

BUFF_SIZE == 64

\* The least and the greatest length of a message.
Shortest(m) == CASE m = "user:" -> 5 [] m = "password:" -> 9 [] m = "Welcome!" -> 8
                 [] m = "User exists!" -> 12 [] m = "Please try again!" -> 17
                 [] m = "Passcode please:" -> 16 [] m = "MSG:" -> 10 [] OTHER -> 1
Longest(m)  == CASE m \in {"MSG:", "fragment"} -> 28 [] OTHER -> Shortest(m)

Bytes(size(_), k) == FoldSeq(LAMBDA m, n : n + size(m), 0, SubSeq(toClient, 1, k))

\* What may remain of the stream when recv has returned k whole messages, all of
\* those that were there or the first of them: the next one may be cut in two.
Remains(k) ==
    IF Bytes(Shortest, k) > BUFF_SIZE THEN {}
    ELSE {Rest(toClient, k)} \cup
         (IF k < Len(toClient) /\ Bytes(Longest, k + 1) > BUFF_SIZE
          THEN {<<"fragment">> \o Rest(toClient, k + 1)} ELSE {})

\* The user is asked for p.
Asks(p) ==
    /\ clientPc' = "ask"
    /\ prompt' = p
    /\ UNCHANGED awaiting

\* Variant: a break after "Please try again!".
PromptsNoFallThrough(m) == m \in {"user:", "password:", "User exists!"}

\* userexist and userretry fall through to user.
Prompts(m) == m \in {"user:", "password:", "User exists!", "Please try again!"}

\* socket_msg_handle: the first of k messages decides; a fragment is no command
\* and recv is called again, unless what is left of the message looks like one.
ReadSocket(k) ==
    /\ clientPc \in {"main", "recv"}
    /\ toClient' \in Remains(k)
    /\ split' = (split \/ (toClient' # <<>> /\ toClient' # Rest(toClient, k)))
    /\ LET m == toClient[1]
       IN  \/ Prompts(m) /\ Asks("login")
           \/ m = "Passcode please:" /\ Asks("passcode")
           \/ /\ m \notin {"Passcode please:", "fragment"} /\ ~Prompts(m)
              /\ clientPc' = "main"
              /\ awaiting' = FALSE
              /\ UNCHANGED prompt
           \/ /\ m = "fragment"
              /\ clientPc' \in {"main", "recv"}
              /\ UNCHANGED <<prompt, awaiting>>
    /\ IF k = 1 /\ toClient[1] \in {"User exists!", "Please try again!"}
       THEN doubled < MaxDoubled /\ doubled' = doubled + 1
       ELSE UNCHANGED doubled
    /\ UNCHANGED <<serverVars, elsewhere, toServer, conn, careful, early, lost>>

\* The server's end of the connection is closed.
ServerGone == ~serverUp \/ serverPc = "ended"

\* recv returns 0 for ever, the buffer stays empty, and n is not looked at.
ReadEnd ==
    /\ clientPc \in {"main", "recv"}
    /\ ServerGone /\ toClient = <<>>
    /\ clientPc' = "spin"
    /\ UNCHANGED <<serverVars, elsewhere, prompt, toClient, toServer, conn, userVars, lost>>

\* send(l).  To a closed end it is lost, and the second one kills.
ClientSends(l) ==
    \/ /\ ~ServerGone
       /\ toServer' = Append(toServer, l)
       /\ clientPc' = "main"
    \/ /\ ServerGone
       /\ clientPc' \in {"main", "gone"}
       /\ UNCHANGED toServer

\* The user answers the prompt.
Answer(l) ==
    /\ clientPc = "ask"
    /\ l \in {IF prompt = "login" THEN "name" ELSE "code", "other"}
    /\ careful => l # "other"
    /\ ClientSends(l)
    /\ UNCHANGED <<serverVars, elsewhere, prompt, toClient, conn, userVars, lost>>

\* user_cmd_handle: the user types a command, or something else, upon which the
\* client waits for a command and for nothing else.
TypeCommand(l) ==
    /\ clientPc \in {"main", "command"}
    /\ ~careful
    /\ Len(toClient) + Len(toServer) < StreamLimit
    /\ early' = (early \/ awaiting)
    /\ \/ /\ l \in Commands
          /\ ClientSends(l)
          /\ awaiting' = TRUE
       \/ /\ l = "other"
          /\ clientPc' = "command"
          /\ UNCHANGED <<toServer, awaiting>>
    /\ UNCHANGED <<serverVars, elsewhere, prompt, toClient, conn, careful, doubled, split, lost>>

\* "quit", or the client is killed: close sends a FIN or, with unread data, an RST.
Leave ==
    /\ clientPc # "gone"
    /\ clientPc' = "gone"
    /\ conn' = IF toClient = <<>> THEN "fin" ELSE "reset"
    /\ toClient' = <<>>
    /\ UNCHANGED <<serverVars, elsewhere, prompt, toServer, userVars, lost>>

\* The RST with which the client's host answers what is sent after its FIN.
ResetArrives ==
    /\ conn = "fin_sent"
    /\ conn' = "fin_reset"
    /\ UNCHANGED <<serverVars, elsewhere, clientVars, toClient, toServer, userVars, lost>>

\* Another session of the account begins or ends.
Elsewhere(b) ==
    /\ b => ~careful
    /\ elsewhere' = b
    /\ UNCHANGED <<serverVars, clientVars, toClient, toServer, conn, userVars, lost>>

\* The user has had enough of trying, and no other session of her account begins.
Settle ==
    /\ ~careful
    /\ clientPc \notin {"command", "gone"}
    /\ careful' = TRUE
    /\ elsewhere' = FALSE
    /\ UNCHANGED <<serverVars, clientVars, toClient, toServer, conn, awaiting, early,
                   doubled, split, lost>>

-----------------------------------------------------------------------------
ServerThread ==
    \/ PromptUser \/ NothingAtLogin \/ SessionEnd \/ SessionReset \/ SessionQuit
    \/ NoPasscode
    \/ \E k \in 1..Len(toServer) :
          UserLine(k) \/ PasswordLine(k) \/ SessionLine(k) \/ PasscodeLine(k)

Next ==
    \/ PromptUser \/ NothingAtLogin \/ SessionEnd \/ SessionReset \/ SessionQuit
    \/ NoPasscode
    \/ \E k \in 1..Len(toServer) :
          UserLine(k) \/ PasswordLine(k) \/ SessionLine(k) \/ PasscodeLine(k)
    \/ ServerEnds
    \/ \E k \in 1..Len(toClient) : ReadSocket(k)
    \/ ReadEnd
    \/ \E l \in Lines : Answer(l) \/ TypeCommand(l)
    \/ Leave
    \/ ResetArrives
    \/ \E b \in BOOLEAN : Elsewhere(b)
    \/ Settle

\* Both programs run, and a user who is asked answers; she need not type
\* commands, leave or settle, nor need the server end.
Fairness ==
    /\ WF_vars(ServerThread)
    /\ WF_vars(\E k \in 1..Len(toClient) : ReadSocket(k))
    /\ WF_vars(ReadEnd)
    /\ WF_vars(\E l \in Lines : Answer(l))
    /\ WF_vars(ResetArrives)

Spec == Init /\ [][Next]_vars

FairSpec == Spec /\ Fairness

-----------------------------------------------------------------------------
(* Properties. *)

\* Nothing tells a command from an answer but its place in the stream.  Even so,
\* no command the client sends is taken for a name, a password or a passcode, nor
\* forgotten at the end of a recv, as long as the user types it only after the
\* answer to her last one (or "Welcome!") and no retry was prompted for twice.
NoCommandLost == lost => early \/ doubled > 0

\* When the server waits for the answer to a prompt and nothing is under way, the
\* client does ask its user, or no longer runs: a prompt gets hidden behind
\* another message only from a user who has typed ahead, or when so much is under
\* way that a message is cut in two.
PromptReachesUser ==
    /\ serverUp /\ serverPc \in {"user", "password", "passcode"}
    /\ toClient = <<>> /\ toServer = <<>>
    => clientPc \in {"ask", "gone"} \/ early \/ split

\* Whatever was mistyped, run together or asked twice before: a user who from now
\* on answers each prompt with her name gets into her session, unless she leaves,
\* or has typed a command before she was asked, or a message was cut in two.
LoginSucceeds ==
    careful /\ ~early /\ ~split /\ serverPc \in LoginPcs
        ~> serverPc = "session" \/ clientPc = "gone" \/ ~serverUp \/ split

\* When the client has gone its thread ends, though only one of the server's
\* recv's looks for that; or else the whole server has died of it.
ThreadEnds == clientPc = "gone" ~> serverPc = "ended" \/ ~serverUp
=============================================================================
