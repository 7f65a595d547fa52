------------------------ MODULE ClientProtocolProofs ------------------------
(***************************************************************************)
(* Proofs, for any length of the streams and any number of retries that    *)
(* are prompted for twice, that the types are right (TypeOK), that no      *)
(* command of a user who waits for her answers is lost (NoCommandLost)     *)
(* and that a prompt reaches a user who does not type ahead                *)
(* (PromptReachesUser).                                                    *)
(*                                                                         *)
(* The two last have an invariant each, that says what the two streams can *)
(* hold at each place of the server's thread.  How many bytes a recv takes *)
(* (Bytes) is not needed: only that what remains of the stream is its rest *)
(* or begins with a fragment.                                              *)
(***************************************************************************)
EXTENDS ClientProtocol, SequenceTheorems, TLAPS

\* Once the client has closed nothing is on its way to it.
Closed == conn # "open" => toClient = <<>> /\ clientPc = "gone"

Basic == TypeOK /\ Closed

-----------------------------------------------------------------------------
(* Streams. *)

\* The rest of a stream is its messages from the k-th on, moved to the front.
LEMMA RestOf ==
    ASSUME NEW S, NEW s \in Seq(S), NEW k \in 1..Len(s)
    PROVE  /\ Rest(s, k) \in Seq(S)
           /\ Len(Rest(s, k)) = Len(s) - k
           /\ \A i \in 1..(Len(s) - k) : Rest(s, k)[i] = s[i + k]
<1>1. /\ Len(s) \in Nat /\ k + 1 \in 1..(Len(s) + 1)
      /\ \A i \in (k + 1)..Len(s) : s[i] \in S
  OBVIOUS
<1>2. SubSeq(s, k + 1, Len(s)) = [i \in 1..(Len(s) - k) |-> s[i + k]]
  BY <1>1
<1> QED
  BY <1>1, <1>2 DEF Rest

\* What remains after a recv of k messages is the rest, or begins with a fragment.
LEMMA RemainsOf ==
    ASSUME NEW k, toClient' \in Remains(k)
    PROVE  \/ toClient' = Rest(toClient, k)
           \/ k < Len(toClient) /\ toClient' = <<"fragment">> \o Rest(toClient, k + 1)
  BY DEF Remains

-----------------------------------------------------------------------------
(* The steps of the server's thread, by what they do to the streams. *)

\* It sends m, which arrives if the client has not closed.
Says(m) ==
    /\ serverUp' \in BOOLEAN /\ conn' \in ConnStates /\ toClient' \in Seq(Messages)
    /\ conn = "open" => toClient' = Append(toClient, m) /\ conn' = "open"
    /\ conn # "open" => toClient' = <<>> /\ conn' # "open"

\* It sends nothing.
Silent ==
    /\ serverUp' \in BOOLEAN /\ conn' \in ConnStates /\ toClient' \in Seq(Messages)
    /\ toClient' = toClient
    /\ conn = "open" <=> conn' = "open"

\* It takes k lines, and executes the first as a command or not.
Takes(k, executed) ==
    /\ k \in 1..Len(toServer)
    /\ toServer' \in Seq(Lines)
    /\ Len(toServer') = Len(toServer) - k
    /\ \A i \in 1..Len(toServer') : toServer'[i] = toServer[i + k]
    /\ lost' \in BOOLEAN
    /\ lost' => lost \/ \E i \in 1..k : toServer[i] \in Commands /\ ~(executed /\ i = 1)

\* The thread goes from p to q.
Goes(p, q) == serverPc = p /\ serverPc' = q

\* What a line makes the thread do ...
LineStep(k) ==
    \/ Takes(k, FALSE) /\ Goes("user", "password") /\ Says("password:")
    \/ Takes(k, FALSE) /\ Goes("user", "prompt_user") /\ (Says("User exists!") \/ Silent)
    \/ Takes(k, FALSE) /\ Goes("password", "session") /\ Says("Welcome!")
    \/ Takes(k, FALSE) /\ Goes("password", "prompt_user") /\ Says("Please try again!")
    \/ Takes(k, FALSE) /\ Goes("passcode", "session") /\ Says("MSG:")
    \/ Takes(k, TRUE) /\ Goes("session", "session")
          /\ IF toServer[1] \in Commands THEN Says("MSG:") ELSE Silent
    \/ Takes(k, TRUE) /\ Goes("session", "passcode") /\ Says("Passcode please:")
          /\ toServer[1] \in Commands
    \/ Takes(k, TRUE) /\ Goes("session", "ended") /\ Silent

\* ... and what it does when the client has closed and everything has been read.
EndStep ==
    /\ toServer = <<>> /\ conn # "open" /\ conn' # "open" /\ conn' \in ConnStates
    /\ toServer' = <<>> /\ lost' = lost /\ toClient' = <<>> /\ serverUp' \in BOOLEAN
    /\ \/ Goes("user", "prompt_user") \/ Goes("password", "prompt_user")
       \/ Goes("session", "ended") \/ Goes("session", "session") \/ Goes("passcode", "session")

ServerSide ==
    /\ serverUp
    /\ UNCHANGED <<elsewhere, clientPc, prompt, careful, awaiting, early, doubled, split>>
    /\ \/ \E k \in 1..Len(toServer) : LineStep(k)
       \/ Goes("prompt_user", "user") /\ Says("user:") /\ UNCHANGED <<toServer, lost>>
       \/ EndStep

\* That is what send does ...
LEMMA SendOf ==
    ASSUME Basic, NEW m \in Messages, ServerSends(m)
    PROVE  Says(m)
<1>1. toClient \in Seq(Messages) /\ conn \in ConnStates /\ (conn # "open" => toClient = <<>>)
  BY DEF Basic, TypeOK, Closed
<1>2. conn' = CASE conn = "fin"   -> "fin_sent"
                [] conn = "reset" -> "reset_told"
                [] OTHER          -> conn
  BY DEF ServerSends
<1>3. conn' \in ConnStates /\ (conn = "open" <=> conn' = "open")
  BY <1>1, <1>2 DEF ConnStates
<1>4. toClient' = (IF conn = "open" THEN Append(toClient, m) ELSE toClient) /\ serverUp' \in BOOLEAN
  BY DEF ServerSends
<1> QED
  BY <1>1, <1>3, <1>4 DEF Says

\* ... and recv ...
LEMMA ReceiveOf ==
    ASSUME Basic, NEW k \in 1..Len(toServer), NEW e \in BOOLEAN, ServerReceives(k, e)
    PROVE  Takes(k, e)
<1>1. toServer \in Seq(Lines) /\ lost \in BOOLEAN
  BY DEF Basic, TypeOK
<1>2. toServer' = Rest(toServer, k)
  BY DEF ServerReceives
<1>3. lost' \in BOOLEAN
  BY DEF ServerReceives
<1>4. lost' => lost \/ \E i \in 1..k : toServer[i] \in Commands /\ ~(e /\ i = 1)
  BY DEF ServerReceives
<1>5. /\ toServer' \in Seq(Lines) /\ Len(toServer') = Len(toServer) - k
      /\ \A i \in 1..Len(toServer') : toServer'[i] = toServer[i + k]
  BY <1>1, <1>2, RestOf
<1> QED
  BY <1>3, <1>4, <1>5 DEF Takes

\* ... and a branch without either.
LEMMA SilentOf ==
    ASSUME Basic, UNCHANGED <<toClient, conn, serverUp>>
    PROVE  Silent
  BY DEF Basic, TypeOK, Silent

\* Every step of the thread is one of these.
LEMMA ServerSteps ==
    ASSUME Basic,
           \/ PromptUser \/ NothingAtLogin \/ SessionEnd \/ SessionReset \/ SessionQuit \/ NoPasscode
           \/ \E k \in 1..Len(toServer) :
                 UserLine(k) \/ PasswordLine(k) \/ SessionLine(k) \/ PasscodeLine(k)
    PROVE  ServerSide
<1> DEFINE Rested == UNCHANGED <<elsewhere, clientPc, prompt, careful, awaiting, early,
                                 doubled, split>>
<1> USE DEF clientVars, userVars, serverVars, At, Goes
<1>1. CASE PromptUser
  <2>1. Says("user:")
    BY <1>1, SendOf DEF PromptUser, Messages
  <2> QED
    BY <1>1, <2>1 DEF PromptUser, ServerSide
<1>2. ASSUME NEW k \in 1..Len(toServer), UserLine(k)
      PROVE  ServerSide
  <2>1. Takes(k, FALSE) /\ serverUp /\ Rested
    BY <1>2, ReceiveOf DEF UserLine
  <2>2. CASE ServerSends("password:") /\ serverPc' = "password"
    BY <1>2, <2>1, <2>2, SendOf DEF UserLine, Messages, ServerSide, LineStep
  <2>3. CASE ServerSends("User exists!") /\ serverPc' = "prompt_user"
    BY <1>2, <2>1, <2>3, SendOf DEF UserLine, Messages, ServerSide, LineStep
  <2>4. CASE serverPc' = "prompt_user" /\ UNCHANGED <<toClient, conn, serverUp>>
    BY <1>2, <2>1, <2>4, SilentOf DEF UserLine, ServerSide, LineStep
  <2> QED
    BY <1>2, <2>2, <2>3, <2>4 DEF UserLine
<1>3. ASSUME NEW k \in 1..Len(toServer), PasswordLine(k)
      PROVE  ServerSide
  <2>1. Takes(k, FALSE) /\ serverUp /\ Rested /\ serverPc = "password"
    BY <1>3, ReceiveOf DEF PasswordLine
  <2>2. CASE ServerSends("Welcome!") /\ serverPc' = "session"
    BY <2>1, <2>2, SendOf DEF Messages, ServerSide, LineStep
  <2>3. CASE ServerSends("Please try again!") /\ serverPc' = "prompt_user"
    BY <2>1, <2>3, SendOf DEF Messages, ServerSide, LineStep
  <2> QED
    BY <1>3, <2>2, <2>3 DEF PasswordLine
<1>4. ASSUME NEW k \in 1..Len(toServer), SessionLine(k)
      PROVE  ServerSide
  <2>1. Takes(k, TRUE) /\ serverUp /\ Rested /\ serverPc = "session"
    BY <1>4, ReceiveOf DEF SessionLine
  <2>2. CASE toServer[1] \in Commands /\ ServerSends("MSG:") /\ UNCHANGED serverPc
    BY <2>1, <2>2, SendOf DEF Messages, ServerSide, LineStep
  <2>3. CASE /\ toServer[1] = "unlock" /\ ServerSends("Passcode please:")
             /\ serverPc' = "passcode"
    BY <2>1, <2>3, SendOf DEF Messages, Commands, ServerSide, LineStep
  <2>4. CASE /\ toServer[1] \notin Commands
             /\ UNCHANGED <<toClient, conn, serverUp, serverPc>>
    BY <2>1, <2>4, SilentOf DEF ServerSide, LineStep
  <2> QED
    BY <1>4, <2>2, <2>3, <2>4 DEF SessionLine
<1>5. ASSUME NEW k \in 1..Len(toServer), PasscodeLine(k)
      PROVE  ServerSide
  <2>1. Takes(k, FALSE) /\ serverUp /\ Rested /\ Goes("passcode", "session")
    BY <1>5, ReceiveOf DEF PasscodeLine
  <2>2. Says("MSG:")
    BY <1>5, SendOf DEF PasscodeLine, Messages
  <2> QED
    BY <2>1, <2>2 DEF ServerSide, LineStep
<1>7. CASE SessionQuit
  <2>1. Len(toServer) \in 1..Len(toServer)
    <3>1. Len(toServer) \in Nat /\ (toServer = <<>> <=> Len(toServer) = 0)
      BY EmptySeq DEF Basic, TypeOK
    <3> QED
      BY <1>7, <3>1 DEF SessionQuit
  <2>2. Takes(Len(toServer), TRUE) /\ serverUp /\ Rested /\ Goes("session", "ended")
    BY <1>7, <2>1, ReceiveOf DEF SessionQuit
  <2>3. Silent
    BY <1>7, SilentOf DEF SessionQuit
  <2> QED
    BY <2>1, <2>2, <2>3 DEF ServerSide, LineStep
<1>6. CASE NothingAtLogin \/ SessionEnd \/ SessionReset \/ NoPasscode
  <2>1. toServer = <<>> /\ conn # "open" /\ serverUp /\ Rested /\ UNCHANGED <<toServer, lost>>
    BY <1>6 DEF NothingAtLogin, SessionEnd, SessionReset, NoPasscode, AtEnd, AtReset,
                ServerSendsOn
  <2>2. conn \in ConnStates /\ toClient = <<>> /\ serverUp \in BOOLEAN
    BY <2>1 DEF Basic, TypeOK, Closed
  <2>3. CASE ServerSends("Please try again!") \/ ServerSends("MSG:")
    <3>1. Says("Please try again!") \/ Says("MSG:")
      BY <2>3, SendOf DEF Messages
    <3> QED
      BY <1>6, <2>1, <3>1
      DEF NothingAtLogin, SessionEnd, SessionReset, NoPasscode, Says, ServerSide, EndStep
  <2>4. CASE UNCHANGED toClient /\ serverUp' \in BOOLEAN /\ (Told \/ UNCHANGED conn)
    <3>1. conn' \in ConnStates /\ conn' # "open"
      BY <2>1, <2>2, <2>4 DEF Told, ConnStates
    <3> QED
      BY <1>6, <2>1, <2>2, <2>4, <3>1
      DEF NothingAtLogin, SessionEnd, SessionReset, NoPasscode, ServerSide, EndStep
  <2> QED
    BY <1>6, <2>2, <2>3, <2>4
    DEF NothingAtLogin, SessionEnd, SessionReset, NoPasscode, ServerSendsOn
<1> QED
  BY <1>1, <1>2, <1>3, <1>4, <1>5, <1>6, <1>7
-----------------------------------------------------------------------------
(* The steps of the client and of the rest, in the same way. *)

\* The answers after which account_check sends one more "user:".
Retries == {"User exists!", "Please try again!"}

\* The client takes k messages and acts on the first.
Reads(k) ==
    /\ k \in 1..Len(toClient)
    /\ clientPc \in {"main", "recv"}
    /\ toClient' \in Seq(Messages)
    /\ k = Len(toClient) => toClient' = <<>>
    /\ ~split' => /\ ~split
                  /\ Len(toClient') = Len(toClient) - k
                  /\ \A i \in 1..Len(toClient') : toClient'[i] = toClient[i + k]
    /\ doubled' \in 0..MaxDoubled
    /\ doubled' = 0 => doubled = 0 /\ ~(k = 1 /\ toClient[1] \in Retries)
    /\ split' \in BOOLEAN /\ prompt' \in {"login", "passcode"}
    /\ \/ toClient[1] \in {"Welcome!", "MSG:"} /\ clientPc' = "main" /\ awaiting' = FALSE
       \/ /\ toClient[1] \notin {"Welcome!", "MSG:", "fragment"}
          /\ clientPc' = "ask" /\ awaiting' = awaiting
       \/ /\ toClient[1] = "fragment"
          /\ clientPc' \in {"main", "recv"} /\ awaiting' = awaiting
    /\ UNCHANGED <<serverUp, serverPc, elsewhere, toServer, conn, careful, early, lost>>

\* It sends l, to a server that runs or not.
Utters(l) ==
    /\ \/ ~ServerGone /\ toServer' = Append(toServer, l) /\ clientPc' = "main"
       \/ ServerGone /\ toServer' = toServer /\ clientPc' \in {"main", "gone"}
    /\ UNCHANGED <<serverUp, serverPc, elsewhere, prompt, toClient, conn, careful, doubled,
                   split, lost>>

\* What the user lets it send, or begins to type.
Types ==
    \/ \E l \in Lines \ Commands :
          clientPc = "ask" /\ Utters(l) /\ awaiting' = awaiting /\ early' = early
    \/ \E l \in Commands :
          /\ clientPc \in {"main", "command"} /\ Utters(l)
          /\ awaiting' = TRUE /\ early' = (early \/ awaiting)
    \/ /\ clientPc \in {"main", "command"} /\ clientPc' = "command"
       /\ awaiting' = awaiting /\ early' = (early \/ awaiting)
       /\ UNCHANGED <<serverUp, serverPc, elsewhere, prompt, toClient, toServer, conn, careful,
                      doubled, split, lost>>

\* It closes the connection.
Closes ==
    /\ clientPc' = "gone" /\ conn' \in ConnStates \ {"open"} /\ toClient' = <<>>
    /\ UNCHANGED <<serverUp, serverPc, elsewhere, prompt, toServer, careful, awaiting, early,
                   doubled, split, lost>>

\* Nothing is sent or received.
Aside ==
    /\ serverUp' \in {FALSE, serverUp}
    /\ clientPc' = clientPc \/ (clientPc' = "spin" /\ ServerGone' /\ clientPc \in {"main", "recv"})
    /\ conn' \in ConnStates /\ (conn = "open" <=> conn' = "open")
    /\ elsewhere' \in BOOLEAN /\ careful' \in BOOLEAN
    /\ UNCHANGED <<serverPc, prompt, toClient, toServer, awaiting, early, doubled, split, lost>>

\* socket_msg_handle does that.
LEMMA ReadOf ==
    ASSUME Basic, NEW k \in 1..Len(toClient), ReadSocket(k)
    PROVE  Reads(k)
<1>1. /\ toClient \in Seq(Messages) /\ Len(toClient) \in Nat /\ k \in 1..Len(toClient)
      /\ split \in BOOLEAN /\ doubled \in 0..MaxDoubled /\ prompt \in {"login", "passcode"}
  BY DEF Basic, TypeOK
<1>2. toClient[1] \in Messages
  BY <1>1
<1>3. /\ toClient' \in Remains(k)
      /\ split' = (split \/ (toClient' # <<>> /\ toClient' # Rest(toClient, k)))
      /\ clientPc \in {"main", "recv"}
      /\ UNCHANGED <<serverUp, serverPc, elsewhere, toServer, conn, careful, early, lost>>
  BY DEF ReadSocket, serverVars
<1>4. /\ Rest(toClient, k) \in Seq(Messages)
      /\ Len(Rest(toClient, k)) = Len(toClient) - k
      /\ \A i \in 1..(Len(toClient) - k) : Rest(toClient, k)[i] = toClient[i + k]
  BY <1>1, RestOf
<1>5. /\ toClient' \in Seq(Messages) /\ split' \in BOOLEAN
      /\ k = Len(toClient) => toClient' = <<>>
      /\ ~split' => ~split /\ toClient' = Rest(toClient, k)
  <2>1. CASE toClient' = Rest(toClient, k)
    <3>1. k = Len(toClient) => toClient' = <<>>
      BY <1>1, <1>4, <2>1, EmptySeq
    <3> QED
      BY <1>1, <1>3, <1>4, <2>1, <3>1
  <2>2. CASE k < Len(toClient) /\ toClient' = <<"fragment">> \o Rest(toClient, k + 1)
    <3>1. Rest(toClient, k + 1) \in Seq(Messages) /\ k + 1 \in 1..Len(toClient)
      BY <1>1, <2>2, RestOf
    <3>2. toClient' \in Seq(Messages) /\ toClient' # <<>>
      <4>1. <<"fragment">> \in Seq(Messages) /\ Len(<<"fragment">>) = 1
        BY DEF Messages
      <4>2. /\ toClient' \in Seq(Messages)
            /\ Len(toClient') = Len(<<"fragment">>) + Len(Rest(toClient, k + 1))
        BY <2>2, <3>1, <4>1, ConcatProperties
      <4>3. Len(Rest(toClient, k + 1)) \in Nat
        BY <3>1
      <4>4. Len(toClient') # 0
        BY <4>1, <4>2, <4>3
      <4> QED
        BY <4>2, <4>4, EmptySeq
    <3>3. ~(k = Len(toClient))
      BY <1>1, <2>2
    <3>4. split' = (split \/ toClient' # Rest(toClient, k))
      BY <1>3, <3>2
    <3> QED
      BY <1>1, <3>2, <3>3, <3>4
  <2> QED
    BY <1>3, <2>1, <2>2, RemainsOf
<1>6. /\ doubled' \in 0..MaxDoubled
      /\ doubled' = 0 => doubled = 0 /\ ~(k = 1 /\ toClient[1] \in Retries)
  <2>1. CASE k = 1 /\ toClient[1] \in {"User exists!", "Please try again!"}
    <3>1. doubled < MaxDoubled /\ doubled' = doubled + 1
      BY <2>1 DEF ReadSocket
    <3> QED
      BY <1>1, <3>1, ProtocolAssumption DEF ProtocolAssumption
  <2>2. CASE ~(k = 1 /\ toClient[1] \in {"User exists!", "Please try again!"})
    BY <1>1, <2>2 DEF ReadSocket, Retries
  <2> QED
    BY <2>1, <2>2
<1>7. /\ prompt' \in {"login", "passcode"}
      /\ \/ toClient[1] \in {"Welcome!", "MSG:"} /\ clientPc' = "main" /\ awaiting' = FALSE
         \/ /\ toClient[1] \notin {"Welcome!", "MSG:", "fragment"}
            /\ clientPc' = "ask" /\ awaiting' = awaiting
         \/ /\ toClient[1] = "fragment"
            /\ clientPc' \in {"main", "recv"} /\ awaiting' = awaiting
  BY <1>1, <1>2 DEF ReadSocket, Prompts, Asks, Messages
<1> QED
  BY <1>3, <1>4, <1>5, <1>6, <1>7 DEF Reads

\* The steps of Next are the thread's and these.
LEMMA StepCases ==
    ASSUME Basic, [Next]_vars
    PROVE  ServerSide \/ (\E k \in 1..Len(toClient) : Reads(k)) \/ Types \/ Closes \/ Aside
<1> USE DEF clientVars, userVars, serverVars
<1>0. /\ serverUp \in BOOLEAN /\ elsewhere \in BOOLEAN /\ careful \in BOOLEAN
      /\ conn \in ConnStates
  BY DEF Basic, TypeOK
<1>1. CASE \/ PromptUser \/ NothingAtLogin \/ SessionEnd \/ SessionReset \/ SessionQuit \/ NoPasscode
           \/ \E k \in 1..Len(toServer) :
                 UserLine(k) \/ PasswordLine(k) \/ SessionLine(k) \/ PasscodeLine(k)
  BY <1>1, ServerSteps
<1>2. CASE \E k \in 1..Len(toClient) : ReadSocket(k)
  BY <1>2, ReadOf
<1>3. ASSUME NEW l \in Lines, Answer(l)
      PROVE  Types
  <2>1. l \notin Commands
    BY <1>3 DEF Answer, Commands
  <2>2. Utters(l)
    BY <1>3 DEF Answer, ClientSends, Utters
  <2> QED
    BY <1>3, <2>1, <2>2 DEF Answer, Types
<1>4. ASSUME NEW l \in Lines, TypeCommand(l)
      PROVE  Types
  <2>1. CASE l \in Commands /\ ClientSends(l) /\ awaiting' = TRUE
    <3>1. Utters(l)
      BY <1>4, <2>1 DEF TypeCommand, ClientSends, Utters
    <3> QED
      BY <1>4, <2>1, <3>1 DEF TypeCommand, Types
  <2>2. CASE l = "other" /\ clientPc' = "command" /\ UNCHANGED <<toServer, awaiting>>
    BY <1>4, <2>2 DEF TypeCommand, Types
  <2> QED
    BY <1>4, <2>1, <2>2 DEF TypeCommand
<1>5. CASE Leave
  BY <1>5 DEF Leave, Closes, ConnStates
<1>6. CASE ServerEnds \/ ReadEnd
  BY <1>0, <1>6 DEF ServerEnds, ReadEnd, Aside, ServerGone
<1>7. CASE ResetArrives \/ Settle \/ UNCHANGED vars
  BY <1>0, <1>7 DEF ResetArrives, Settle, vars, Aside, ConnStates
<1>8. CASE \E b \in BOOLEAN : Elsewhere(b)
  BY <1>0, <1>8 DEF Elsewhere, Aside
<1> QED
  BY <1>1, <1>2, <1>3, <1>4, <1>5, <1>6, <1>7, <1>8 DEF Next

\* The types, and that a closed connection stays empty, hold at the start.
LEMMA BasicInit == Init => Basic
<1> SUFFICES ASSUME Init PROVE Basic
  OBVIOUS
<1>1. doubled \in 0..MaxDoubled
  BY ProtocolAssumption DEF ProtocolAssumption, Init
<1>2. toClient \in Seq(Messages) /\ toServer \in Seq(Lines)
  BY DEF Init
<1>3. Closed
  BY DEF Init, Closed
<1> QED
  BY <1>1, <1>2, <1>3 DEF Init, Basic, TypeOK, ServerPcs, LoginPcs, ClientPcs, ConnStates

\* Every step keeps them.
LEMMA BasicNext == Basic /\ [Next]_vars => Basic'
<1> SUFFICES ASSUME Basic, [Next]_vars PROVE Basic'
  OBVIOUS
<1> USE DEF Basic, TypeOK, Closed, ServerPcs, LoginPcs, ClientPcs, ConnStates
<1>1. CASE ServerSide
  <2>1. /\ elsewhere' = elsewhere /\ clientPc' = clientPc /\ prompt' = prompt
        /\ careful' = careful /\ awaiting' = awaiting /\ early' = early
        /\ doubled' = doubled /\ split' = split
    BY <1>1 DEF ServerSide
  <2>2. ASSUME NEW k \in 1..Len(toServer), LineStep(k)
        PROVE  Basic'
    <3>1. /\ toServer' \in Seq(Lines) /\ lost' \in BOOLEAN
          /\ serverPc' \in ServerPcs
      BY <2>2 DEF LineStep, Takes, Goes
    <3>2. /\ serverUp' \in BOOLEAN /\ conn' \in ConnStates /\ toClient' \in Seq(Messages)
          /\ conn' # "open" => conn # "open" /\ toClient' = <<>>
      BY <2>2 DEF LineStep, Says, Silent
    <3> QED
      BY <2>1, <3>1, <3>2
  <2>3. CASE Goes("prompt_user", "user") /\ Says("user:") /\ UNCHANGED <<toServer, lost>>
    BY <2>1, <2>3 DEF Goes, Says
  <2>4. CASE EndStep
    BY <2>1, <2>4 DEF EndStep, Goes
  <2> QED
    BY <1>1, <2>2, <2>3, <2>4 DEF ServerSide
<1>2. ASSUME NEW k \in 1..Len(toClient), Reads(k)
      PROVE  Basic'
  BY <1>2 DEF Reads
<1>3. CASE Types
  <2>1. ASSUME NEW l \in Lines, Utters(l), awaiting' \in BOOLEAN, early' \in BOOLEAN,
               clientPc # "gone"
        PROVE  Basic'
    <3>1. toServer' \in Seq(Lines) /\ clientPc' \in {"main", "gone"}
      <4>1. toServer' \in {toServer, Append(toServer, l)} /\ clientPc' \in {"main", "gone"}
        BY <2>1 DEF Utters
      <4> QED
        BY <2>1, <4>1
    <3>2. conn = "open" /\ UNCHANGED <<serverUp, serverPc, elsewhere, prompt, toClient, conn,
                                      careful, doubled, split, lost>>
      BY <2>1 DEF Utters
    <3> QED
      BY <2>1, <3>1, <3>2
  <2>2. CASE \E l \in Lines \ Commands :
                clientPc = "ask" /\ Utters(l) /\ awaiting' = awaiting /\ early' = early
    BY <2>1, <2>2
  <2>3. ASSUME NEW l \in Commands, clientPc \in {"main", "command"}, Utters(l),
               awaiting' = TRUE, early' = (early \/ awaiting)
        PROVE  Basic'
    <3>1. l \in Lines /\ awaiting' \in BOOLEAN /\ early' \in BOOLEAN
      BY <2>3 DEF Lines
    <3> QED
      BY <2>1, <2>3, <3>1
  <2>4. CASE /\ clientPc \in {"main", "command"} /\ clientPc' = "command"
             /\ awaiting' = awaiting /\ early' = (early \/ awaiting)
             /\ UNCHANGED <<serverUp, serverPc, elsewhere, prompt, toClient, toServer, conn,
                            careful, doubled, split, lost>>
    BY <2>4
  <2> QED
    BY <1>3, <2>2, <2>3, <2>4 DEF Types
<1>4. CASE Closes
  BY <1>4 DEF Closes
<1>5. CASE Aside
  <2>1. /\ serverUp' \in BOOLEAN /\ clientPc' \in ClientPcs /\ conn' \in ConnStates
        /\ elsewhere' \in BOOLEAN /\ careful' \in BOOLEAN
        /\ UNCHANGED <<serverPc, prompt, toClient, toServer, awaiting, early, doubled, split,
                       lost>>
    BY <1>5 DEF Aside
  <2>2. conn' # "open" => conn # "open" /\ clientPc' = "gone"
    BY <1>5 DEF Aside
  <2> QED
    BY <2>1, <2>2
<1> QED
  BY <1>1, <1>2, <1>3, <1>4, <1>5, StepCases

\* Whatever the two programs send each other, the variables keep their types.
THEOREM ProtocolTypes == Spec => []TypeOK
<1>1. Basic => TypeOK
  BY DEF Basic
<1> QED
  BY <1>1, BasicInit, BasicNext, PTL DEF Spec
-----------------------------------------------------------------------------
(* A user who waits for her answers. *)

\* The message m is the last the thread can have sent when it is at p.
Latest(p, m) ==
    \/ p = "prompt_user" /\ m \in Retries
    \/ p = "user" /\ m = "user:"
    \/ p = "password" /\ m = "password:"
    \/ p = "passcode" /\ m = "Passcode please:"
    \/ p \in {"session", "ended"} /\ m \in {"Welcome!", "MSG:"}

\* Client and server speak in turn: there is a line or an answer under way or
\* neither, and the answer is one message or a retry with its "user:"; a command
\* is only ever on its way to a session.
Turns ==
    /\ ~lost
    /\ Len(toServer) <= 1
    /\ toServer # <<>> => toClient = <<>> /\ clientPc # "ask" /\ serverPc # "prompt_user"
    /\ clientPc = "ask" => toClient = <<>> /\ serverPc # "prompt_user"
    /\ toClient # <<>> => Latest(serverPc, toClient[Len(toClient)])
    /\ \/ Len(toClient) <= 1
       \/ Len(toClient) = 2 /\ toClient[1] \in Retries /\ serverPc = "user"
    /\ ~awaiting => /\ serverPc \in {"session", "ended"}
                    /\ toServer = <<>> /\ toClient = <<>> /\ clientPc # "ask"
    /\ \A i \in 1..Len(toServer) : toServer[i] \in Commands => serverPc = "session"

InTurn == ~early /\ doubled = 0 => Turns

\* What is at most one is none or one.
LEMMA NoneOrOne == \A n \in Nat : n <= 1 => n = 0 \/ n = 1
  OBVIOUS

\* A sequence is empty when it has no element.
LEMMA Empty ==
    /\ TypeOK => (toClient = <<>> <=> Len(toClient) = 0) /\ Len(toClient) \in Nat
    /\ TypeOK => (toServer = <<>> <=> Len(toServer) = 0) /\ Len(toServer) \in Nat
  BY EmptySeq DEF TypeOK

\* The server takes the one line there is.
LEMMA TakesTurn ==
    ASSUME Basic, Basic', Turns, NEW k \in 1..Len(toServer), NEW e \in BOOLEAN, Takes(k, e),
           e <=> serverPc = "session"
    PROVE  /\ toServer' = <<>> /\ ~lost' /\ awaiting
           /\ toClient = <<>> /\ clientPc # "ask" /\ serverPc # "prompt_user"
<1>1. Len(toServer) = 1 /\ k = 1 /\ toServer # <<>>
  <2>1. Len(toServer) \in Nat /\ (toServer = <<>> <=> Len(toServer) = 0)
    BY Empty DEF Basic
  <2>2. Len(toServer) <= 1
    BY DEF Turns
  <2>3. Len(toServer) # 0
    BY <2>1
  <2>4. Len(toServer) = 1
    BY <2>1, <2>2, <2>3, NoneOrOne
  <2> QED
    BY <2>1, <2>4
<1>2. toServer' \in Seq(Lines) /\ Len(toServer') = 0
  BY <1>1 DEF Takes
<1>3. toServer' = <<>>
  BY <1>2, EmptySeq
<1>4. lost' => lost \/ \E i \in 1..1 : toServer[i] \in Commands /\ ~(e /\ i = 1)
  BY <1>1 DEF Takes
<1>5. ~lost /\ \A i \in 1..1 : toServer[i] \in Commands => serverPc = "session"
  BY <1>1 DEF Turns
<1>6. ~lost'
  BY <1>4, <1>5
<1> QED
  BY <1>1, <1>3, <1>6 DEF Turns

\* What it says then is the only message under way.
LEMMA SaysFirst ==
    ASSUME Basic, toClient = <<>>, NEW m \in Messages, Says(m)
    PROVE  Len(toClient') <= 1 /\ (toClient' # <<>> => toClient'[Len(toClient')] = m)
  BY DEF Says

\* The server keeps to its turn.
LEMMA ServerTurn ==
    ASSUME Basic, Basic', Turns, ServerSide
    PROVE  Turns'
<1>1. clientPc' = clientPc /\ awaiting' = awaiting
  BY DEF ServerSide
<1>2. ASSUME NEW k \in 1..Len(toServer), LineStep(k)
      PROVE  Turns'
  <2>1. PICK e \in BOOLEAN : Takes(k, e) /\ (e <=> serverPc = "session")
    BY <1>2 DEF LineStep, Goes
  <2>2. /\ toServer' = <<>> /\ ~lost' /\ awaiting
        /\ toClient = <<>> /\ clientPc # "ask" /\ serverPc # "prompt_user"
    BY <2>1, TakesTurn
  <2>3. \/ toClient' = <<>>
        \/ \E m \in Messages : Says(m) /\ Latest(serverPc', m)
    BY <1>2, <2>2 DEF LineStep, Goes, Silent, Latest, Retries, Messages
  <2>4. /\ Len(toClient') <= 1
        /\ toClient' # <<>> => Latest(serverPc', toClient'[Len(toClient')])
    BY <2>2, <2>3, SaysFirst, Empty DEF Basic
  <2>5. Len(toServer') = 0
    BY <2>2
  <2> QED
    BY <1>1, <2>2, <2>4, <2>5 DEF Turns
<1>3. CASE Goes("prompt_user", "user") /\ Says("user:") /\ UNCHANGED <<toServer, lost>>
  <2>1. /\ serverPc = "prompt_user" /\ serverPc' = "user" /\ toServer' = toServer /\ lost' = lost
        /\ toServer = <<>> /\ clientPc # "ask" /\ awaiting
    BY <1>3 DEF Goes, Turns
  <2>2. toClient = <<>> \/ (Len(toClient) = 1 /\ toClient[1] \in Retries)
    <3>1. Len(toClient) \in Nat /\ (toClient = <<>> <=> Len(toClient) = 0)
      BY Empty DEF Basic
    <3>2. Len(toClient) <= 1 /\ (toClient # <<>> => Latest("prompt_user", toClient[Len(toClient)]))
      BY <2>1 DEF Turns
    <3>3. toClient # <<>> => Len(toClient) = 1
      BY <3>1, <3>2, NoneOrOne
    <3> QED
      BY <3>2, <3>3 DEF Latest
  <2>3. toClient \in Seq(Messages) /\ (toClient' = <<>> \/ toClient' = Append(toClient, "user:"))
    BY <1>3 DEF Says, Basic, TypeOK
  <2>4. /\ toClient' # <<>> => toClient'[Len(toClient')] = "user:"
        /\ Len(toClient') <= 1 \/ (Len(toClient') = 2 /\ toClient'[1] \in Retries)
    <3>1. CASE toClient' = <<>>
      BY <3>1
    <3>2. CASE toClient' = Append(toClient, "user:")
      <4>1. "user:" \in Messages
        BY DEF Messages
      <4>2. /\ Len(toClient') = Len(toClient) + 1
            /\ toClient'[Len(toClient) + 1] = "user:"
            /\ \A i \in 1..Len(toClient) : toClient'[i] = toClient[i]
        BY <2>3, <3>2, <4>1, AppendProperties
      <4> QED
        BY <2>2, <4>2
    <3> QED
      BY <2>3, <3>1, <3>2
  <2> QED
    BY <1>1, <2>1, <2>4 DEF Turns, Latest
<1>4. CASE EndStep
  <2>1. /\ toClient' = <<>> /\ toServer' = <<>> /\ lost' = lost /\ clientPc' = "gone"
        /\ serverPc \in {"session", "ended"} => serverPc' \in {"session", "ended"}
    BY <1>1, <1>4 DEF EndStep, Basic, Closed, Goes
  <2>2. Len(toClient') = 0 /\ Len(toServer') = 0
    BY <2>1
  <2> QED
    BY <1>1, <2>1, <2>2 DEF Turns
<1> QED
  BY <1>2, <1>3, <1>4 DEF ServerSide

\* So does the client, if it does not read a retry without its "user:".
LEMMA ReadTurn ==
    ASSUME Basic, Basic', Turns, NEW k \in 1..Len(toClient), Reads(k), doubled' = 0
    PROVE  Turns'
<1>1. /\ Len(toClient) \in {1, 2} /\ toClient # <<>> /\ toServer = <<>> /\ awaiting
      /\ Len(toClient) = 2 => toClient[1] \in Retries /\ serverPc = "user"
      /\ Latest(serverPc, toClient[Len(toClient)])
  <2>1. Len(toClient) \in Nat /\ (toClient = <<>> <=> Len(toClient) = 0)
    BY Empty DEF Basic
  <2>2. Len(toClient) # 0 /\ toClient # <<>>
    BY <2>1
  <2>3. \/ Len(toClient) <= 1
        \/ Len(toClient) = 2 /\ toClient[1] \in Retries /\ serverPc = "user"
    BY DEF Turns
  <2>4. Len(toClient) \in {1, 2}
    BY <2>1, <2>2, <2>3, NoneOrOne
  <2> QED
    BY <2>2, <2>3, <2>4 DEF Turns
<1>2. ~(k = 1 /\ toClient[1] \in Retries)
  BY DEF Reads
<1>3. k = Len(toClient)
  BY <1>1, <1>2
<1>4. /\ toClient' = <<>> /\ toServer' = toServer /\ lost' = lost /\ serverPc' = serverPc
  BY <1>3 DEF Reads
<1>5. serverPc # "prompt_user"
  BY <1>1, <1>2, <1>3 DEF Latest
<1>6. CASE toClient[1] \in {"Welcome!", "MSG:"} /\ clientPc' = "main" /\ awaiting' = FALSE
  <2>1. Len(toClient) = 1
    BY <1>1, <1>6 DEF Retries
  <2>2. serverPc \in {"session", "ended"}
    BY <1>1, <1>6, <2>1 DEF Latest, Retries
  <2> QED
    BY <1>1, <1>4, <1>5, <1>6, <2>2 DEF Turns
<1>7. CASE awaiting' = awaiting
  BY <1>1, <1>4, <1>5, <1>7 DEF Turns
<1> QED
  BY <1>6, <1>7 DEF Reads

\* And the user, if she has not typed ahead.
LEMMA UserTurn ==
    ASSUME Basic, Basic', Turns, Types, ~early'
    PROVE  Turns'
<1>1. ASSUME NEW l \in Lines, Utters(l), toServer = <<>>, toClient = <<>>,
             serverPc # "prompt_user", awaiting',
             l \in Commands => serverPc \in {"session", "ended"}
      PROVE  Turns'
  <2>1. /\ toClient' = <<>> /\ serverPc' = serverPc /\ lost' = lost /\ clientPc' # "ask"
        /\ (toServer' = <<l>> /\ serverPc # "ended") \/ toServer' = <<>>
    BY <1>1 DEF Utters, ServerGone
  <2>2. /\ Len(toServer') <= 1 /\ Len(toClient') = 0
        /\ \A i \in 1..Len(toServer') : toServer'[i] = l /\ serverPc # "ended"
    <3>1. CASE toServer' = <<l>> /\ serverPc # "ended"
      BY <2>1, <3>1
    <3>2. CASE toServer' = <<>>
      BY <2>1, <3>2
    <3> QED
      BY <2>1, <3>1, <3>2
  <2> QED
    BY <1>1, <2>1, <2>2 DEF Turns
<1>2. ASSUME NEW l \in Lines \ Commands, clientPc = "ask", Utters(l), awaiting' = awaiting
      PROVE  Turns'
  BY <1>1, <1>2 DEF Turns
<1>3. ASSUME NEW l \in Commands, clientPc \in {"main", "command"}, Utters(l),
             awaiting' = TRUE, early' = (early \/ awaiting)
      PROVE  Turns'
  <2>1. serverPc \in {"session", "ended"} /\ toServer = <<>> /\ toClient = <<>>
    BY <1>3 DEF Turns
  <2> QED
    BY <1>1, <1>3, <2>1 DEF Lines
<1>4. CASE /\ clientPc' = "command" /\ awaiting' = awaiting
           /\ UNCHANGED <<serverUp, serverPc, elsewhere, prompt, toClient, toServer, conn,
                          careful, doubled, split, lost>>
  BY <1>4 DEF Turns
<1> QED
  BY <1>2, <1>3, <1>4 DEF Types

\* The rest leaves whose turn it is.
LEMMA OthersTurn ==
    ASSUME Basic, Turns, Closes \/ Aside
    PROVE  Turns'
<1>1. CASE Closes
  <2>1. toClient' = <<>> /\ Len(toClient') = 0
    BY <1>1 DEF Closes
  <2> QED
    BY <1>1, <2>1 DEF Closes, Turns
<1>2. CASE Aside
  BY <1>2 DEF Aside, Turns
<1> QED
  BY <1>1, <1>2

\* Every step of a behaviour without typing ahead keeps the turns.
LEMMA InTurnNext == Basic /\ InTurn /\ [Next]_vars => InTurn'
<1> SUFFICES ASSUME Basic, InTurn, [Next]_vars, ~early', doubled' = 0
             PROVE  Turns'
  BY DEF InTurn
<1>1. Basic'
  BY BasicNext
<1>2. ~early /\ doubled = 0
  <2>1. CASE ServerSide \/ Closes \/ Aside
    <3>1. early' = early /\ doubled' = doubled
      BY <2>1 DEF ServerSide, Closes, Aside
    <3> QED
      BY <3>1
  <2>2. CASE \E k \in 1..Len(toClient) : Reads(k)
    BY <2>2 DEF Reads
  <2>3. CASE Types
    <3>1. doubled' = doubled
      BY <2>3 DEF Types, Utters
    <3>2. early => early'
      BY <2>3 DEF Types
    <3> QED
      BY <3>1, <3>2
  <2> QED
    BY <2>1, <2>2, <2>3, StepCases
<1>3. Turns
  BY <1>2 DEF InTurn
<1> QED
  BY <1>1, <1>3, StepCases, ServerTurn, ReadTurn, UserTurn, OthersTurn

\* A command of a user who types it only after the answer to her last line is
\* executed: it reaches the server's thread alone, and in its session.
THEOREM CommandsArrive == Spec => []NoCommandLost
<1>1. Init => InTurn
  <2>1. Init => Len(toClient) = 0 /\ Len(toServer) = 0
    BY DEF Init
  <2> QED
    BY <2>1 DEF Init, InTurn, Turns
<1>2. Basic /\ InTurn => NoCommandLost
  <2>1. Basic => doubled \in Nat
    BY DEF Basic, TypeOK
  <2> QED
    BY <2>1 DEF InTurn, Turns, NoCommandLost
<1> QED
  BY <1>1, <1>2, BasicInit, BasicNext, InTurnNext, PTL DEF Spec
-----------------------------------------------------------------------------
(* A user who does not type ahead. *)

\* No command is on its way.
NoCommands == \A i \in 1..Len(toServer) : toServer[i] \notin Commands

\* Something will make the server's thread go on, or the client is gone.
Waits == toClient # <<>> \/ toServer # <<>> \/ clientPc \in {"ask", "gone"}

\* At the login everything the client gets is a prompt, so that it is asking when
\* all has been read, however often a retry and its "user:" were taken for two.
LoginPart ==
    serverPc \in LoginPcs =>
        /\ awaiting
        /\ \A i \in 1..Len(toClient) : Prompts(toClient[i])
        /\ NoCommands
        /\ serverUp /\ serverPc # "prompt_user" => Waits

\* The prompt for the passcode is alone on its way.
PasscodePart ==
    serverPc = "passcode" =>
        /\ awaiting
        /\ Len(toClient) <= 1
        /\ toClient # <<>> =>
              toClient[1] = "Passcode please:" /\ toServer = <<>> /\ clientPc # "ask"
        /\ toServer # <<>> => clientPc # "ask"
        /\ NoCommands
        /\ serverUp => Waits

\* In the session the last message is an answer and what is before it are prompts
\* left from the login; a command is the last line, and nothing is under way to
\* the client when it is sent.
SessionPart ==
    serverPc \in {"session", "ended"} =>
        /\ \A i \in 1..Len(toClient) :
              IF i = Len(toClient) THEN toClient[i] \in {"Welcome!", "MSG:"}
              ELSE Prompts(toClient[i])
        /\ ~awaiting => toClient = <<>> /\ clientPc # "ask"
        /\ \A i \in 1..Len(toServer) : toServer[i] \in Commands =>
              i = Len(toServer) /\ awaiting /\ toClient = <<>> /\ clientPc # "ask"

Prompted == LoginPart /\ PasscodePart /\ SessionPart

Calm == ~early /\ ~split => Prompted

\* What is taken leaves no command where there was none.
LEMMA TakesPlain ==
    ASSUME TypeOK, NEW k, NEW e, Takes(k, e), NoCommands
    PROVE  NoCommands'
<1>1. Len(toServer) \in Nat
  BY Empty
<1>2. ASSUME NEW i \in 1..Len(toServer')
      PROVE  i + k \in 1..Len(toServer) /\ toServer'[i] = toServer[i + k]
  BY <1>1 DEF Takes
<1> QED
  BY <1>2 DEF NoCommands

\* What is said is the last message under way.
LEMMA SaysLast ==
    ASSUME Basic, NEW m \in Messages, Says(m)
    PROVE  /\ \A i \in 1..Len(toClient') :
                 \/ i = Len(toClient') /\ toClient'[i] = m
                 \/ i # Len(toClient') /\ i \in 1..Len(toClient) /\ toClient'[i] = toClient[i]
           /\ toClient' # <<>> \/ clientPc = "gone"
           /\ toClient = <<>> => Len(toClient') <= 1
<1>1. CASE conn = "open"
  <2>1. toClient' = Append(toClient, m) /\ toClient \in Seq(Messages) /\ Len(toClient) \in Nat
    BY <1>1, Empty DEF Says, Basic, TypeOK
  <2>2. /\ Len(toClient') = Len(toClient) + 1
        /\ toClient'[Len(toClient) + 1] = m
        /\ \A i \in 1..Len(toClient) : toClient'[i] = toClient[i]
        /\ toClient' # <<>>
    BY <2>1, AppendProperties
  <2>3. toClient = <<>> => Len(toClient') <= 1
    BY <2>1, <2>2
  <2>4. \A i \in 1..Len(toClient') : i = Len(toClient') \/ i \in 1..Len(toClient)
    BY <2>1, <2>2
  <2>5. \A i \in 1..Len(toClient) : i # Len(toClient')
    BY <2>1, <2>2
  <2> QED
    BY <2>2, <2>3, <2>4, <2>5
<1>2. CASE conn # "open"
  <2>1. toClient' = <<>> /\ clientPc = "gone" /\ Len(toClient') = 0
    BY <1>2 DEF Says, Basic, Closed
  <2> QED
    BY <2>1
<1> QED
  BY <1>1, <1>2

\* Where a line is a command it was the only one.
LEMMA CommandAlone ==
    ASSUME Basic, SessionPart, serverPc = "session", NEW k \in 1..Len(toServer), Takes(k, TRUE),
           toServer[1] \in Commands
    PROVE  toServer' = <<>> /\ awaiting /\ toClient = <<>> /\ clientPc # "ask"
<1>1. Len(toServer) \in Nat /\ 1 \in 1..Len(toServer)
  BY Empty DEF Basic
<1>2. Len(toServer) = 1 /\ awaiting /\ toClient = <<>> /\ clientPc # "ask"
  BY <1>1 DEF SessionPart
<1>3. toServer' \in Seq(Lines) /\ Len(toServer') = 0
  BY <1>1, <1>2 DEF Takes
<1> QED
  BY <1>2, <1>3, EmptySeq

\* The server's steps leave prompts and answers in this order.
LEMMA ServerPrompts ==
    ASSUME Basic, Basic', Prompted, ServerSide
    PROVE  Prompted'
<1>0. /\ clientPc' = clientPc /\ awaiting' = awaiting /\ serverUp
      /\ LoginPart /\ PasscodePart /\ SessionPart
      /\ TypeOK /\ Len(toServer) \in Nat /\ Len(toClient) \in Nat
  BY Empty DEF ServerSide, Prompted, Basic
<1>1. ASSUME NEW m \in Messages, Prompts(m), Says(m), serverPc \in LoginPcs, NoCommands'
      PROVE  serverPc' \in LoginPcs => Prompted'
  <2>1. \A i \in 1..Len(toClient') : Prompts(toClient'[i])
    BY <1>0, <1>1, SaysLast DEF LoginPart
  <2>2. Waits' /\ awaiting'
    BY <1>0, <1>1, SaysLast DEF LoginPart, Waits
  <2> QED
    BY <2>1, <2>2, <1>1 DEF LoginPart, PasscodePart, SessionPart, Prompted, LoginPcs
<1>2. CASE Goes("prompt_user", "user") /\ Says("user:") /\ UNCHANGED <<toServer, lost>>
  <2>1. NoCommands' /\ serverPc \in LoginPcs /\ serverPc' \in LoginPcs
    BY <1>0, <1>2 DEF Goes, LoginPcs, LoginPart, NoCommands
  <2>2. "user:" \in Messages /\ Prompts("user:")
    BY DEF Messages, Prompts
  <2> QED
    BY <1>1, <1>2, <2>1, <2>2
<1>3. CASE EndStep
  <2>1. /\ toClient' = <<>> /\ toServer' = <<>> /\ clientPc' = "gone"
        /\ \/ serverPc \in LoginPcs /\ serverPc' = "prompt_user"
           \/ serverPc' \in {"session", "ended"}
    BY <1>0, <1>3 DEF EndStep, Basic, Closed, Goes, LoginPcs
  <2>2. Len(toClient') = 0 /\ Len(toServer') = 0
    BY <2>1
  <2>3. serverPc' = "prompt_user" => awaiting'
    BY <1>0, <2>1 DEF LoginPart
  <2>4. LoginPart'
    BY <2>1, <2>2, <2>3 DEF LoginPart, NoCommands, LoginPcs
  <2>5. PasscodePart'
    BY <2>1 DEF PasscodePart
  <2>6. SessionPart'
    BY <2>1, <2>2 DEF SessionPart
  <2> QED
    BY <2>4, <2>5, <2>6 DEF Prompted
<1>4. ASSUME NEW k \in 1..Len(toServer), LineStep(k)
      PROVE  Prompted'
  <2>0. toServer # <<>>
    BY <1>0
  <2>1. CASE Takes(k, FALSE) /\ Goes("user", "password") /\ Says("password:")
    <3>1. NoCommands' /\ serverPc \in LoginPcs /\ serverPc' \in LoginPcs
      BY <1>0, <2>1, TakesPlain DEF Goes, LoginPcs, LoginPart
    <3>2. "password:" \in Messages /\ Prompts("password:")
      BY DEF Messages, Prompts
    <3> QED
      BY <1>1, <2>1, <3>1, <3>2
  <2>2. CASE Takes(k, FALSE) /\ Goes("user", "prompt_user") /\ (Says("User exists!") \/ Silent)
    <3>1. NoCommands' /\ serverPc \in LoginPcs /\ serverPc' = "prompt_user"
      BY <1>0, <2>2, TakesPlain DEF Goes, LoginPcs, LoginPart
    <3>2. "User exists!" \in Messages /\ Prompts("User exists!")
      BY DEF Messages, Prompts
    <3>3. CASE Says("User exists!")
      BY <1>1, <3>1, <3>2, <3>3 DEF LoginPcs
    <3>4. CASE Silent
      BY <1>0, <3>1, <3>4
      DEF Silent, Prompted, LoginPart, PasscodePart, SessionPart, LoginPcs
    <3> QED
      BY <2>2, <3>3, <3>4
  <2>3. CASE Takes(k, FALSE) /\ Goes("password", "session") /\ Says("Welcome!")
    <3>1. NoCommands' /\ awaiting' /\ serverPc' = "session"
      BY <1>0, <2>3, TakesPlain DEF Goes, LoginPcs, LoginPart
    <3>2. \A i \in 1..Len(toClient) : Prompts(toClient[i])
      BY <1>0, <2>3 DEF Goes, LoginPcs, LoginPart
    <3>3. "Welcome!" \in Messages
      BY DEF Messages
    <3>4. \A i \in 1..Len(toClient') :
             IF i = Len(toClient') THEN toClient'[i] \in {"Welcome!", "MSG:"}
             ELSE Prompts(toClient'[i])
      BY <2>3, <3>2, <3>3, SaysLast
    <3> QED
      BY <3>1, <3>4 DEF Prompted, LoginPart, PasscodePart, SessionPart, NoCommands, LoginPcs
  <2>4. CASE Takes(k, FALSE) /\ Goes("password", "prompt_user") /\ Says("Please try again!")
    <3>1. NoCommands' /\ serverPc \in LoginPcs /\ serverPc' \in LoginPcs
      BY <1>0, <2>4, TakesPlain DEF Goes, LoginPcs, LoginPart
    <3>2. "Please try again!" \in Messages /\ Prompts("Please try again!")
      BY DEF Messages, Prompts
    <3> QED
      BY <1>1, <2>4, <3>1, <3>2
  <2>5. CASE Takes(k, FALSE) /\ Goes("passcode", "session") /\ Says("MSG:")
    <3>1. NoCommands' /\ awaiting' /\ serverPc' = "session" /\ toClient = <<>>
      BY <1>0, <2>0, <2>5, TakesPlain DEF Goes, PasscodePart
    <3>2. "MSG:" \in Messages /\ Len(toClient) = 0
      BY <3>1 DEF Messages
    <3>3. \A i \in 1..Len(toClient') : i = Len(toClient') /\ toClient'[i] = "MSG:"
      BY <2>5, <3>2, SaysLast
    <3> QED
      BY <3>1, <3>3 DEF Prompted, LoginPart, PasscodePart, SessionPart, NoCommands, LoginPcs
  <2>6. CASE Takes(k, TRUE) /\ Goes("session", "session") /\ toServer[1] \in Commands
                /\ Says("MSG:")
    <3>1. toServer' = <<>> /\ awaiting' /\ toClient = <<>> /\ serverPc' = "session"
      BY <1>0, <2>6, CommandAlone DEF Goes
    <3>2. "MSG:" \in Messages /\ Len(toClient) = 0 /\ Len(toServer') = 0
      BY <3>1 DEF Messages
    <3>3. \A i \in 1..Len(toClient') : i = Len(toClient') /\ toClient'[i] = "MSG:"
      BY <2>6, <3>2, SaysLast
    <3> QED
      BY <3>1, <3>2, <3>3 DEF Prompted, LoginPart, PasscodePart, SessionPart, LoginPcs
  <2>7. CASE /\ Takes(k, TRUE) /\ Silent
             /\ Goes("session", "session") \/ Goes("session", "ended")
    <3>1. serverPc = "session" /\ serverPc' \in {"session", "ended"} /\ toClient' = toClient
      BY <2>7 DEF Goes, Silent
    <3>2. \A i \in 1..Len(toServer') :
             /\ i + k \in 1..Len(toServer) /\ toServer'[i] = toServer[i + k]
             /\ i + k = Len(toServer) => i = Len(toServer')
      BY <1>0, <2>7 DEF Takes
    <3>3. SessionPart'
      BY <1>0, <3>1, <3>2 DEF SessionPart
    <3> QED
      BY <3>1, <3>3 DEF Prompted, LoginPart, PasscodePart, LoginPcs
  <2>8. CASE Takes(k, TRUE) /\ Goes("session", "passcode") /\ Says("Passcode please:")
                /\ toServer[1] \in Commands
    <3>1. toServer' = <<>> /\ awaiting' /\ toClient = <<>> /\ clientPc' # "ask"
          /\ serverPc' = "passcode"
      BY <1>0, <2>8, CommandAlone DEF Goes
    <3>2. "Passcode please:" \in Messages /\ Len(toServer') = 0 /\ Len(toClient) = 0
      BY <3>1 DEF Messages
    <3>3. /\ \A i \in 1..Len(toClient') : i = Len(toClient') /\ toClient'[i] = "Passcode please:"
          /\ toClient' # <<>> \/ clientPc' = "gone"
          /\ Len(toClient') <= 1
      <4>1. Says("Passcode please:")
        BY <2>8
      <4>2. /\ \A i \in 1..Len(toClient') :
                   \/ i = Len(toClient') /\ toClient'[i] = "Passcode please:"
                   \/ i # Len(toClient') /\ i \in 1..Len(toClient) /\ toClient'[i] = toClient[i]
            /\ toClient' # <<>> \/ clientPc = "gone"
            /\ toClient = <<>> => Len(toClient') <= 1
        BY <3>2, <4>1, SaysLast
      <4>3. \A i \in 1..Len(toClient) : FALSE
        BY <3>1
      <4>4. Len(toClient') <= 1 /\ (toClient' # <<>> \/ clientPc' = "gone")
        BY <1>0, <3>1, <4>2
      <4> QED
        BY <4>2, <4>3, <4>4
    <3>4. toClient' # <<>> => toClient'[1] = "Passcode please:"
      <4>1. toClient' # <<>> => 1 \in 1..Len(toClient')
        BY Empty, EmptySeq DEF Basic, TypeOK
      <4> QED
        BY <3>3, <4>1
    <3>5. NoCommands'
      <4>1. \A i \in 1..Len(toServer') : FALSE
        BY <3>1
      <4> QED
        BY <4>1 DEF NoCommands
    <3>6. Waits'
      BY <3>3 DEF Waits
    <3>7. PasscodePart'
      BY <3>1, <3>3, <3>4, <3>5, <3>6 DEF PasscodePart
    <3> QED
      BY <3>1, <3>7 DEF Prompted, LoginPart, SessionPart, LoginPcs
  <2> QED
    BY <1>4, <2>1, <2>2, <2>3, <2>4, <2>5, <2>6, <2>7, <2>8 DEF LineStep
<1> QED
  BY <1>2, <1>3, <1>4 DEF ServerSide


\* So do the client's, if no message is cut in two.
LEMMA ReadPrompts ==
    ASSUME Basic, Prompted, NEW k \in 1..Len(toClient), Reads(k), ~split'
    PROVE  Prompted'
<1>0. /\ LoginPart /\ PasscodePart /\ SessionPart
      /\ TypeOK /\ Len(toClient) \in Nat /\ 1 \in 1..Len(toClient) /\ toClient # <<>>
  BY Empty DEF Prompted, Basic
<1>1. /\ Len(toClient') = Len(toClient) - k
      /\ \A i \in 1..Len(toClient') : toClient'[i] = toClient[i + k]
      /\ k = Len(toClient) => toClient' = <<>>
      /\ serverPc' = serverPc /\ toServer' = toServer
  BY DEF Reads
<1>2. \A i \in 1..Len(toClient') :
         i + k \in 1..Len(toClient) /\ (i = Len(toClient') <=> i + k = Len(toClient))
  BY <1>0, <1>1
<1>3. CASE serverPc \in LoginPcs
  <2>1. clientPc' = "ask" /\ awaiting' = awaiting
    <3>1. Prompts(toClient[1])
      BY <1>0, <1>3 DEF LoginPart
    <3> QED
      BY <3>1 DEF Reads, Prompts
  <2>2. \A i \in 1..Len(toClient') : Prompts(toClient'[i])
    BY <1>0, <1>1, <1>2, <1>3 DEF LoginPart
  <2>3. LoginPart'
    BY <1>0, <1>1, <1>3, <2>1, <2>2 DEF LoginPart, NoCommands, Waits
  <2> QED
    BY <1>1, <1>3, <2>3 DEF Prompted, PasscodePart, SessionPart, LoginPcs
<1>4. CASE serverPc = "passcode"
  <2>1. Len(toClient) = 1 /\ toClient[1] = "Passcode please:" /\ toServer = <<>> /\ awaiting
    <3>1. Len(toClient) <= 1
      BY <1>0, <1>4 DEF PasscodePart
    <3>2. Len(toClient) # 0
      BY <1>0
    <3>3. Len(toClient) = 1
      BY <1>0, <3>1, <3>2, NoneOrOne
    <3> QED
      BY <1>0, <1>4, <3>3 DEF PasscodePart
  <2>2. clientPc' = "ask" /\ awaiting' = awaiting
    BY <2>1 DEF Reads
  <2>3. toClient' = <<>> /\ toServer' = <<>>
    <3>1. Len(toClient) = 1
      BY <2>1
    <3>2. k = Len(toClient)
      BY <3>1
    <3> QED
      BY <1>1, <2>1, <3>2
  <2>4. Len(toClient') <= 1 /\ NoCommands'
    <3>1. \A i \in 1..Len(toServer') : FALSE
      BY <2>3
    <3> QED
      BY <2>3, <3>1 DEF NoCommands
  <2>5. awaiting' /\ Waits'
    BY <2>1, <2>2 DEF Waits
  <2>6. PasscodePart'
    BY <2>3, <2>4, <2>5 DEF PasscodePart
  <2> QED
    BY <1>1, <1>4, <2>6 DEF Prompted, LoginPart, SessionPart, LoginPcs
<1>5. CASE serverPc \in {"session", "ended"}
  <2>1. \A i \in 1..Len(toServer) : toServer[i] \notin Commands
    BY <1>0, <1>5 DEF SessionPart
  <2>2. awaiting
    BY <1>0, <1>5 DEF SessionPart
  <2>3. \A i \in 1..Len(toClient') :
           IF i = Len(toClient') THEN toClient'[i] \in {"Welcome!", "MSG:"}
           ELSE Prompts(toClient'[i])
    BY <1>0, <1>1, <1>2, <1>5 DEF SessionPart
  <2>4. ~awaiting' => toClient' = <<>> /\ clientPc' # "ask"
    <3>1. CASE awaiting' = awaiting
      BY <2>2, <3>1
    <3>2. CASE toClient[1] \in {"Welcome!", "MSG:"} /\ clientPc' = "main"
      <4>1. ~Prompts(toClient[1])
        BY <3>2 DEF Prompts
      <4>2. Len(toClient) = 1
        BY <1>0, <1>5, <4>1 DEF SessionPart
      <4> QED
        BY <1>1, <3>2, <4>2
    <3> QED
      BY <3>1, <3>2 DEF Reads
  <2>5. SessionPart'
    BY <1>1, <2>1, <2>3, <2>4 DEF SessionPart
  <2> QED
    BY <1>1, <1>5, <2>5 DEF Prompted, LoginPart, PasscodePart, LoginPcs
<1>6. serverPc \in LoginPcs \cup {"passcode", "session", "ended"}
  BY <1>0 DEF TypeOK, ServerPcs
<1> QED
  BY <1>3, <1>4, <1>5, <1>6

\* And the user's, if she does not type ahead.
LEMMA UserPrompts ==
    ASSUME Basic, Prompted, Types, ~early'
    PROVE  Prompted'
<1>0. /\ LoginPart /\ PasscodePart /\ SessionPart
      /\ TypeOK /\ toServer \in Seq(Lines) /\ Len(toServer) \in Nat
  BY Empty DEF Prompted, Basic, TypeOK
<1>1. ASSUME NEW l \in Lines, Utters(l)
      PROVE  /\ serverPc' = serverPc /\ toClient' = toClient /\ clientPc' # "ask"
             /\ ~ServerGone => toServer' # <<>>
             /\ Len(toServer') >= Len(toServer)
             /\ \A i \in 1..Len(toServer') :
                   \/ i \in 1..Len(toServer) /\ toServer'[i] = toServer[i]
                   \/ i = Len(toServer') /\ toServer'[i] = l
  <2>1. CASE ~ServerGone /\ toServer' = Append(toServer, l) /\ clientPc' = "main"
    <3>1. /\ Len(toServer') = Len(toServer) + 1
          /\ toServer'[Len(toServer) + 1] = l
          /\ \A i \in 1..Len(toServer) : toServer'[i] = toServer[i]
          /\ toServer' # <<>>
      BY <1>0, <1>1, <2>1, AppendProperties
    <3>2. \A i \in 1..Len(toServer') : i \in 1..Len(toServer) \/ i = Len(toServer')
      BY <1>0, <3>1
    <3> QED
      BY <1>0, <1>1, <2>1, <3>1, <3>2 DEF Utters
  <2>2. CASE ServerGone /\ toServer' = toServer /\ clientPc' \in {"main", "gone"}
    BY <1>0, <1>1, <2>2 DEF Utters
  <2> QED
    BY <1>1, <2>1, <2>2 DEF Utters
<1>2. ASSUME NEW l \in Lines \ Commands, clientPc = "ask", Utters(l), awaiting' = awaiting
      PROVE  Prompted'
  <2>1. /\ serverPc' = serverPc /\ toClient' = toClient /\ clientPc' # "ask"
        /\ serverUp' /\ serverPc # "ended" => toServer' # <<>>
    BY <1>1, <1>2 DEF ServerGone, Utters
  <2>2. NoCommands => NoCommands'
    BY <1>1, <1>2 DEF NoCommands
  <2>3. serverUp' /\ serverPc # "ended" => Waits'
    BY <2>1 DEF Waits
  <2>4. LoginPart'
    BY <1>0, <1>2, <2>1, <2>2, <2>3 DEF LoginPart, LoginPcs
  <2>5. PasscodePart'
    <3>1. serverPc = "passcode" => toClient = <<>>
      BY <1>0, <1>2 DEF PasscodePart
    <3> QED
      BY <1>0, <1>2, <2>1, <2>2, <2>3, <3>1 DEF PasscodePart
  <2>6. SessionPart'
    <3>1. serverPc \in {"session", "ended"} => NoCommands /\ awaiting
      BY <1>0, <1>2 DEF SessionPart, NoCommands
    <3>2. serverPc \in {"session", "ended"} => NoCommands' /\ awaiting'
      BY <1>2, <2>2, <3>1
    <3> QED
      BY <1>0, <2>1, <3>2 DEF SessionPart, NoCommands
  <2> QED
    BY <2>4, <2>5, <2>6 DEF Prompted
<1>3. ASSUME NEW l \in Commands, Utters(l), awaiting' = TRUE, ~awaiting
      PROVE  Prompted'
  <2>0. l \in Lines
    BY DEF Lines
  <2>1. serverPc' = serverPc /\ toClient' = toClient /\ clientPc' # "ask"
    BY <1>1, <1>3, <2>0
  <2>2. serverPc \in {"session", "ended"}
    BY <1>0, <1>3 DEF LoginPart, PasscodePart, TypeOK, ServerPcs
  <2>3. toClient = <<>> /\ \A i \in 1..Len(toServer) : toServer[i] \notin Commands
    BY <1>0, <1>3, <2>2 DEF SessionPart
  <2>4. \A i \in 1..Len(toServer') : toServer'[i] \in Commands => i = Len(toServer')
    BY <1>1, <1>3, <2>0, <2>3
  <2>5. \A i \in 1..Len(toClient') : FALSE
    BY <2>1, <2>3
  <2>6. SessionPart'
    BY <1>3, <2>1, <2>3, <2>4, <2>5 DEF SessionPart
  <2> QED
    BY <2>1, <2>2, <2>6 DEF Prompted, LoginPart, PasscodePart, LoginPcs
<1>4. CASE /\ clientPc' = "command" /\ awaiting' = awaiting /\ ~awaiting
           /\ UNCHANGED <<serverUp, serverPc, elsewhere, prompt, toClient, toServer, conn,
                          careful, doubled, split, lost>>
  <2>1. serverPc \in {"session", "ended"}
    BY <1>0, <1>4 DEF LoginPart, PasscodePart, TypeOK, ServerPcs
  <2>2. SessionPart'
    BY <1>0, <1>4 DEF SessionPart
  <2> QED
    BY <1>4, <2>1, <2>2 DEF Prompted, LoginPart, PasscodePart, LoginPcs
<1>5. early' = (early \/ awaiting) => ~awaiting
  OBVIOUS
<1> QED
  BY <1>2, <1>3, <1>4, <1>5 DEF Types

\* The rest takes nothing away but what the client that leaves has not read.
LEMMA OthersPrompts ==
    ASSUME Basic, Prompted, Closes \/ Aside
    PROVE  Prompted'
<1>0. LoginPart /\ PasscodePart /\ SessionPart
  BY DEF Prompted
<1>1. CASE Closes
  <2>1. /\ toClient' = <<>> /\ clientPc' = "gone" /\ serverPc' = serverPc
        /\ toServer' = toServer /\ awaiting' = awaiting /\ serverUp' = serverUp
    BY <1>1 DEF Closes
  <2>2. Len(toClient') = 0 /\ \A i \in 1..Len(toClient') : FALSE
    BY <2>1
  <2>3. LoginPart'
    BY <1>0, <2>1, <2>2 DEF LoginPart, NoCommands, Waits
  <2>4. PasscodePart'
    <3>1. serverPc = "passcode" => awaiting /\ NoCommands
      BY <1>0 DEF PasscodePart
    <3>2. Len(toClient') <= 1 /\ Waits'
      BY <2>1, <2>2 DEF Waits
    <3>3. NoCommands => NoCommands'
      BY <2>1 DEF NoCommands
    <3> QED
      BY <2>1, <3>1, <3>2, <3>3 DEF PasscodePart
  <2>5. SessionPart'
    BY <1>0, <2>1, <2>2 DEF SessionPart
  <2> QED
    BY <2>3, <2>4, <2>5 DEF Prompted
<1>2. CASE Aside
  <2>1. /\ serverPc' = serverPc /\ toClient' = toClient /\ toServer' = toServer
        /\ awaiting' = awaiting
        /\ clientPc' = clientPc
           \/ (clientPc' = "spin" /\ (~serverUp' \/ serverPc = "ended"))
        /\ serverUp' = FALSE \/ serverUp' = serverUp
    BY <1>2 DEF Aside, ServerGone
  <2>2. serverUp' /\ serverPc # "ended" => serverUp /\ clientPc' = clientPc
    BY <2>1
  <2>3. clientPc' = "ask" => clientPc = "ask"
    BY <2>1
  <2>4. (Waits => clientPc' # clientPc \/ Waits') /\ (NoCommands => NoCommands')
    BY <2>1 DEF NoCommands, Waits
  <2>5. LoginPart'
    BY <1>0, <2>1, <2>2, <2>4 DEF LoginPart, LoginPcs
  <2>6. PasscodePart'
    BY <1>0, <2>1, <2>2, <2>3, <2>4 DEF PasscodePart
  <2>7. SessionPart'
    BY <1>0, <2>1 DEF SessionPart
  <2> QED
    BY <2>5, <2>6, <2>7 DEF Prompted
<1> QED
  BY <1>1, <1>2

\* Every step of a behaviour without typing ahead or cut messages keeps the order.
LEMMA CalmNext == Basic /\ Calm /\ [Next]_vars => Calm'
<1> SUFFICES ASSUME Basic, Calm, [Next]_vars, ~early', ~split'
             PROVE  Prompted'
  BY DEF Calm
<1>1. Basic'
  BY BasicNext
<1>2. ~early /\ ~split
  <2>1. CASE ServerSide \/ Closes \/ Aside
    <3>1. early' = early /\ split' = split
      BY <2>1 DEF ServerSide, Closes, Aside
    <3> QED
      BY <3>1
  <2>2. CASE \E k \in 1..Len(toClient) : Reads(k)
    BY <2>2 DEF Reads
  <2>3. CASE Types
    <3>1. split' = split
      BY <2>3 DEF Types, Utters
    <3>2. early => early'
      BY <2>3 DEF Types
    <3> QED
      BY <3>1, <3>2
  <2> QED
    BY <2>1, <2>2, <2>3, StepCases
<1>3. Prompted
  BY <1>2 DEF Calm
<1> QED
  BY <1>1, <1>3, StepCases, ServerPrompts, ReadPrompts, UserPrompts, OthersPrompts

\* The client asks its user for what the server waits for: no prompt is hidden by
\* what came before it, also if retries were prompted for twice any number of
\* times, unless she has typed ahead or a message was cut in two.
THEOREM PromptsArrive == Spec => []PromptReachesUser
<1>1. Init => Calm
  <2>1. Init => (\A i \in 1..Len(toClient) : FALSE) /\ (\A i \in 1..Len(toServer) : FALSE)
    BY DEF Init
  <2> QED
    BY <2>1 DEF Init, Calm, Prompted, LoginPart, PasscodePart, SessionPart, NoCommands
<1>2. Calm => PromptReachesUser
  BY DEF Calm, Prompted, LoginPart, PasscodePart, Waits, PromptReachesUser, LoginPcs
<1> QED
  BY <1>1, <1>2, BasicInit, BasicNext, CalmNext, PTL DEF Spec
=============================================================================
