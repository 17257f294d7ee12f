---------------------------- MODULE LoginProofs ----------------------------
(***************************************************************************)
(* Proofs about Login, for every value of its constants: its types, and    *)
(* that the daemon and the helper keep in step (RepliesMatch), that no     *)
(* session starts behind the daemon's back (SessionAfterSlot), that no     *)
(* Login succeeds on an earlier one's account (SuccessIsGenuine), that     *)
(* nothing is left open (NothingLeftOpen) and that no Login fails after it *)
(* has succeeded (NoFailureAfterSuccess).                                  *)
(***************************************************************************)
EXTENDS Login, SequenceTheorems, TLAPS

USE LoginAssumption DEF LoginAssumption, Logins

-----------------------------------------------------------------------------
\* What the two sides send is well typed.
LEMMA MessageTypes ==
    /\ <<Hello>> \in Seq(Message) /\ <<Error>> \in Seq(Message)
    /\ \A n \in PromptCounts : <<Request(n)>> \in Seq(Message)
    /\ \A b \in BOOLEAN : /\ <<Authenticated(b)>> \in Seq(Message)
                          /\ <<SessionStatus(b)>> \in Seq(Message)
                          /\ <<Error, SessionStatus(b)>> \in Seq(Message)
<1>1. /\ Hello \in Message /\ Error \in Message
      /\ \A n \in PromptCounts : Request(n) \in Message
      /\ \A b \in BOOLEAN : /\ Authenticated(b) \in Message
                            /\ SessionStatus(b) \in Message
  BY DEF Message, Hello, Error, Request, Authenticated, SessionStatus
<1>2. QED
  BY <1>1

\* An update outside the domain of a function changes nothing.
LEMMA ExceptOutside ==
    ASSUME NEW D, NEW R, NEW f \in [D -> R], NEW x, x \notin D, NEW e
    PROVE  [f EXCEPT ![x] = e] = f
  OBVIOUS

\* Sending keeps the channels well typed.
LEMMA SendType ==
    ASSUME ChannelType, NEW s \in Seq(Message), Send(s), down' = down
    PROVE  ChannelType'
<1>1. CASE attempt \notin Logins
  <2>1. up' = up
    BY <1>1, ExceptOutside DEF ChannelType, Send
  <2>2. QED
    BY <2>1 DEF ChannelType
<1>2. CASE attempt \in Logins
  <2>1. up[attempt] \o s \in Seq(Message)
    BY <1>2, ConcatProperties DEF ChannelType
  <2>2. QED
    BY <2>1 DEF Send, ChannelType
<1>3. QED
  BY <1>1, <1>2

\* So does taking a message, of a connection that has one.
LEMMA TailType ==
    ASSUME ChannelType, NEW a \in Logins, up[a] # <<>>,
           up' = [up EXCEPT ![a] = Tail(@)]
    PROVE  up' \in [Logins -> Seq(Message)]
  BY HeadTailProperties, SMT DEF ChannelType

\* And so does taking a reply.
LEMMA TakeReplyType ==
    ASSUME ChannelType, TakeReply, up' = up
    PROVE  ChannelType'
<1>1. CASE attempt \notin Logins
  <2>1. down' = down
    BY <1>1, ExceptOutside DEF ChannelType, TakeReply
  <2>2. QED
    BY <2>1 DEF ChannelType
<1>2. CASE attempt \in Logins
  BY <1>2, HeadTailProperties, SMT DEF ChannelType, TakeReply
<1>3. QED
  BY <1>1, <1>2

-----------------------------------------------------------------------------
\* Display, Auth and helper as they are made.
LEMMA TypeInit == Init => TypeOK
<1> SUFFICES ASSUME Init PROVE TypeOK
  OBVIOUS
<1>1. FlagType
  BY Zenon DEF Init, FlagType
<1>2. DaemonType
  BY DEF Init, DaemonType
<1>3. HelperType
  BY DEF Init, HelperType, HelperState
<1>4. ChannelType
  BY DEF Init, ChannelType
<1>5. HistoryType
  BY DEF Init, HistoryType
<1>6. QED
  BY <1>1, <1>2, <1>3, <1>4, <1>5 DEF TypeOK

\* A Login message (Display::login), whatever becomes of it.
LEMMA TypeLogin ==
    ASSUME TypeOK, \/ LoginAsSddm \/ LoginIgnored
                   \/ \E r \in BOOLEAN : LoginStarts(r)
    PROVE  TypeOK'
<1> USE DEF NextLogin
<1>1. FlagType'
  BY Zenon DEF TypeOK, FlagType, LoginAsSddm, LoginIgnored, LoginStarts,
               authVars, helperVars
<1>2. DaemonType'
  BY DEF TypeOK, DaemonType, LoginAsSddm, LoginIgnored, LoginStarts, authVars
<1>3. HelperType'
  BY DEF TypeOK, HelperType, DaemonType, HelperState, LoginAsSddm,
         LoginIgnored, LoginStarts, helperVars
<1>4. ChannelType'
  BY DEF TypeOK, ChannelType, LoginAsSddm, LoginIgnored, LoginStarts
<1>5. HistoryType'
  <2>1. CASE LoginAsSddm
    BY <2>1 DEF TypeOK, HistoryType, DaemonType, LoginAsSddm, LoginResult
  <2>2. CASE LoginIgnored
    BY <2>2 DEF TypeOK, HistoryType, DaemonType, LoginIgnored
  <2>3. CASE \E r \in BOOLEAN : LoginStarts(r)
    BY <2>3 DEF TypeOK, HistoryType, DaemonType, LoginStarts
  <2>4. QED
    BY <2>1, <2>2, <2>3
<1>6. QED
  BY <1>1, <1>2, <1>3, <1>4, <1>5 DEF TypeOK

\* A message from the helper (Auth::Private::dataPending).
LEMMA TypeData ==
    ASSUME TypeOK, DataPending
    PROVE  TypeOK'
<1> USE DEF DataPending, ReceiveError, ReceiveRequest, ReceiveAccepted,
            ReceiveDenied, ReceiveSessionStatus
<1>1. PICK m : Receive(m)
  OBVIOUS
<1>2. socket \in Logins
  BY <1>1 DEF Receive, TypeOK, DaemonType
<1>3. up' \in [Logins -> Seq(Message)]
  BY <1>1, <1>2, TailType DEF Receive, TypeOK
<1>4. FlagType'
  <2>1. hasSocket' = FALSE \/ hasSocket' = hasSocket
    BY DEF historyVars
  <2>2. QED
    BY <1>1, <2>1, ZenonT(40) DEF Receive, TypeOK, FlagType, helperVars
<1>5. DaemonType'
  BY <1>1 DEF Receive, TypeOK, DaemonType
<1>6. HelperType'
  BY <1>1 DEF Receive, TypeOK, HelperType, helperVars
<1>7. ChannelType'
  <2>1. \A r \in Reply : Answer(r) => down' \in [Logins -> Seq(Reply)]
    BY <1>2 DEF Answer, TypeOK, ChannelType
  <2>2. down' = down \/ \E r \in Reply : Answer(r)
    BY DEF Reply
  <2>3. QED
    BY <1>3, <2>1, <2>2 DEF TypeOK, ChannelType
<1>8. HistoryType'
  <2>1. ASSUME NEW kind \in {"LoginFailed", "LoginSucceeded"},
               SendResult(kind, socket, hasSocket)
        PROVE  replies' \subseteq LoginResult /\ pending' \subseteq Logins
    <3>1. [kind |-> kind, origin |-> socket, during |-> attempt] \in LoginResult
      BY <1>2 DEF LoginResult, TypeOK, DaemonType
    <3>2. QED
      BY <2>1, <3>1 DEF SendResult, TypeOK, HistoryType
  <2>2. replies' \subseteq LoginResult /\ pending' \subseteq Logins
    BY <2>1 DEF TypeOK, HistoryType, historyVars
  <2>3. QED
    BY <2>2, <1>2 DEF TypeOK, HistoryType, historyVars
<1>9. QED
  BY <1>4, <1>5, <1>6, <1>7, <1>8 DEF TypeOK

\* The other events of the daemon, of the greeter and of the seat.
LEMMA TypeDaemon ==
    ASSUME TypeOK, \/ \E a \in Logins : HandleHello(a)
                   \/ HelperFailsToStart \/ GreeterDisconnects
                   \/ Stop \/ StopTimeout \/ ChildExited \/ SessionEnds
    PROVE  TypeOK'
<1> USE DEF HandleHello, HelperFailsToStart, GreeterDisconnects, Stop,
            StopTimeout, ChildExited, SessionEnds, DisplayStopped
<1>1. FlagType'
  BY ZenonT(40) DEF TypeOK, FlagType, displayVars, authVars, helperVars
<1>2. DaemonType'
  BY DEF TypeOK, DaemonType, displayVars, authVars
<1>3. HelperType'
  BY DEF TypeOK, HelperType, HelperState, helperVars, SigKill
<1>4. ChannelType'
  <2>1. CASE \E a \in Logins : HandleHello(a)
    BY <2>1, TailType DEF TypeOK, ChannelType, NewConnection
  <2>2. CASE ~ \E a \in Logins : HandleHello(a)
    BY <2>2 DEF TypeOK, ChannelType
  <2>3. QED
    BY <2>1, <2>2
<1>5. HistoryType'
  BY DEF TypeOK, HistoryType, historyVars
<1>6. QED
  BY <1>1, <1>2, <1>3, <1>4, <1>5 DEF TypeOK

\* The steps of HelperApp and its end.
LEMMA TypeHelper ==
    ASSUME TypeOK, HelperNext \/ HelperCrashes
    PROVE  TypeOK'
<1> USE DEF HelperNext, HelperCrashes, HelperStep, SetUp, PamError, PamPrompts,
       PamRejects, Deny, PamAccepts, RequestAnswered, AuthenticatedAnswered,
       OpenSessionFails, OpenSession, SessionAnswered, SessionFinished,
       SigtermReceived, SigtermDuringSetUp, KillSession, CloseSession
<1>0. UNCHANGED <<displayVars, authVars, startArg, sigterm, told, reusing,
                  replies, pending>>
  OBVIOUS
<1>1. FlagType'
  <2>1. pamOpen' \in BOOLEAN
    BY Zenon DEF TypeOK, FlagType
  <2>2. QED
    BY <1>0, <2>1, Zenon DEF TypeOK, FlagType, displayVars, authVars
<1>2. DaemonType'
  BY <1>0 DEF TypeOK, DaemonType, displayVars, authVars
<1>3. HelperType'
  <2>1. helper' \in HelperState
    BY DEF TypeOK, HelperType, HelperState, Waiting
  <2>2. rounds' \in 0 .. MaxRounds
    BY DEF TypeOK, HelperType
  <2>3. exitCode' \in Nat
    BY DEF TypeOK, HelperType, HelperSuccess, HelperAuthError, SigTerm, SigKill,
           HelperSessionError, TermCode, SigSegv
  <2>4. QED
    BY <1>0, <2>1, <2>2, <2>3 DEF TypeOK, HelperType
<1>4. ChannelType'
  <2>1. \/ \E s \in Seq(Message) : Send(s) /\ down' = down
        \/ TakeReply /\ up' = up
        \/ up' = up /\ down' = down
    BY MessageTypes
  <2>2. QED
    BY <2>1, SendType, TakeReplyType DEF TypeOK, ChannelType
<1>5. HistoryType'
  <2>1. /\ accepted' \subseteq accepted \union {attempt}
        /\ opened' \subseteq opened \union {attempt}
    OBVIOUS
  <2>2. QED
    BY <1>0, <2>1 DEF TypeOK, HistoryType, DaemonType
<1>6. QED
  BY <1>1, <1>2, <1>3, <1>4, <1>5 DEF TypeOK

\* Every step keeps the types.
LEMMA TypeStep == TypeOK /\ [Next]_vars => TypeOK'
<1> SUFFICES ASSUME TypeOK, [Next]_vars PROVE TypeOK'
  OBVIOUS
<1>1. CASE UNCHANGED vars
  BY <1>1 DEF vars, displayVars, authVars, helperVars, historyVars, TypeOK,
     FlagType, DaemonType, HelperType, ChannelType, HistoryType
<1>2. CASE Next
  BY <1>2, TypeLogin, TypeData, TypeDaemon, TypeHelper
     DEF Next, DaemonNext, EnvironmentNext
<1>3. QED
  BY <1>1, <1>2

\* Every variable keeps its type.
THEOREM TypeCorrect == Spec => []TypeOK
  BY TypeInit, TypeStep, PTL DEF Spec

-----------------------------------------------------------------------------
(***************************************************************************)
(* Sequences of messages.                                                  *)
(***************************************************************************)
LEMMA NoAskConcat ==
    ASSUME NEW q \in Seq(Message), NEW s \in Seq(Message), NoAsk(q), NoAsk(s)
    PROVE  NoAsk(q \o s)
  BY ConcatProperties, LenProperties, SMT DEF NoAsk

\* A question sent after messages without one is the last and only one.
LEMMA EndsInAskConcat ==
    ASSUME NEW q \in Seq(Message), NEW s \in Seq(Message), NEW r,
           NoAsk(q), EndsInAsk(s, r)
    PROVE  EndsInAsk(q \o s, r)
<1>1. /\ Len(s) \in Nat \ {0} /\ Len(q) \in Nat
      /\ Len(q \o s) = Len(q) + Len(s)
  BY ConcatProperties, EmptySeq, LenProperties DEF EndsInAsk
<1>2. q \o s # <<>>
  BY <1>1, ConcatProperties, EmptySeq
<1>3. (q \o s)[Len(q \o s)] = s[Len(s)]
  BY <1>1, ConcatProperties, SMT
<1>4. \A i \in 1 .. Len(q \o s) - 1 : ~Asks((q \o s)[i])
  <2> SUFFICES ASSUME NEW i \in 1 .. Len(q \o s) - 1
               PROVE  ~Asks((q \o s)[i])
    OBVIOUS
  <2>1. (q \o s)[i] = IF i <= Len(q) THEN q[i] ELSE s[i - Len(q)]
    BY <1>1, ConcatProperties, SMT
  <2>2. CASE i <= Len(q)
    BY <1>1, <2>1, <2>2 DEF NoAsk
  <2>3. CASE ~(i <= Len(q))
    BY <1>1, <2>1, <2>3 DEF EndsInAsk
  <2>4. QED
    BY <2>2, <2>3
<1>5. QED
  BY <1>2, <1>3, <1>4 DEF EndsInAsk

\* Taking a message from a channel without questions.
LEMMA NoAskTail ==
    ASSUME NEW q \in Seq(Message), q # <<>>, NoAsk(q)
    PROVE  NoAsk(Tail(q)) /\ ~Asks(Head(q))
<1>1. Len(q) \in Nat \ {0} /\ Head(q) = q[1]
  BY EmptySeq
<1>2. QED
  BY <1>1, HeadTailProperties, SMT DEF NoAsk

\* Taking a message from a channel that ends in its only question: it is this one
\* or leaves it there.
LEMMA EndsInAskHead ==
    ASSUME NEW q \in Seq(Message), NEW r, EndsInAsk(q, r)
    PROVE  /\ q # <<>>
           /\ IF Asks(Head(q)) THEN Head(q).type = r /\ NoAsk(Tail(q))
                               ELSE EndsInAsk(Tail(q), r)
<1>1. q # <<>> /\ Len(q) \in Nat \ {0} /\ Head(q) = q[1]
  BY EmptySeq DEF EndsInAsk
<1>2. /\ Tail(q) \in Seq(Message) /\ Len(Tail(q)) = Len(q) - 1
      /\ \A i \in 1 .. Len(Tail(q)) : Tail(q)[i] = q[i + 1]
  BY <1>1, HeadTailProperties
<1>3. CASE Len(q) = 1
  <2>1. Asks(Head(q)) /\ Head(q).type = r
    BY <1>1, <1>3 DEF EndsInAsk
  <2>2. Len(Tail(q)) = 0
    BY <1>2, <1>3
  <2>3. NoAsk(Tail(q))
    BY <2>2 DEF NoAsk
  <2>4. QED
    BY <1>1, <2>1, <2>3
<1>4. CASE Len(q) > 1
  <2>1. ~Asks(Head(q))
    BY <1>1, <1>4 DEF EndsInAsk
  <2>2. Tail(q) # <<>> /\ Tail(q)[Len(Tail(q))] = q[Len(q)]
    BY <1>1, <1>2, <1>4, EmptySeq, SMT
  <2>3. \A i \in 1 .. Len(Tail(q)) - 1 : ~Asks(Tail(q)[i])
    BY <1>1, <1>2, <1>4 DEF EndsInAsk
  <2>4. QED
    BY <1>1, <2>1, <2>2, <2>3 DEF EndsInAsk
<1>5. Len(q) = 1 \/ Len(q) > 1
  <2>1. \A n \in Nat \ {0} : n = 1 \/ n > 1
    OBVIOUS
  <2>2. QED
    BY <1>1, <2>1, Zenon
<1>6. QED
  BY <1>3, <1>4, <1>5

\* Which messages ask, and for what.
LEMMA AskingMessages ==
    /\ NoAsk(<<Hello>>) /\ NoAsk(<<Error>>) /\ NoAsk(<<Authenticated(FALSE)>>)
    /\ ~Asks(Hello) /\ ~Asks(Error) /\ ~Asks(Authenticated(FALSE))
    /\ \A n \in PromptCounts : EndsInAsk(<<Request(n)>>, "REQUEST")
    /\ EndsInAsk(<<Authenticated(TRUE)>>, "AUTHENTICATED")
    /\ \A b \in BOOLEAN : /\ EndsInAsk(<<SessionStatus(b)>>, "SESSION_STATUS")
                          /\ EndsInAsk(<<Error, SessionStatus(b)>>, "SESSION_STATUS")
<1> USE DEF Asks, Hello, Error, Request, Authenticated, SessionStatus
<1>1. NoAsk(<<Hello>>) /\ NoAsk(<<Error>>) /\ NoAsk(<<Authenticated(FALSE)>>)
  BY DEF NoAsk
<1>2. ~Asks(Hello) /\ ~Asks(Error) /\ ~Asks(Authenticated(FALSE))
  OBVIOUS
<1>3. \A n \in PromptCounts : EndsInAsk(<<Request(n)>>, "REQUEST")
  BY DEF EndsInAsk
<1>4. EndsInAsk(<<Authenticated(TRUE)>>, "AUTHENTICATED")
  BY DEF EndsInAsk
<1>5. ASSUME NEW b \in BOOLEAN
      PROVE  EndsInAsk(<<SessionStatus(b)>>, "SESSION_STATUS")
  BY DEF EndsInAsk
<1>6. ASSUME NEW b \in BOOLEAN
      PROVE  EndsInAsk(<<Error, SessionStatus(b)>>, "SESSION_STATUS")
  BY DEF EndsInAsk
<1>7. QED
  BY <1>1, <1>2, <1>3, <1>4, <1>5, <1>6

-----------------------------------------------------------------------------
(***************************************************************************)
(* The steps that do not touch the channels keep the invariant.            *)
(***************************************************************************)
LEMMA InvInit == Init => LoginInv
<1> SUFFICES ASSUME Init PROVE LoginInv
  OBVIOUS
<1>1. AttemptInv
  BY DEF Init, AttemptInv
<1>2. OverInv
  BY DEF Init, OverInv, NoAsk
<1>3. ExchangeInv
  BY DEF Init, ExchangeInv
<1>4. AcceptedInv
  BY DEF Init, AcceptedInv
<1>5. SessionAfterSlot /\ SuccessIsGenuine
  BY DEF Init, SessionAfterSlot, SuccessIsGenuine
<1>6. QED
  BY <1>1, <1>2, <1>3, <1>4, <1>5 DEF LoginInv

\* A Login that starts no helper.
LEMMA InvLoginOnly ==
    ASSUME TypeOK, LoginInv, LoginAsSddm \/ LoginIgnored
    PROVE  LoginInv'
<1> USE DEF LoginAsSddm, LoginIgnored, NextLogin, authVars, helperVars
<1>1. AttemptInv'
  BY DEF LoginInv, AttemptInv, TypeOK, DaemonType
<1>2. OverInv'
  BY DEF LoginInv, OverInv, Over
<1>3. ExchangeInv'
  BY DEF LoginInv, ExchangeInv
<1>4. AcceptedInv'
  BY DEF LoginInv, AcceptedInv
<1>5. SessionAfterSlot' /\ SuccessIsGenuine'
  BY DEF LoginInv, SessionAfterSlot, SuccessIsGenuine
<1>6. QED
  BY <1>1, <1>2, <1>3, <1>4, <1>5 DEF LoginInv

\* A Login that does: the new attempt has unused channels.
LEMMA InvLoginStarts ==
    ASSUME TypeOK, LoginInv, NEW r \in BOOLEAN, LoginStarts(r)
    PROVE  LoginInv'
<1> USE DEF LoginStarts, NextLogin, EventLoop
<1>1. /\ attempt < attempt' /\ attempt' \in Logins /\ helper = "none"
      /\ up[attempt'] = <<>> /\ down[attempt'] = <<>>
  BY DEF LoginInv, AttemptInv, TypeOK, DaemonType
<1>2. AttemptInv'
  BY <1>1 DEF LoginInv, AttemptInv, TypeOK, DaemonType
<1>3. OverInv'
  <2> SUFFICES ASSUME NEW a \in Logins, a < attempt' PROVE NoAsk(up[a])
    BY DEF OverInv, Over
  <2>1. CASE a <= attempt
    BY <1>1, <2>1 DEF LoginInv, OverInv, Over, TypeOK, DaemonType
  <2>2. CASE a > attempt
    BY <2>2 DEF LoginInv, AttemptInv, NoAsk
  <2>3. QED
    BY <2>1, <2>2 DEF TypeOK, DaemonType
<1>4. ExchangeInv'
  BY <1>1 DEF ExchangeInv, NoAsk, Waiting
<1>5. AcceptedInv'
  BY DEF LoginInv, AcceptedInv
<1>6. SessionAfterSlot' /\ SuccessIsGenuine'
  BY DEF LoginInv, SessionAfterSlot, SuccessIsGenuine
<1>7. QED
  BY <1>2, <1>3, <1>4, <1>5, <1>6 DEF LoginInv

\* The helper ends, or something stops the display: no helper is left that
\* could wait, and one that ends with HELPER_AUTH_ERROR was not waiting.
LEMMA InvControl ==
    ASSUME TypeOK, LoginInv,
           \/ HelperFailsToStart \/ GreeterDisconnects \/ Stop \/ StopTimeout
           \/ ChildExited \/ SessionEnds \/ HelperCrashes
    PROVE  LoginInv'
<1> USE DEF HelperFailsToStart, GreeterDisconnects, Stop, StopTimeout,
            ChildExited, SessionEnds, HelperCrashes, HelperStep, DisplayStopped,
            EventLoop
<1>1. AttemptInv'
  BY DEF LoginInv, AttemptInv, displayVars, authVars, helperVars
<1>2. OverInv'
  <2>1. CASE helper' = "exited" /\ helper # "exited"
    <3>1. exitCode' # HelperAuthError /\ UNCHANGED <<attempt, up>>
      BY <2>1 DEF HelperAuthError, SigKill, SigSegv, displayVars, authVars, helperVars
    <3>2. started' => started
      BY <2>1 DEF displayVars, helperVars
    <3>3. QED
      BY <2>1, <3>1, <3>2 DEF LoginInv, OverInv, Over
  <2>2. CASE helper = "setUp" /\ helper' = "none"
    BY <2>2 DEF LoginInv, OverInv, Over, ExchangeInv, Waiting, displayVars,
                authVars, helperVars
  <2>3. CASE helper = "exited" /\ helper' = "none"
    BY <2>3 DEF LoginInv, OverInv, Over, displayVars, authVars, helperVars
  <2>4. CASE helper' = helper
    BY <2>4 DEF LoginInv, OverInv, Over, displayVars, authVars, helperVars
  <2>5. QED
    BY <2>1, <2>2, <2>3, <2>4 DEF displayVars, authVars, helperVars
<1>3. ExchangeInv'
  BY DEF LoginInv, ExchangeInv, displayVars, authVars, helperVars
<1>4. AcceptedInv'
  BY DEF LoginInv, AcceptedInv, displayVars, authVars, helperVars, historyVars
<1>5. SessionAfterSlot' /\ SuccessIsGenuine'
  BY DEF LoginInv, SessionAfterSlot, SuccessIsGenuine, historyVars
<1>6. QED
  BY <1>1, <1>2, <1>3, <1>4, <1>5 DEF LoginInv

-----------------------------------------------------------------------------
(***************************************************************************)
(* The daemon takes a message.                                             *)
(***************************************************************************)
\* Taking a message that does not ask, and answering nothing, disturbs no
\* exchange, and the messages left are messages that were there.
LEMMA TakeMessage ==
    ASSUME TypeOK, LoginInv, NEW a \in Logins, up[a] # <<>>, ~Asks(Head(up[a])),
           up' = [up EXCEPT ![a] = Tail(@)],
           UNCHANGED <<down, helper, attempt, exitCode, started>>
    PROVE  OverInv' /\ ExchangeInv'
<1>1. up[a] \in Seq(Message) /\ up'[a] = Tail(up[a])
      /\ \A b \in Logins : b # a => up'[b] = up[b]
  BY DEF TypeOK, ChannelType
<1>2. OverInv'
  <2> SUFFICES ASSUME started, NEW b \in Logins, Over(b) PROVE NoAsk(up'[b])
    BY DEF OverInv, Over
  <2>1. NoAsk(up[b])
    BY DEF LoginInv, OverInv
  <2>2. QED
    BY <1>1, <2>1, NoAskTail
<1>3. ExchangeInv'
  <2> SUFFICES ASSUME helper \notin {"none", "exited"} PROVE ExchangeInv'
    BY DEF ExchangeInv
  <2>1. CASE attempt # a
    <3>1. attempt \in Logins
      BY DEF LoginInv, AttemptInv, TypeOK, DaemonType
    <3>2. QED
      BY <1>1, <2>1, <3>1 DEF LoginInv, ExchangeInv
  <2>2. CASE attempt = a /\ NoAsk(up[a])
    <3>1. NoAsk(up'[a])
      BY <1>1, <2>2, NoAskTail
    <3>2. ~EndsInAsk(up[a], Awaited(helper))
      BY <1>1, <2>2, LenProperties, EmptySeq DEF NoAsk, EndsInAsk
    <3>3. QED
      BY <2>2, <3>1, <3>2 DEF LoginInv, ExchangeInv
  <2>3. CASE attempt = a /\ EndsInAsk(up[a], Awaited(helper)) /\ ~NoAsk(up[a])
    <3>1. EndsInAsk(up'[a], Awaited(helper))
      BY <1>1, <2>3, EndsInAskHead
    <3>2. QED
      BY <2>3, <3>1 DEF LoginInv, ExchangeInv
  <2>4. QED
    BY <2>1, <2>2, <2>3 DEF LoginInv, ExchangeInv
<1>4. QED
  BY <1>2, <1>3

\* A message that asks is the last of the running attempt: no other attempt
\* has one, so its answer reaches the helper that waits for it.
LEMMA AskIsCurrent ==
    ASSUME TypeOK, LoginInv, NEW m, Receive(m), Asks(m)
    PROVE  /\ socket = attempt /\ attempt \in Logins
           /\ ~Over(attempt)
           /\ helper # "exited" =>
                 /\ helper \in Waiting /\ m.type = Awaited(helper)
                 /\ NoAsk(Tail(up[attempt])) /\ down[attempt] = <<>>
<1>1. /\ socket \in Logins /\ socket <= attempt /\ started
      /\ up[socket] \in Seq(Message) /\ up[socket] # <<>> /\ Head(up[socket]) = m
  BY DEF Receive, EventLoop, TypeOK, DaemonType, ChannelType, LoginInv, AttemptInv
<1>2. ~NoAsk(up[socket])
  BY <1>1, NoAskTail
<1>3. ~Over(socket)
  BY <1>1, <1>2 DEF LoginInv, OverInv
<1>4. socket = attempt /\ helper # "none"
  BY <1>1, <1>3 DEF Over, TypeOK, DaemonType
<1>5. ASSUME helper # "exited"
      PROVE  EndsInAsk(up[attempt], Awaited(helper)) /\ helper \in Waiting
             /\ down[attempt] = <<>>
  BY <1>2, <1>4, <1>5 DEF LoginInv, ExchangeInv
<1>6. QED
  BY <1>1, <1>3, <1>4, <1>5, EndsInAskHead

\* Answering it ends the question and starts the reply.
LEMMA AnswerMessage ==
    ASSUME TypeOK, LoginInv, NEW m, Receive(m), Asks(m),
           \/ down' = down
           \/ \E r \in Reply : Answer(r) /\ r = m.type
    PROVE  OverInv' /\ ExchangeInv'
<1>1. /\ socket = attempt /\ attempt \in Logins /\ ~Over(attempt)
      /\ helper # "exited" =>
            /\ helper \in Waiting /\ m.type = Awaited(helper)
            /\ NoAsk(Tail(up[attempt])) /\ down[attempt] = <<>>
  BY AskIsCurrent
<1>2. /\ up'[attempt] = Tail(up[attempt])
      /\ \A b \in Logins : b # attempt => up'[b] = up[b]
      /\ UNCHANGED <<helper, attempt, exitCode, started>>
  BY <1>1 DEF Receive, TypeOK, ChannelType, helperVars
<1>3. OverInv'
  BY <1>1, <1>2 DEF LoginInv, OverInv, Over
<1>4. ExchangeInv'
  <2> SUFFICES ASSUME helper \notin {"none", "exited"} PROVE ExchangeInv'
    BY <1>2 DEF ExchangeInv
  <2>1. NoAsk(up'[attempt])
    BY <1>1, <1>2
  <2>2. down'[attempt] \in {<<>>, <<Awaited(helper)>>}
    <3>1. CASE down' = down
      BY <1>1, <3>1
    <3>2. CASE \E r \in Reply : Answer(r) /\ r = m.type
      <4>1. down'[attempt] = Append(<<>>, Awaited(helper))
        BY <1>1, <3>2 DEF Answer, TypeOK, ChannelType
      <4>2. QED
        BY <4>1
    <3>3. QED
      BY <3>1, <3>2
  <2>3. QED
    BY <1>1, <1>2, <2>1, <2>2 DEF ExchangeInv
<1>5. QED
  BY <1>3, <1>4

\* No message appears on a channel when one is taken.
LEMMA TakenWereThere ==
    ASSUME TypeOK, NEW a \in Logins, up[a] # <<>>,
           up' = [up EXCEPT ![a] = Tail(@)],
           NEW b \in Logins, NEW i \in 1 .. Len(up'[b])
    PROVE  \E j \in 1 .. Len(up[b]) : up'[b][i] = up[b][j]
<1>1. CASE b # a
  BY <1>1 DEF TypeOK, ChannelType
<1>2. CASE b = a
  <2>1. up[a] \in Seq(Message) /\ up'[a] = Tail(up[a])
    BY DEF TypeOK, ChannelType
  <2>2. Len(up[a]) \in Nat \ {0} /\ Len(Tail(up[a])) = Len(up[a]) - 1
    BY <2>1, HeadTailProperties, EmptySeq
  <2>3. i \in 1 .. Len(Tail(up[a]))
    BY <1>2, <2>1
  <2>4. Tail(up[a])[i] = up[a][i + 1]
    BY <2>1, <2>3, HeadTailProperties
  <2>5. i + 1 \in 1 .. Len(up[a])
    BY <2>2, <2>3, SMT
  <2>6. QED
    BY <1>2, <2>1, <2>4, <2>5
<1>3. QED
  BY <1>1, <1>2

\* The message at the head of a channel that says the user is accepted, says
\* so of an accepted attempt.
LEMMA HeadAccepted ==
    ASSUME TypeOK, LoginInv, Receive(Authenticated(TRUE))
    PROVE  socket \in accepted
<1>1. socket \in Logins /\ up[socket] \in Seq(Message) /\ up[socket] # <<>>
  BY DEF Receive, TypeOK, DaemonType, ChannelType
<1>2. Len(up[socket]) \in Nat \ {0} /\ Head(up[socket]) = up[socket][1]
  BY <1>1, EmptySeq, HeadTailProperties, LenProperties
<1>3. 1 \in 1 .. Len(up[socket])
  BY <1>2, SMT
<1>4. Head(up[socket]) = Authenticated(TRUE)
  BY DEF Receive
<1>5. QED
  BY <1>1, <1>2, <1>3, <1>4, Zenon DEF LoginInv, AcceptedInv

\* HELLO changes nothing that the invariant speaks of.
LEMMA InvHello ==
    ASSUME TypeOK, LoginInv, NEW a \in Logins, HandleHello(a)
    PROVE  LoginInv'
<1>1. /\ up[a] # <<>> /\ ~Asks(Head(up[a]))
      /\ up' = [up EXCEPT ![a] = Tail(@)]
      /\ UNCHANGED <<down, helper, attempt, exitCode, started, login, active,
                     accepted, told, opened, replies>>
  BY AskingMessages DEF HandleHello, NewConnection, displayVars, helperVars, historyVars
<1>2. AttemptInv'
  <2>1. a <= attempt /\ socket' = a
    BY <1>1 DEF HandleHello, LoginInv, AttemptInv, TypeOK, DaemonType
  <2>2. \A b \in Logins : b > attempt => up'[b] = <<>> /\ down'[b] = <<>>
    BY <1>1, <2>1 DEF LoginInv, AttemptInv, TypeOK, DaemonType, ChannelType
  <2>3. QED
    BY <1>1, <2>1, <2>2 DEF LoginInv, AttemptInv
<1>3. OverInv' /\ ExchangeInv'
  BY <1>1, TakeMessage
<1>4. AcceptedInv'
  <2>1. ASSUME NEW b \in Logins, NEW i \in 1 .. Len(up'[b]),
               up'[b][i] = Authenticated(TRUE)
        PROVE  b \in accepted'
    <3>1. PICK j \in 1 .. Len(up[b]) : up'[b][i] = up[b][j]
      BY <1>1, TakenWereThere
    <3>2. QED
      BY <1>1, <2>1, <3>1, Zenon DEF LoginInv, AcceptedInv
  <2>2. QED
    BY <1>1, <2>1 DEF LoginInv, AcceptedInv
<1>5. SessionAfterSlot' /\ SuccessIsGenuine'
  BY <1>1 DEF LoginInv, SessionAfterSlot, SuccessIsGenuine
<1>6. QED
  BY <1>2, <1>3, <1>4, <1>5 DEF LoginInv

\* What every message taken by dataPending leaves as it is.
LEMMA ReceiveFrame ==
    ASSUME TypeOK, LoginInv, NEW m, Receive(m)
    PROVE  /\ socket \in Logins /\ up[socket] # <<>> /\ Head(up[socket]) = m
           /\ up' = [up EXCEPT ![socket] = Tail(@)]
           /\ UNCHANGED <<helper, attempt, exitCode, started, login, active, socket>>
           /\ \A a \in Logins : a > attempt => up'[a] = <<>>
           /\ accepted' = accepted =>
                \A a \in Logins : \A i \in 1 .. Len(up'[a]) :
                    up'[a][i] = Authenticated(TRUE) => a \in accepted'
<1>1. /\ socket \in Logins /\ up[socket] # <<>> /\ Head(up[socket]) = m
      /\ up' = [up EXCEPT ![socket] = Tail(@)]
      /\ UNCHANGED <<helper, attempt, exitCode, started, login, active, socket>>
  BY DEF Receive, TypeOK, DaemonType, helperVars
<1>2. \A a \in Logins : a > attempt => up'[a] = <<>>
  BY <1>1 DEF TypeOK, DaemonType, ChannelType, LoginInv, AttemptInv
<1>3. ASSUME accepted' = accepted, NEW a \in Logins, NEW i \in 1 .. Len(up'[a]),
             up'[a][i] = Authenticated(TRUE)
      PROVE  a \in accepted'
  <2>1. PICK j \in 1 .. Len(up[a]) : up'[a][i] = up[a][j]
    BY <1>1, TakenWereThere
  <2>2. QED
    BY <1>3, <2>1, Zenon DEF LoginInv, AcceptedInv
<1>4. QED
  BY <1>1, <1>2, <1>3

\* A message that does not ask: an error, or a refusal.
LEMMA InvTellFailure ==
    ASSUME TypeOK, LoginInv, ReceiveError \/ ReceiveDenied
    PROVE  LoginInv'
<1> USE DEF ReceiveError, ReceiveDenied
<1>1. PICK m : Receive(m) /\ ~Asks(m)
  BY AskingMessages
<1>2. /\ socket \in Logins /\ up[socket] # <<>> /\ Head(up[socket]) = m
      /\ up' = [up EXCEPT ![socket] = Tail(@)]
      /\ UNCHANGED <<helper, attempt, exitCode, started, login, active, socket>>
      /\ UNCHANGED <<down, accepted, told, opened>>
  BY <1>1, ReceiveFrame
<1>3. AttemptInv'
  BY <1>1, <1>2, ReceiveFrame DEF LoginInv, AttemptInv
<1>4. OverInv' /\ ExchangeInv'
  BY <1>1, <1>2, TakeMessage
<1>5. AcceptedInv'
  BY <1>1, <1>2, ReceiveFrame DEF LoginInv, AcceptedInv
<1>6. SessionAfterSlot'
  BY <1>2 DEF LoginInv, SessionAfterSlot
<1>7. SuccessIsGenuine'
  <2>1. SendResult("LoginFailed", socket, hasSocket)
    OBVIOUS
  <2>2. \A r \in replies' : r \in replies \/ r.kind = "LoginFailed"
    BY <2>1 DEF SendResult
  <2>3. QED
    BY <1>2, <2>2 DEF LoginInv, SuccessIsGenuine
<1>8. QED
  BY <1>3, <1>4, <1>5, <1>6, <1>7 DEF LoginInv

\* A question about prompts or the session: its answer is not the one to
\* AUTHENTICATED.
LEMMA InvAnswer ==
    ASSUME TypeOK, LoginInv, ReceiveRequest \/ ReceiveSessionStatus
    PROVE  LoginInv'
<1> USE DEF ReceiveRequest, ReceiveSessionStatus
<1>1. PICK m : /\ Receive(m) /\ Asks(m) /\ m.type # "AUTHENTICATED"
               /\ down' = down \/ \E r \in Reply : Answer(r) /\ r = m.type
  <2>1. CASE ReceiveRequest
    <3>1. PICK n \in PromptCounts :
             Receive(Request(n)) /\ (down' = down \/ Answer("REQUEST"))
      BY <2>1
    <3>2. /\ Asks(Request(n)) /\ Request(n).type = "REQUEST"
          /\ "REQUEST" \in Reply
      BY DEF Asks, Request, Reply
    <3>3. QED
      BY <3>1, <3>2
  <2>2. CASE ReceiveSessionStatus
    <3>1. PICK b \in BOOLEAN : Receive(SessionStatus(b)) /\ Answer("SESSION_STATUS")
      BY <2>2
    <3>2. /\ Asks(SessionStatus(b)) /\ SessionStatus(b).type = "SESSION_STATUS"
          /\ "SESSION_STATUS" \in Reply
      BY DEF Asks, SessionStatus, Reply
    <3>3. QED
      BY <3>1, <3>2
  <2>3. QED
    BY <2>1, <2>2
<1>2. /\ UNCHANGED <<helper, attempt, exitCode, started, login, active, socket>>
      /\ UNCHANGED <<accepted, told, opened, replies>>
  BY <1>1, ReceiveFrame DEF historyVars
<1>3. /\ socket = attempt /\ attempt \in Logins
      /\ helper # "exited" => m.type = Awaited(helper)
  BY <1>1, AskIsCurrent
<1>4. \A a \in Logins : a # attempt => down'[a] = down[a]
  BY <1>1, <1>3 DEF Answer, TypeOK, ChannelType
<1>5. AttemptInv'
  <2>1. \A a \in Logins : a > attempt => up'[a] = <<>> /\ down'[a] = <<>>
    BY <1>1, <1>3, <1>4, ReceiveFrame DEF LoginInv, AttemptInv, TypeOK, DaemonType
  <2>2. QED
    BY <1>2, <2>1 DEF LoginInv, AttemptInv
<1>6. OverInv' /\ ExchangeInv'
  BY <1>1, AnswerMessage
<1>7. AcceptedInv'
  <2>1. helper # "askAuthenticated"
    BY <1>1, <1>3 DEF Awaited
  <2>2. QED
    BY <1>1, <1>2, <2>1, ReceiveFrame DEF LoginInv, AcceptedInv
<1>8. SessionAfterSlot' /\ SuccessIsGenuine'
  BY <1>2 DEF LoginInv, SessionAfterSlot, SuccessIsGenuine
<1>9. QED
  BY <1>5, <1>6, <1>7, <1>8 DEF LoginInv

\* The acceptance: it is of the running attempt.
LEMMA InvTellAccepted ==
    ASSUME TypeOK, LoginInv, ReceiveAccepted
    PROVE  LoginInv'
<1> DEFINE m == Authenticated(TRUE)
<1>1. /\ Receive(m) /\ Asks(m) /\ Answer("AUTHENTICATED")
      /\ \E r \in Reply : Answer(r) /\ r = m.type
      /\ UNCHANGED <<accepted, opened>> /\ told' = told \union {socket}
      /\ SendResult("LoginSucceeded", socket, hasSocket)
  BY DEF ReceiveAccepted, Asks, Authenticated, Reply
<1>2. UNCHANGED <<helper, attempt, exitCode, started, login, active, socket>>
  BY <1>1, ReceiveFrame
<1>3. socket = attempt /\ attempt \in Logins
  BY <1>1, AskIsCurrent
<1>4. \A a \in Logins : a # attempt => down'[a] = down[a]
  BY <1>1, <1>3 DEF Answer, TypeOK, ChannelType
<1>5. AttemptInv'
  <2>1. \A a \in Logins : a > attempt => up'[a] = <<>> /\ down'[a] = <<>>
    BY <1>1, <1>3, <1>4, ReceiveFrame DEF LoginInv, AttemptInv, TypeOK, DaemonType
  <2>2. QED
    BY <1>2, <2>1 DEF LoginInv, AttemptInv
<1>6. OverInv' /\ ExchangeInv'
  BY <1>1, AnswerMessage
<1>7. AcceptedInv'
  BY <1>1, <1>2, <1>3, ReceiveFrame DEF LoginInv, AcceptedInv
<1>8. SessionAfterSlot'
  BY <1>1 DEF LoginInv, SessionAfterSlot
<1>9. SuccessIsGenuine'
  <2>1. socket \in accepted
    BY <1>1, HeadAccepted
  <2>2. QED
    BY <1>1, <1>3, <2>1 DEF LoginInv, SuccessIsGenuine, SendResult
<1>10. QED
  BY <1>5, <1>6, <1>7, <1>8, <1>9 DEF LoginInv

-----------------------------------------------------------------------------
(***************************************************************************)
(* The helper's steps.                                                     *)
(***************************************************************************)
\* While a helper runs its attempt is the current one, which is not over.
LEMMA RunningAttempt ==
    ASSUME TypeOK, LoginInv, helper \notin {"none", "exited"}
    PROVE  /\ attempt \in Logins /\ ~Over(attempt)
           /\ up[attempt] \in Seq(Message) /\ down[attempt] \in Seq(Reply)
           /\ helper \notin Waiting => NoAsk(up[attempt]) /\ down[attempt] = <<>>
<1>1. attempt \in Logins
  BY DEF LoginInv, AttemptInv, TypeOK, DaemonType
<1>2. ~Over(attempt)
  BY <1>1 DEF Over
<1>3. QED
  BY <1>1, <1>2 DEF TypeOK, ChannelType, LoginInv, ExchangeInv

\* A helper that is not blocked sends messages; it waits if the last asks.
LEMMA SendKeeps ==
    ASSUME TypeOK, LoginInv, NEW s \in Seq(Message), Send(s), down' = down,
           NEW from, NEW to, HelperStep(from, to),
           from \notin {"none", "exited"}, from \notin Waiting,
           to \notin {"none", "exited"},
           IF to \in Waiting THEN EndsInAsk(s, Awaited(to)) ELSE NoAsk(s)
    PROVE  AttemptInv' /\ OverInv' /\ ExchangeInv'
<1>1. /\ attempt \in Logins /\ ~Over(attempt) /\ up[attempt] \in Seq(Message)
      /\ NoAsk(up[attempt]) /\ down[attempt] = <<>>
  BY RunningAttempt DEF HelperStep
<1>2. /\ helper = from /\ helper' = to
      /\ UNCHANGED <<started, login, active, attempt, socket>>
  BY DEF HelperStep, displayVars, authVars
<1>3. /\ up'[attempt] = up[attempt] \o s
      /\ \A a \in Logins : a # attempt => up'[a] = up[a]
  BY <1>1 DEF Send, TypeOK, ChannelType
<1>4. AttemptInv'
  <2>1. \A a \in Logins : a > attempt => up'[a] = <<>> /\ down'[a] = <<>>
    BY <1>1, <1>3 DEF LoginInv, AttemptInv
  <2>2. active /\ (~started => helper \in {"none", "exited"})
        /\ attempt <= login /\ socket <= attempt
    BY <1>2 DEF LoginInv, AttemptInv
  <2>3. QED
    BY <1>1, <1>2, <2>1, <2>2 DEF AttemptInv
<1>5. OverInv'
  <2>1. \A a \in Logins : Over(a)' => Over(a) /\ a # attempt
    BY <1>1, <1>2 DEF Over
  <2>2. QED
    BY <1>2, <1>3, <2>1 DEF LoginInv, OverInv
<1>6. ExchangeInv'
  <2>1. CASE to \in Waiting
    <3>1. EndsInAsk(up'[attempt], Awaited(to))
      BY <1>1, <1>3, <2>1, EndsInAskConcat
    <3>2. QED
      BY <1>1, <1>2, <2>1, <3>1 DEF ExchangeInv
  <2>2. CASE to \notin Waiting
    <3>1. NoAsk(up'[attempt])
      BY <1>1, <1>3, <2>2, NoAskConcat
    <3>2. QED
      BY <1>1, <1>2, <2>2, <3>1 DEF ExchangeInv
  <2>3. QED
    BY <2>1, <2>2
<1>7. QED
  BY <1>4, <1>5, <1>6

\* What is sent says that the user is accepted only when it is so.
LEMMA SendAccepted ==
    ASSUME TypeOK, LoginInv, NEW s \in Seq(Message), Send(s),
           helper \notin {"none", "exited"}, accepted \subseteq accepted',
           \A i \in 1 .. Len(s) : s[i] = Authenticated(TRUE) => attempt \in accepted',
           NEW a \in Logins, NEW i \in 1 .. Len(up'[a]),
           up'[a][i] = Authenticated(TRUE)
    PROVE  a \in accepted'
<1>1. attempt \in Logins /\ up[attempt] \in Seq(Message)
  BY RunningAttempt
<1>2. CASE a # attempt
  BY <1>1, <1>2 DEF Send, TypeOK, ChannelType, LoginInv, AcceptedInv
<1>3. CASE a = attempt
  <2> DEFINE q == up[attempt]
  <2>1. up'[a] = q \o s
    BY <1>1, <1>3 DEF Send, TypeOK, ChannelType
  <2> q \in Seq(Message)
    BY <1>1
  <2> HIDE DEF q
  <2>a. /\ Len(q) \in Nat /\ Len(s) \in Nat
        /\ Len(q \o s) = Len(q) + Len(s)
        /\ \A k \in 1 .. Len(q) + Len(s) :
              (q \o s)[k] = IF k <= Len(q) THEN q[k] ELSE s[k - Len(q)]
    BY ConcatProperties, LenProperties
  <2>2. /\ Len(q) \in Nat /\ Len(s) \in Nat /\ i \in 1 .. Len(q) + Len(s)
        /\ up'[a][i] = IF i <= Len(q) THEN q[i] ELSE s[i - Len(q)]
    BY <2>1, <2>a
  <2>3. CASE i <= Len(q)
    <3>1. i \in 1 .. Len(q)
      BY <2>2, <2>3
    <3>2. q[i] = Authenticated(TRUE)
      BY <2>2, <2>3, Zenon
    <3>3. QED
      BY <1>1, <1>3, <3>1, <3>2, Zenon DEF LoginInv, AcceptedInv, q
  <2>4. CASE ~(i <= Len(q))
    <3>1. i - Len(q) \in 1 .. Len(s)
      BY <2>2, <2>4
    <3>2. s[i - Len(q)] = Authenticated(TRUE)
      BY <2>2, <2>4, Zenon
    <3>3. QED
      BY <1>3, <3>1, <3>2
  <2>5. QED
    BY <2>3, <2>4
<1>4. QED
  BY <1>2, <1>3

\* A helper that is not blocked sends something else than an acceptance.
LEMMA InvHelperSends ==
    ASSUME TypeOK, LoginInv,
           \/ SetUp \/ PamError \/ PamPrompts \/ PamRejects \/ Deny
           \/ OpenSessionFails \/ OpenSession
    PROVE  LoginInv'
<1> USE DEF SetUp, PamError, PamPrompts, PamRejects, Deny, OpenSessionFails,
            OpenSession
<1>1. PICK from \in {"setUp", "converse", "deny", "openSession"},
           to \in {"converse", "askPrompts", "deny", "closing", "askSession"},
           s \in Seq(Message) :
         /\ HelperStep(from, to) /\ Send(s) /\ down' = down
         /\ IF to \in Waiting THEN EndsInAsk(s, Awaited(to)) ELSE NoAsk(s)
         /\ \A i \in 1 .. Len(s) : s[i] # Authenticated(TRUE)
         /\ to = "askSession" => from = "openSession"
  <2>1. CASE SetUp
    <3>1. \A i \in 1 .. Len(<<Hello>>) : <<Hello>>[i] # Authenticated(TRUE)
      BY DEF Hello, Authenticated
    <3>2. QED
      BY <2>1, <3>1, MessageTypes, AskingMessages DEF Waiting
  <2>2. CASE PamError \/ PamRejects
    <3>1. \A i \in 1 .. Len(<<Error>>) : <<Error>>[i] # Authenticated(TRUE)
      BY DEF Error, Authenticated
    <3>2. QED
      BY <2>2, <3>1, MessageTypes, AskingMessages DEF Waiting
  <2>3. CASE PamPrompts
    <3>1. PICK n \in PromptCounts : Send(<<Request(n)>>)
      BY <2>3
    <3>2. \A i \in 1 .. Len(<<Request(n)>>) : <<Request(n)>>[i] # Authenticated(TRUE)
      BY DEF Request, Authenticated
    <3>3. QED
      BY <2>3, <3>1, <3>2, MessageTypes, AskingMessages DEF Waiting, Awaited
  <2>4. CASE Deny
    <3>1. \A i \in 1 .. Len(<<Authenticated(FALSE)>>) :
             <<Authenticated(FALSE)>>[i] # Authenticated(TRUE)
      BY DEF Authenticated
    <3>2. QED
      BY <2>4, <3>1, MessageTypes, AskingMessages DEF Waiting
  <2>5. CASE OpenSessionFails \/ OpenSession
    <3>1. PICK b \in BOOLEAN : \/ Send(<<SessionStatus(b)>>)
                               \/ Send(<<Error, SessionStatus(b)>>)
      BY <2>5
    <3>2. /\ \A i \in 1 .. Len(<<SessionStatus(b)>>) :
                <<SessionStatus(b)>>[i] # Authenticated(TRUE)
          /\ \A i \in 1 .. Len(<<Error, SessionStatus(b)>>) :
                <<Error, SessionStatus(b)>>[i] # Authenticated(TRUE)
      BY DEF SessionStatus, Error, Authenticated
    <3>3. HelperStep("openSession", "askSession") /\ down' = down
      BY <2>5
    <3>4. "askSession" \in Waiting /\ Awaited("askSession") = "SESSION_STATUS"
      BY DEF Waiting, Awaited
    <3>5. QED
      BY <3>1, <3>2, <3>3, <3>4, MessageTypes, AskingMessages
  <2>6. QED
    BY <2>1, <2>2, <2>3, <2>4, <2>5
<1>2. /\ from \notin {"none", "exited"} /\ from \notin Waiting
      /\ to \notin {"none", "exited"}
      /\ helper = from /\ helper' = to
      /\ UNCHANGED <<attempt, accepted, told, replies>>
  BY <1>1 DEF Waiting, HelperStep, authVars
<1>3. AttemptInv' /\ OverInv' /\ ExchangeInv'
  BY <1>1, <1>2, SendKeeps
<1>4. AcceptedInv'
  <2>1. to = "askSession" => attempt \in accepted /\ attempt \in told
    BY <1>1, <1>2 DEF LoginInv, AcceptedInv
  <2>2. \A a \in Logins : \A i \in 1 .. Len(up'[a]) :
           up'[a][i] = Authenticated(TRUE) => a \in accepted'
    BY <1>1, <1>2, SendAccepted
  <2>3. QED
    BY <1>1, <1>2, <2>1, <2>2 DEF AcceptedInv
<1>5. SessionAfterSlot'
  <2>1. opened' # opened => /\ from = "openSession"
                            /\ opened' = opened \union {attempt}
    BY <1>2 DEF HelperStep
  <2>2. QED
    BY <1>2, <2>1 DEF LoginInv, SessionAfterSlot, AcceptedInv
<1>6. SuccessIsGenuine'
  BY <1>2 DEF LoginInv, SuccessIsGenuine
<1>7. QED
  BY <1>3, <1>4, <1>5, <1>6 DEF LoginInv

\* AUTHENTICATED is asked by a helper that PAM accepted.
LEMMA InvPamAccepts ==
    ASSUME TypeOK, LoginInv, PamAccepts
    PROVE  LoginInv'
<1> DEFINE s == <<Authenticated(TRUE)>>
<1>1. /\ HelperStep("converse", "askAuthenticated") /\ Send(s)
      /\ down' = down /\ opened' = opened
      /\ accepted' = accepted \union {attempt}
      /\ helper = "converse" /\ helper' = "askAuthenticated"
      /\ UNCHANGED <<attempt, told, replies>>
  BY DEF PamAccepts, HelperStep, authVars
<1>2. s \in Seq(Message) /\ EndsInAsk(s, "AUTHENTICATED")
  BY MessageTypes, AskingMessages
<1>3. /\ "askAuthenticated" \in Waiting /\ "converse" \notin Waiting
      /\ Awaited("askAuthenticated") = "AUTHENTICATED"
  BY DEF Waiting, Awaited
<1> HIDE DEF s
<1>4. AttemptInv' /\ OverInv' /\ ExchangeInv'
  BY <1>1, <1>2, <1>3, SendKeeps
<1>5. AcceptedInv'
  <2>1. \A a \in Logins : \A i \in 1 .. Len(up'[a]) :
           up'[a][i] = Authenticated(TRUE) => a \in accepted'
    BY <1>1, <1>2, SendAccepted
  <2>2. down'[attempt] = <<>>
    BY <1>1, <1>3, RunningAttempt
  <2>3. QED
    BY <1>1, <2>1, <2>2 DEF AcceptedInv
<1>6. SessionAfterSlot' /\ SuccessIsGenuine'
  BY <1>1 DEF LoginInv, SessionAfterSlot, SuccessIsGenuine
<1>7. QED
  BY <1>4, <1>5, <1>6 DEF LoginInv

\* A blocked helper takes its reply.
LEMMA InvTakesReply ==
    ASSUME TypeOK, LoginInv,
           RequestAnswered \/ AuthenticatedAnswered \/ SessionAnswered
    PROVE  LoginInv'
<1> USE DEF RequestAnswered, AuthenticatedAnswered, SessionAnswered
<1>1. /\ TakeReply /\ helper \in Waiting
      /\ helper' \notin Waiting /\ helper' \notin {"none", "exited"}
      /\ UNCHANGED <<up, accepted, opened, told, replies>>
      /\ UNCHANGED <<started, login, active, attempt, socket>>
  BY DEF HelperStep, Waiting, displayVars, authVars
<1>2. /\ attempt \in Logins /\ ~Over(attempt) /\ down[attempt] # <<>>
      /\ NoAsk(up[attempt]) /\ down[attempt] = <<Awaited(helper)>>
  <2>1. helper \notin {"none", "exited"}
    BY <1>1 DEF Waiting
  <2>2. QED
    BY <1>1, <2>1, RunningAttempt DEF TakeReply, LoginInv, ExchangeInv
<1>3. /\ down'[attempt] = <<>>
      /\ \A a \in Logins : a # attempt => down'[a] = down[a]
  BY <1>1, <1>2 DEF TakeReply, TypeOK, ChannelType
<1>4. AttemptInv'
  BY <1>1, <1>2, <1>3 DEF LoginInv, AttemptInv, Waiting, TypeOK, DaemonType
<1>5. OverInv'
  BY <1>1, <1>2 DEF LoginInv, OverInv, Over
<1>6. ExchangeInv'
  BY <1>1, <1>2, <1>3 DEF ExchangeInv
<1>7. AcceptedInv'
  <2>1. helper' \in {"openSession", "askSession", "run"} =>
           attempt \in accepted /\ attempt \in told
    BY <1>2 DEF LoginInv, AcceptedInv, HelperStep
  <2>2. QED
    BY <1>1, <2>1 DEF LoginInv, AcceptedInv, Waiting
<1>8. SessionAfterSlot' /\ SuccessIsGenuine'
  BY <1>1 DEF LoginInv, SessionAfterSlot, SuccessIsGenuine
<1>9. QED
  BY <1>4, <1>5, <1>6, <1>7, <1>8 DEF LoginInv

\* A helper that is not blocked comes closer to its end.
LEMMA InvHelperEnds ==
    ASSUME TypeOK, LoginInv,
           \/ SessionFinished \/ SigtermReceived \/ SigtermDuringSetUp
           \/ KillSession \/ CloseSession
    PROVE  LoginInv'
<1> USE DEF SessionFinished, SigtermReceived, SigtermDuringSetUp, KillSession,
            CloseSession
<1>1. /\ helper \notin Waiting /\ helper \notin {"none", "exited"}
      /\ helper' \in {"closing", "exited"}
      /\ UNCHANGED <<up, down, accepted, opened, told, replies>>
      /\ UNCHANGED <<started, login, active, attempt, socket>>
  BY DEF HelperStep, Waiting, displayVars, authVars
<1>2. /\ attempt \in Logins /\ ~Over(attempt)
      /\ NoAsk(up[attempt]) /\ down[attempt] = <<>>
  BY <1>1, RunningAttempt
<1>3. AttemptInv'
  BY <1>1, <1>2 DEF LoginInv, AttemptInv
<1>4. OverInv'
  BY <1>1, <1>2 DEF LoginInv, OverInv, Over
<1>5. ExchangeInv'
  BY <1>1, <1>2 DEF ExchangeInv, Waiting
<1>6. AcceptedInv'
  BY <1>1 DEF LoginInv, AcceptedInv
<1>7. SessionAfterSlot' /\ SuccessIsGenuine'
  BY <1>1 DEF LoginInv, SessionAfterSlot, SuccessIsGenuine
<1>8. QED
  BY <1>3, <1>4, <1>5, <1>6, <1>7 DEF LoginInv

-----------------------------------------------------------------------------
\* Every step keeps the invariant.
LEMMA InvNext ==
    ASSUME TypeOK, LoginInv, Next
    PROVE  LoginInv'
<1>1. CASE DaemonNext
  BY <1>1, InvHello, InvTellFailure, InvAnswer, InvTellAccepted, InvControl
     DEF DaemonNext, DataPending
<1>2. CASE HelperNext
  BY <1>2, InvHelperSends, InvPamAccepts, InvTakesReply, InvHelperEnds
     DEF HelperNext
<1>3. CASE EnvironmentNext
  BY <1>3, InvLoginOnly, InvLoginStarts, InvControl DEF EnvironmentNext
<1>4. QED
  BY <1>1, <1>2, <1>3 DEF Next

\* What changes nothing keeps the invariant.
LEMMA InvStutter == LoginInv /\ UNCHANGED vars => LoginInv'
<1> SUFFICES ASSUME LoginInv, UNCHANGED vars PROVE LoginInv'
  OBVIOUS
<1> USE DEF vars, displayVars, authVars, helperVars, historyVars, LoginInv
<1>1. AttemptInv'
  BY DEF AttemptInv
<1>2. OverInv'
  BY DEF OverInv, Over
<1>3. ExchangeInv'
  BY DEF ExchangeInv
<1>4. AcceptedInv'
  BY DEF AcceptedInv
<1>5. SessionAfterSlot' /\ SuccessIsGenuine'
  BY DEF SessionAfterSlot, SuccessIsGenuine
<1>6. QED
  BY <1>1, <1>2, <1>3, <1>4, <1>5

\* The inductive invariant: attempts follow each other, an attempt that is
\* over asks for nothing, and the one that runs has asked at most once.
THEOREM LoginInvariant == Spec => []LoginInv
<1>1. TypeOK /\ LoginInv /\ [Next]_vars => LoginInv'
  BY InvNext, InvStutter
<1>2. QED
  BY <1>1, InvInit, TypeCorrect, PTL DEF Spec

\* A blocked helper finds the reply it waits for and no other one.
THEOREM RepliesAlwaysMatch == Spec => []RepliesMatch
<1>1. LoginInv => RepliesMatch
  BY DEF LoginInv, ExchangeInv, RepliesMatch
<1>2. QED
  BY <1>1, LoginInvariant, PTL

\* No session starts before PAM has accepted its attempt and the daemon has
\* handled that.
THEOREM SessionAlwaysAfterSlot == Spec => []SessionAfterSlot
<1>1. LoginInv => SessionAfterSlot
  BY DEF LoginInv
<1>2. QED
  BY <1>1, LoginInvariant, PTL

\* The greeter hears of a success only while the accepted attempt runs.
THEOREM SuccessAlwaysGenuine == Spec => []SuccessIsGenuine
<1>1. LoginInv => SuccessIsGenuine
  BY DEF LoginInv
<1>2. QED
  BY <1>1, LoginInvariant, PTL

-----------------------------------------------------------------------------
(***************************************************************************)
(* What is open is closed.                                                 *)
(***************************************************************************)
\* The steps of the helper at which it has opened nothing yet.
Early == {"setUp", "converse", "deny", "askPrompts", "askAuthenticated", "openSession"}

\* What is open is closed by the end, and was opened late.
LeftInv ==
    /\ helper \in Early => ~pamOpen /\ session # "running"
    /\ NothingLeftOpen

\* The steps that leave the helper and its session alone.
LEMMA LeftKept ==
    ASSUME LeftInv, UNCHANGED <<helper, pamOpen, session, exitCode>>
    PROVE  LeftInv'
  BY DEF LeftInv, NothingLeftOpen, Early

\* The steps of the daemon.
LEMMA LeftDaemon ==
    ASSUME TypeOK, LeftInv, DaemonNext
    PROVE  LeftInv'
<1>1. CASE \/ \E a \in Logins : HandleHello(a)
           \/ DataPending
  <2>1. UNCHANGED helperVars
    BY <1>1 DEF HandleHello, DataPending, ReceiveError, ReceiveRequest, ReceiveAccepted,
       ReceiveDenied, ReceiveSessionStatus, Receive
  <2> QED
    BY <2>1, LeftKept DEF helperVars
<1>2. CASE ChildExited \/ HelperFailsToStart
  BY <1>2 DEF ChildExited, HelperFailsToStart, LeftInv, NothingLeftOpen, Early
<1>3. CASE StopTimeout
  BY <1>3 DEF StopTimeout, LeftInv, NothingLeftOpen, Early
<1> QED
  BY <1>1, <1>2, <1>3 DEF DaemonNext

\* The steps of the helper.
LEMMA LeftHelper ==
    ASSUME TypeOK, LeftInv, HelperNext \/ HelperCrashes
    PROVE  LeftInv'
<1> USE DEF HelperStep, LeftInv, NothingLeftOpen, Early
<1>1. CASE SetUp \/ PamError \/ PamPrompts \/ PamRejects \/ Deny \/ PamAccepts
  BY <1>1 DEF SetUp, PamError, PamPrompts, PamRejects, Deny, PamAccepts
<1>2. CASE RequestAnswered \/ AuthenticatedAnswered \/ SessionAnswered
  BY <1>2 DEF RequestAnswered, AuthenticatedAnswered, SessionAnswered
<1>3. CASE OpenSessionFails \/ OpenSession
  BY <1>3 DEF OpenSessionFails, OpenSession
<1>4. CASE SessionFinished \/ SigtermReceived \/ SigtermDuringSetUp
  BY <1>4 DEF SessionFinished, SigtermReceived, SigtermDuringSetUp
<1>5. CASE KillSession \/ CloseSession
  BY <1>5 DEF KillSession, CloseSession
<1>6. CASE HelperCrashes
  BY <1>6 DEF HelperCrashes
<1> QED
  BY <1>1, <1>2, <1>3, <1>4, <1>5, <1>6 DEF HelperNext

\* Everything else.
LEMMA LeftEnvironment ==
    ASSUME TypeOK, LeftInv, EnvironmentNext \/ UNCHANGED vars
    PROVE  LeftInv'
<1>1. CASE \/ LoginAsSddm \/ LoginIgnored \/ GreeterDisconnects \/ Stop
           \/ UNCHANGED vars
  BY <1>1, LeftKept DEF LoginAsSddm, LoginIgnored, GreeterDisconnects, Stop,
     helperVars, vars
<1>2. CASE \E r \in BOOLEAN : LoginStarts(r)
  BY <1>2 DEF LoginStarts, LeftInv, NothingLeftOpen, Early
<1>3. CASE SessionEnds
  BY <1>3 DEF SessionEnds, LeftInv, NothingLeftOpen, Early
<1>4. CASE HelperCrashes
  BY <1>4, LeftHelper
<1> QED
  BY <1>1, <1>2, <1>3, <1>4 DEF EnvironmentNext

\* A helper that was not killed has closed its PAM session at its end and has
\* left no session process behind, wherever it gave up.
THEOREM NothingStaysOpen == Spec => []NothingLeftOpen
<1>1. Init => LeftInv
  BY DEF Init, LeftInv, NothingLeftOpen, Early
<1>2. TypeOK /\ LeftInv /\ [Next]_vars => LeftInv'
  BY LeftDaemon, LeftHelper, LeftEnvironment DEF Next
<1>3. LeftInv => NothingLeftOpen
  BY DEF LeftInv
<1> QED
  BY <1>1, <1>2, <1>3, TypeCorrect, PTL DEF Spec

-----------------------------------------------------------------------------
(***************************************************************************)
(* No failure after a success.                                             *)
(***************************************************************************)
\* While a Login waits for its result it has not had one.
HeardInv ==
    /\ \A q \in replies : q.during <= login
    /\ hasSocket => \A q \in replies : q.kind = "LoginSucceeded" => q.during # login

\* What a step may send: a failure to a Login that waits, or to one of the user
\* sddm.
Fails == \A q \in replies' \ replies :
            q.kind = "LoginFailed" /\ q.origin # 0 => hasSocket /\ login' = login

\* A result for the attempt that runs.
LEMMA ResultSent ==
    ASSUME TypeOK, LoginInv, HeardInv, UNCHANGED login, NEW kind, NEW origin,
           SendResult(kind, origin, hasSocket),
           hasSocket' => hasSocket /\ kind = "LoginFailed"
    PROVE  HeardInv' /\ Fails
<1>1. attempt \in Nat /\ login \in Nat /\ attempt <= login
  BY DEF TypeOK, DaemonType, LoginInv, AttemptInv
<1> DEFINE new == [kind |-> kind, origin |-> origin, during |-> attempt]
<1>2. replies' = replies \/ (hasSocket /\ replies' = replies \union {new})
  BY DEF SendResult
<1>3. new.during <= login /\ new.kind = kind
  BY <1>1
<1> HIDE DEF new
<1>4. HeardInv'
  BY <1>2, <1>3 DEF HeardInv
<1>5. Fails
  BY <1>2 DEF Fails
<1> QED
  BY <1>4, <1>5

\* The next Login.
LEMMA LoginHeard ==
    ASSUME TypeOK, LoginInv, HeardInv,
           LoginAsSddm \/ LoginIgnored \/ \E r \in BOOLEAN : LoginStarts(r)
    PROVE  HeardInv' /\ Fails
<1>1. attempt \in Nat /\ login \in Nat /\ attempt <= login /\ login' = login + 1
  BY DEF TypeOK, DaemonType, LoginInv, AttemptInv, LoginAsSddm, LoginIgnored, LoginStarts,
     NextLogin
<1>2. \A q \in replies : q.during \in Nat
  BY DEF TypeOK, HistoryType, LoginResult
<1>3. \/ replies' = replies
      \/ replies' = replies \union {[kind |-> "LoginFailed", origin |-> 0, during |-> attempt]}
  BY DEF LoginAsSddm, LoginIgnored, LoginStarts
<1>4. \A q \in replies' \ replies : q.kind = "LoginFailed" /\ q.origin = 0 /\ q.during = attempt
  BY <1>3
<1>5. \A q \in replies : q.during < login'
  BY <1>1, <1>2 DEF HeardInv
<1>6. HeardInv'
  BY <1>1, <1>4, <1>5, <1>2 DEF HeardInv
<1>7. Fails
  BY <1>4 DEF Fails
<1> QED
  BY <1>6, <1>7

\* The steps that tell the greeter nothing.
LEMMA SilentHeard ==
    ASSUME HeardInv, UNCHANGED <<replies, login>>, hasSocket' => hasSocket
    PROVE  HeardInv' /\ Fails
  BY DEF HeardInv, Fails

\* Every step keeps it.
LEMMA HeardStep ==
    ASSUME TypeOK, LoginInv, HeardInv, [Next]_vars
    PROVE  HeardInv' /\ Fails
<1>1. CASE UNCHANGED vars
  BY <1>1, SilentHeard DEF vars, displayVars, historyVars
<1>2. CASE ReceiveError \/ ReceiveDenied \/ ReceiveAccepted
  <2>1. UNCHANGED login
    BY <1>2 DEF ReceiveError, ReceiveDenied, ReceiveAccepted, Receive
  <2>2. CASE ReceiveError
    BY <2>1, <2>2, ResultSent DEF ReceiveError
  <2>3. CASE ReceiveDenied
    BY <2>1, <2>3, ResultSent DEF ReceiveDenied
  <2>4. CASE ReceiveAccepted
    BY <2>1, <2>4, ResultSent DEF ReceiveAccepted
  <2> QED
    BY <1>2, <2>2, <2>3, <2>4
<1>3. CASE \/ \E a \in Logins : HandleHello(a)
           \/ ReceiveRequest \/ ReceiveSessionStatus
           \/ HelperFailsToStart \/ StopTimeout \/ ChildExited
  <2>1. UNCHANGED <<replies, login>> /\ (hasSocket' => hasSocket)
    BY <1>3 DEF HandleHello, ReceiveRequest, ReceiveSessionStatus, Receive, displayVars,
       HelperFailsToStart, StopTimeout, ChildExited, historyVars, DisplayStopped
  <2> QED
    BY <2>1, SilentHeard
<1>4. CASE HelperNext \/ HelperCrashes
  <2>1. UNCHANGED <<replies, displayVars>>
    BY <1>4 DEF HelperNext, HelperCrashes, HelperStep, SetUp, PamError, PamPrompts,
       PamRejects, Deny, PamAccepts, RequestAnswered, AuthenticatedAnswered,
       OpenSessionFails, OpenSession, SessionAnswered, SessionFinished,
       SigtermReceived, SigtermDuringSetUp, KillSession, CloseSession
  <2> QED
    BY <2>1, SilentHeard DEF displayVars
<1>5. CASE LoginAsSddm \/ LoginIgnored \/ \E r \in BOOLEAN : LoginStarts(r)
  BY <1>5, LoginHeard
<1>6. CASE GreeterDisconnects \/ Stop \/ SessionEnds
  <2>1. UNCHANGED <<replies, login>> /\ (hasSocket' => hasSocket)
    BY <1>6 DEF GreeterDisconnects, Stop, SessionEnds, displayVars, historyVars,
       DisplayStopped
  <2> QED
    BY <2>1, SilentHeard
<1> QED
  BY <1>1, <1>2, <1>3, <1>4, <1>5, <1>6 DEF Next, DaemonNext, DataPending, EnvironmentNext

\* After a success a failure to open the session is not sent to the greeter as a
\* failed login: m_socket is reset, until the next Login sets it.
THEOREM NoLateFailure == Spec => NoFailureAfterSuccess
<1>1. Init => HeardInv
  BY DEF Init, HeardInv
<1>2. TypeOK /\ LoginInv /\ HeardInv /\ [Next]_vars => HeardInv'
  BY HeardStep
<1>3. ASSUME TypeOK, LoginInv, HeardInv, [Next]_vars
      PROVE  \A r \in replies' \ replies : r.kind = "LoginFailed" /\ r.origin # 0 =>
               ~ \E q \in replies : q.kind = "LoginSucceeded" /\ q.during = login
  BY <1>3, HeardStep DEF HeardInv, Fails
<1> QED
  BY <1>1, <1>2, <1>3, TypeCorrect, LoginInvariant, PTL DEF Spec, NoFailureAfterSuccess
=============================================================================
