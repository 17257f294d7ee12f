------------------------------- MODULE Login -------------------------------
(***************************************************************************)
(* Logging a user in, from the greeter's Login message to the end of the   *)
(* user session: the slots of one Display (daemon/Display.cpp), its Auth   *)
(* object (auth/Auth.cpp, auth/AuthRequest.cpp), the sddm-helper process   *)
(* that Auth runs (helper/HelperApp.cpp and its PAM backend), the PAM      *)
(* stack and the session process.  The daemon is one event loop, so each   *)
(* of its actions is one event and everything its slots do; the helper is  *)
(* a second process; the two talk over a local socket, and the daemon      *)
(* learns of the helper's exit by a notification of its own that is not    *)
(* ordered with the data on that socket.                                   *)
(*                                                                         *)
(* An attempt is a run of the helper and is named by the number of the     *)
(* Login message that started it.  The texts, the environment and the      *)
(* cookie that messages carry are left out, and with them the messages     *)
(* that are only shown to the user.                                        *)
(***************************************************************************)
EXTENDS Naturals, Sequences

CONSTANTS
    MaxLogins,      \* bound on the Login messages of a behaviour
    MaxRounds,      \* bound on the messages of one PAM conversation
    PromptCounts,   \* how many prompts one request of PAM may have
    SessionCodes,   \* the exit codes of user sessions
    ReuseSession    \* configuration: Users.ReuseSession, with logind there

ASSUME LoginAssumption ==
    /\ MaxLogins \in Nat /\ MaxRounds \in Nat
    /\ PromptCounts \subseteq Nat \ {0}
    /\ SessionCodes \subseteq Nat
    /\ ReuseSession \in BOOLEAN

Logins == 1 .. MaxLogins

\* Auth::HelperExitStatus.
HelperSuccess == 0
HelperAuthError == 1
HelperSessionError == 2

\* Fault: the code of exit(-1) is not cut to a byte.
UncutTermCode == 0 - 1

\* exit(-1), the answer to SIGTERM; a process ended by a signal has the
\* number of the signal as its QProcess exit code.
TermCode == 255
SigTerm == 15
SigKill == 9
SigSegv == 11

VARIABLES
    \* Display
    started,        \* m_started
    stopping,       \* Display::stop waits inside Auth::stop
    hasSocket,      \* m_socket: the greeter connection of the last Login
    connected,      \* the greeter is connected to the SocketServer
    reuse,          \* m_reuseSessionId is set
    login,          \* the number of Login messages handled so far
    \* Auth and its AuthRequest
    active,         \* isActive(): the QProcess is not NotRunning
    attempt,        \* the attempt of the last start(), 0 before it
    sessionPath,    \* the Login that set d->sessionPath, 0 while empty
    socket,         \* the attempt whose connection d->socket is, 0 for none
    prompts,        \* the prompts of the AuthRequest not answered yet
    \* the helper process and what it runs
    helper,         \* where HelperApp is
    rounds,         \* messages of its PAM conversation so far
    startArg,       \* its --start argument (a Login number), 0 for none
    sigterm,        \* a SIGTERM waits for its event loop
    pamOpen,        \* PamHandle::m_open
    session,        \* the session process: "none", "running" or "ended"
    exitCode,       \* the code given to exit(), once there is one
    \* the connections between them, one for each attempt
    up,             \* messages for the daemon
    down,           \* replies for the helper
    \* history
    accepted,       \* attempts that PAM has accepted
    told,           \* attempts whose acceptance the daemon has handled
    opened,         \* attempts that have started a session process
    reusing,        \* attempts started to return to an existing session
    replies,        \* login results sent to the greeter
    pending         \* Logins with no result sent since they were handled

displayVars == <<started, stopping, hasSocket, connected, reuse, login>>
authVars == <<active, attempt, sessionPath, socket, prompts>>
helperVars == <<helper, rounds, startArg, sigterm, pamOpen, session, exitCode>>
historyVars == <<accepted, told, opened, reusing, replies, pending>>
vars == <<displayVars, authVars, helperVars, up, down, historyVars>>

-----------------------------------------------------------------------------
\* SDDM::Msg, from the helper to the daemon.
Hello == [type |-> "HELLO"]
Error == [type |-> "ERROR"]           \* of type ERROR_AUTHENTICATION
Request(n) == [type |-> "REQUEST", prompts |-> n]
Authenticated(b) == [type |-> "AUTHENTICATED", ok |-> b]
SessionStatus(b) == [type |-> "SESSION_STATUS", ok |-> b]

Message == [type : {"HELLO", "ERROR"}]
           \union [type : {"REQUEST"}, prompts : PromptCounts]
           \union [type : {"AUTHENTICATED", "SESSION_STATUS"}, ok : BOOLEAN]

Reply == {"REQUEST", "AUTHENTICATED", "SESSION_STATUS"}

\* The messages after which the helper waits for a reply.
Asks(m) == \/ m.type \in {"REQUEST", "SESSION_STATUS"}
           \/ m.type = "AUTHENTICATED" /\ m.ok

\* Where the helper is blocked in SafeDataStream::receive, and the reply
\* it takes there.
Waiting == {"askPrompts", "askAuthenticated", "askSession"}

Awaited(h) == CASE h = "askPrompts" -> "REQUEST"
                [] h = "askAuthenticated" -> "AUTHENTICATED"
                [] h = "askSession" -> "SESSION_STATUS"

HelperState == {"none", "setUp", "converse", "deny", "openSession", "run",
                "closing", "exited"} \union Waiting

LoginResult == [kind : {"LoginFailed", "LoginSucceeded"},
                origin : 0 .. MaxLogins, during : 0 .. MaxLogins]

FlagType ==
    /\ started \in BOOLEAN /\ stopping \in BOOLEAN
    /\ hasSocket \in BOOLEAN /\ connected \in BOOLEAN
    /\ reuse \in BOOLEAN /\ active \in BOOLEAN
    /\ sigterm \in BOOLEAN /\ pamOpen \in BOOLEAN

DaemonType ==
    /\ login \in 0 .. MaxLogins /\ attempt \in 0 .. MaxLogins
    /\ sessionPath \in 0 .. MaxLogins /\ socket \in 0 .. MaxLogins
    /\ prompts \in PromptCounts \union {0}

HelperType ==
    /\ helper \in HelperState
    /\ rounds \in 0 .. MaxRounds
    /\ startArg \in 0 .. MaxLogins
    /\ session \in {"none", "running", "ended"}
    /\ exitCode \in Nat

ChannelType ==
    /\ up \in [Logins -> Seq(Message)]
    /\ down \in [Logins -> Seq(Reply)]

HistoryType ==
    /\ accepted \subseteq 0 .. MaxLogins /\ opened \subseteq 0 .. MaxLogins
    /\ told \subseteq Logins /\ reusing \subseteq Logins
    /\ replies \subseteq LoginResult
    /\ pending \subseteq Logins

TypeOK == FlagType /\ DaemonType /\ HelperType /\ ChannelType /\ HistoryType

\* The greeter of a started display is running, nobody has logged in yet.
Init ==
    /\ started = TRUE /\ stopping = FALSE
    /\ hasSocket = FALSE /\ connected = TRUE
    /\ reuse = FALSE /\ login = 0
    /\ active = FALSE /\ attempt = 0
    /\ sessionPath = 0 /\ socket = 0 /\ prompts = 0
    /\ helper = "none" /\ rounds = 0 /\ startArg = 0
    /\ sigterm = FALSE /\ pamOpen = FALSE
    /\ session = "none" /\ exitCode = 0
    /\ up = [a \in Logins |-> <<>>] /\ down = [a \in Logins |-> <<>>]
    /\ accepted = {} /\ told = {} /\ opened = {} /\ reusing = {}
    /\ replies = {} /\ pending = {}

-----------------------------------------------------------------------------
(***************************************************************************)
(* The daemon.  Its event loop turns while Display::stop is not waiting    *)
(* for the helper.                                                         *)
(***************************************************************************)
EventLoop == started /\ ~stopping

\* Display::loginFailed and loginSucceeded, emitted for a message of attempt
\* origin when m_socket is sock.
SendResult(kind, origin, sock) ==
    IF sock
    THEN /\ replies' = replies \union
              {[kind |-> kind, origin |-> origin, during |-> attempt]}
         /\ pending' = {}
    ELSE UNCHANGED <<replies, pending>>

\* The end of Display::stop: the socket server drops the greeter.
DisplayStopped ==
    /\ started' = FALSE /\ stopping' = FALSE
    /\ connected' = FALSE /\ hasSocket' = FALSE

\* What every Login does first in Display::login: m_socket = socket.
NextLogin ==
    /\ EventLoop /\ connected /\ login < MaxLogins
    /\ login' = login + 1
    /\ hasSocket' = TRUE
    /\ UNCHANGED <<started, stopping, connected, up, down>>

\* Display::login for the user sddm: refused at once.
LoginAsSddm ==
    /\ NextLogin
    /\ replies' = replies \union
         {[kind |-> "LoginFailed", origin |-> 0, during |-> attempt]}
    /\ pending' = {}
    /\ UNCHANGED <<reuse, authVars, helperVars, accepted, told, opened, reusing>>

\* Display::startAuth while the helper of an earlier Login is there, or with
\* a session that has no valid desktop entry, type or command: it returns
\* FALSE, and Display::login ignores what it returns.
LoginIgnored ==
    /\ NextLogin
    /\ pending' = pending \union {login + 1}
    /\ UNCHANGED <<reuse, authVars, helperVars, accepted, told, opened,
                   reusing, replies>>

\* Display::startAuth and Auth::start; r: logind lists a session of this user
\* that can be reused.  Auth::setSession is only called when it does not.
LoginStarts(r) ==
    /\ NextLogin
    /\ ~active
    /\ r => ReuseSession
    /\ reuse' = r
    /\ active' = TRUE /\ attempt' = login + 1
    /\ sessionPath' = IF r THEN sessionPath ELSE login + 1
    /\ startArg' = sessionPath'
    /\ helper' = "setUp" /\ rounds' = 0 /\ sigterm' = FALSE
    /\ pamOpen' = FALSE /\ session' = "none" /\ exitCode' = 0
    /\ reusing' = IF r THEN reusing \union {login + 1} ELSE reusing
    /\ pending' = pending \union {login + 1}
    /\ UNCHANGED <<socket, prompts, accepted, told, opened, replies>>

\* QProcess cannot execute sddm-helper: Auth::Private::childError emits
\* error(ERROR_INTERNAL) and no finished() follows.
HelperFailsToStart ==
    /\ started /\ active /\ helper = "setUp"
    /\ active' = FALSE /\ helper' = "none"
    /\ IF stopping
       THEN DisplayStopped
       ELSE UNCHANGED <<started, stopping, connected, hasSocket>>
    /\ UNCHANGED <<reuse, login, attempt, sessionPath, socket, prompts, rounds,
                   startArg, sigterm, pamOpen, session, exitCode, up, down,
                   historyVars>>

\* A connection that the daemon has not taken yet.
NewConnection(a) == up[a] # <<>> /\ Head(up[a]) = Hello

\* Auth::SocketServer::handleNewConnection: connections are taken in the
\* order they came, every attempt has the same id, so the last one wins.
HandleHello(a) ==
    /\ EventLoop
    /\ NewConnection(a)
    /\ \A b \in 1 .. (a - 1) : ~NewConnection(b)
    /\ up' = [up EXCEPT ![a] = Tail(@)]
    /\ socket' = a
    /\ UNCHANGED <<displayVars, active, attempt, sessionPath, prompts,
                   helperVars, down, historyVars>>

\* Auth::Private::dataPending takes the next message of the connection.
Receive(m) ==
    /\ EventLoop /\ socket # 0
    /\ up[socket] # <<>> /\ Head(up[socket]) = m
    /\ up' = [up EXCEPT ![socket] = Tail(@)]
    /\ UNCHANGED <<started, stopping, connected, reuse, login,
                   active, attempt, sessionPath, socket, helperVars>>

\* The reply to the helper on the same connection.
Answer(r) == down' = [down EXCEPT ![socket] = Append(@, r)]

\* Display::slotAuthError.
ReceiveError ==
    /\ Receive(Error)
    /\ SendResult("LoginFailed", socket, hasSocket)
    /\ UNCHANGED <<hasSocket, prompts, down, accepted, told, opened, reusing>>

\* AuthRequest::setRequest, Display::slotRequestChanged and, when it fills
\* the prompts in, AuthRequest::done and Auth::Private::requestFinished.
ReceiveRequest ==
    \E n \in PromptCounts :
        /\ Receive(Request(n))
        /\ IF n \in {1, 2}
           THEN Answer("REQUEST") /\ prompts' = 0
           ELSE prompts' = n /\ UNCHANGED down
        /\ UNCHANGED <<hasSocket, historyVars>>

\* Fault: m_socket stays set after a successful login.
ReceiveAcceptedKeepsSocket ==
    /\ Receive(Authenticated(TRUE))
    /\ SendResult("LoginSucceeded", socket, hasSocket)
    /\ Answer("AUTHENTICATED")
    /\ told' = told \union {socket}
    /\ UNCHANGED <<hasSocket, prompts, accepted, opened, reusing>>

\* Fault: the greeter hears of failures only.
ReceiveAcceptedSilently ==
    /\ Receive(Authenticated(TRUE))
    /\ hasSocket' = FALSE
    /\ Answer("AUTHENTICATED")
    /\ told' = told \union {socket}
    /\ UNCHANGED <<prompts, accepted, opened, reusing, replies, pending>>

\* AUTHENTICATED with a user name, and Display::slotAuthenticationFinished.
ReceiveAccepted ==
    /\ Receive(Authenticated(TRUE))
    /\ SendResult("LoginSucceeded", socket, hasSocket)
    /\ hasSocket' = FALSE
    /\ Answer("AUTHENTICATED")
    /\ told' = told \union {socket}
    /\ UNCHANGED <<prompts, accepted, opened, reusing>>

\* Fault: a refusal is answered like an acceptance.
ReceiveDeniedAnswers ==
    /\ Receive(Authenticated(FALSE))
    /\ SendResult("LoginFailed", socket, hasSocket)
    /\ hasSocket' = FALSE
    /\ Answer("AUTHENTICATED")
    /\ UNCHANGED <<prompts, accepted, told, opened, reusing>>

\* AUTHENTICATED with an empty name, and Display::slotAuthenticationFinished.
ReceiveDenied ==
    /\ Receive(Authenticated(FALSE))
    /\ SendResult("LoginFailed", socket, hasSocket)
    /\ hasSocket' = FALSE
    /\ UNCHANGED <<prompts, down, accepted, told, opened, reusing>>

\* SESSION_STATUS.
ReceiveSessionStatus ==
    /\ \E b \in BOOLEAN : Receive(SessionStatus(b))
    /\ Answer("SESSION_STATUS")
    /\ UNCHANGED <<hasSocket, prompts, historyVars>>

DataPending ==
    \/ ReceiveError \/ ReceiveRequest \/ ReceiveAccepted
    \/ ReceiveDenied \/ ReceiveSessionStatus

\* The SocketServer loses the greeter, and m_socket (a QPointer) with it.
GreeterDisconnects ==
    /\ EventLoop /\ connected
    /\ connected' = FALSE /\ hasSocket' = FALSE
    /\ UNCHANGED <<started, stopping, reuse, login, authVars, helperVars,
                   up, down, historyVars>>

\* Display::stop for a reason outside this module: the greeter or the display
\* server failed, or the seat is removed.  Auth::stop sends SIGTERM to the
\* helper and waits for its end; the event loop does not turn meanwhile.
Stop ==
    /\ EventLoop
    /\ IF active
       THEN /\ stopping' = TRUE
            /\ sigterm' = TRUE
            /\ UNCHANGED <<started, connected, hasSocket>>
       ELSE DisplayStopped /\ UNCHANGED sigterm
    /\ UNCHANGED <<reuse, login, authVars, helper, rounds, startArg, pamOpen,
                   session, exitCode, up, down, historyVars>>

\* Fault: the helper is only killed when it runs a session.
StopTimeoutInSession ==
    /\ stopping /\ helper \in {"run", "closing"}
    /\ helper' = "exited" /\ exitCode' = SigKill
    /\ DisplayStopped
    /\ UNCHANGED <<reuse, login, authVars, rounds, startArg, sigterm, pamOpen,
                   session, up, down, historyVars>>

\* The five seconds of Auth::stop are over: it kills the helper, and the
\* display has stopped.
StopTimeout ==
    /\ stopping /\ helper \notin {"none", "exited"}
    /\ helper' = "exited" /\ exitCode' = SigKill
    /\ DisplayStopped
    /\ UNCHANGED <<reuse, login, authVars, rounds, startArg, sigterm, pamOpen,
                   session, up, down, historyVars>>

\* Fault: the display is kept whatever the helper's status.
ChildExitedKeeps ==
    /\ active /\ helper = "exited"
    /\ active' = FALSE /\ helper' = "none"
    /\ IF stopping
       THEN DisplayStopped
       ELSE UNCHANGED <<started, stopping, connected, hasSocket>>
    /\ UNCHANGED <<reuse, login, attempt, sessionPath, socket, prompts, rounds,
                   startArg, sigterm, pamOpen, session, exitCode, up, down,
                   historyVars>>

\* Auth::Private::childExited, finished() and Display::slotHelperFinished,
\* from the event loop or from inside Auth::stop.  Every status except
\* HELPER_AUTH_ERROR stops the display.
ChildExited ==
    /\ active /\ helper = "exited"
    /\ active' = FALSE /\ helper' = "none"
    /\ IF stopping \/ (started /\ exitCode # HelperAuthError)
       THEN DisplayStopped
       ELSE UNCHANGED <<started, stopping, connected, hasSocket>>
    /\ UNCHANGED <<reuse, login, attempt, sessionPath, socket, prompts, rounds,
                   startArg, sigterm, pamOpen, session, exitCode, up, down,
                   historyVars>>

-----------------------------------------------------------------------------
(***************************************************************************)
(* The helper.  It runs HelperApp::doAuth from the first to the last line  *)
(* inside one event, so a SIGTERM is only seen before and after it.        *)
(***************************************************************************)
Send(s) == up' = [up EXCEPT ![attempt] = @ \o s]

HelperStep(from, to) ==
    /\ helper = from /\ helper' = to
    /\ UNCHANGED <<displayVars, authVars, startArg, sigterm,
                   told, reusing, replies, pending>>

\* HelperApp::setUp connects, doAuth says hello and PamBackend::start calls
\* pam_start; ok: it succeeds.
SetUp ==
    \E ok \in BOOLEAN :
        /\ HelperStep("setUp", IF ok THEN "converse" ELSE "deny")
        /\ Send(<<Hello>>)
        /\ UNCHANGED <<rounds, pamOpen, session, exitCode, down, accepted, opened>>

\* PamBackend::converse with a message of PAM to show: HelperApp::error.
PamError ==
    /\ rounds < MaxRounds
    /\ HelperStep("converse", "converse")
    /\ Send(<<Error>>)
    /\ rounds' = rounds + 1
    /\ UNCHANGED <<pamOpen, session, exitCode, down, accepted, opened>>

\* PamBackend::converse with prompts: HelperApp::request up to receive().
PamPrompts ==
    /\ rounds < MaxRounds
    /\ HelperStep("converse", "askPrompts")
    /\ \E n \in PromptCounts : Send(<<Request(n)>>)
    /\ rounds' = rounds + 1
    /\ UNCHANGED <<pamOpen, session, exitCode, down, accepted, opened>>

\* pam_authenticate or pam_acct_mgmt fails: PamBackend::authenticate.
PamRejects ==
    /\ HelperStep("converse", "deny")
    /\ Send(<<Error>>)
    /\ UNCHANGED <<rounds, pamOpen, session, exitCode, down, accepted, opened>>

\* HelperApp::doAuth then tells the daemon and exits.
Deny ==
    /\ HelperStep("deny", "closing")
    /\ Send(<<Authenticated(FALSE)>>)
    /\ exitCode' = HelperAuthError
    /\ UNCHANGED <<rounds, pamOpen, session, down, accepted, opened>>

\* Fault: the session is opened without waiting for the daemon.
PamAcceptsWithoutReply ==
    /\ HelperStep("converse", "openSession")
    /\ Send(<<Authenticated(TRUE)>>)
    /\ accepted' = accepted \union {attempt}
    /\ UNCHANGED <<rounds, pamOpen, session, exitCode, down, opened>>

\* Both succeed: HelperApp::authenticated up to receive().
PamAccepts ==
    /\ HelperStep("converse", "askAuthenticated")
    /\ Send(<<Authenticated(TRUE)>>)
    /\ accepted' = accepted \union {attempt}
    /\ UNCHANGED <<rounds, pamOpen, session, exitCode, down, opened>>

\* The end of a receive(): the reply is taken.
TakeReply == /\ down[attempt] # <<>>
             /\ down' = [down EXCEPT ![attempt] = Tail(@)]

\* A reply with another opcode makes an invalid Request, and PAM_CONV_ERR.
RequestAnswered ==
    /\ HelperStep("askPrompts", "converse")
    /\ TakeReply
    /\ UNCHANGED <<rounds, pamOpen, session, exitCode, up, accepted, opened>>

\* doAuth goes on to the session when it was started with --start.
AuthenticatedAnswered ==
    /\ HelperStep("askAuthenticated",
                  IF startArg # 0 THEN "openSession" ELSE "closing")
    /\ TakeReply
    /\ exitCode' = IF startArg # 0 THEN exitCode ELSE HelperSuccess
    /\ UNCHANGED <<rounds, pamOpen, session, up, accepted, opened>>

\* PamBackend::openSession fails, in pam_setcred, in pam_open_session or,
\* with the PAM session open, in UserSession::start.
OpenSessionFails ==
    /\ HelperStep("openSession", "askSession")
    /\ \E credentials, pam \in BOOLEAN :
          /\ pam => credentials
          /\ pamOpen' = pam
          /\ Send(IF credentials THEN <<SessionStatus(FALSE)>>
                                 ELSE <<Error, SessionStatus(FALSE)>>)
    /\ UNCHANGED <<rounds, session, exitCode, down, accepted, opened>>

OpenSession ==
    /\ HelperStep("openSession", "askSession")
    /\ pamOpen' = TRUE
    /\ session' = "running"
    /\ opened' = opened \union {attempt}
    /\ Send(<<SessionStatus(TRUE)>>)
    /\ UNCHANGED <<rounds, exitCode, down, accepted>>

\* The end of HelperApp::sessionOpened, and of doAuth.
SessionAnswered ==
    /\ HelperStep("askSession", IF session = "none" THEN "closing" ELSE "run")
    /\ TakeReply
    /\ exitCode' = IF session = "none" THEN HelperSessionError ELSE exitCode
    /\ UNCHANGED <<rounds, pamOpen, session, up, accepted, opened>>

\* HelperApp::sessionFinished passes the code of the session on.
SessionFinished ==
    /\ session = "ended"
    /\ HelperStep("run", "closing")
    /\ \E c \in SessionCodes : exitCode' = c
    /\ UNCHANGED <<rounds, pamOpen, session, up, down, accepted, opened>>

\* SignalHandler::sigtermReceived, from the event loop.
SigtermReceived ==
    /\ sigterm
    /\ HelperStep("run", "closing")
    /\ exitCode' = TermCode
    /\ UNCHANGED <<rounds, pamOpen, session, up, down, accepted, opened>>

\* The same before doAuth, where the signal may also find no handler yet.
SigtermDuringSetUp ==
    /\ sigterm
    /\ HelperStep("setUp", "exited")
    /\ exitCode' \in {TermCode, SigTerm}
    /\ UNCHANGED <<rounds, pamOpen, session, up, down, accepted, opened>>

\* HelperApp::~HelperApp: UserSession::stop terminates the session process
\* and waits for it, kills it when its time is over, and PamBackend::
\* closeSession follows.
KillSession ==
    /\ session = "running"
    /\ HelperStep("closing", "closing")
    /\ session' = "ended"
    /\ UNCHANGED <<rounds, pamOpen, exitCode, up, down, accepted, opened>>

\* Fault: the PAM session is closed without waiting for the session process.
CloseSessionAtOnce ==
    /\ HelperStep("closing", "exited")
    /\ pamOpen' = FALSE
    /\ UNCHANGED <<rounds, session, exitCode, up, down, accepted, opened>>

CloseSession ==
    /\ session # "running"
    /\ HelperStep("closing", "exited")
    /\ pamOpen' = FALSE
    /\ UNCHANGED <<rounds, session, exitCode, up, down, accepted, opened>>

\* A module of PAM crashes the helper, or the system kills it.
HelperCrashes ==
    /\ helper \notin {"none", "exited"}
    /\ HelperStep(helper, "exited")
    /\ exitCode' \in {SigSegv, SigKill}
    /\ UNCHANGED <<rounds, pamOpen, session, up, down, accepted, opened>>

\* The session process ends by itself or from a signal.
SessionEnds ==
    /\ session = "running"
    /\ session' = "ended"
    /\ UNCHANGED <<displayVars, authVars, helper, rounds, startArg, sigterm,
                   pamOpen, exitCode, up, down, historyVars>>

-----------------------------------------------------------------------------
\* What the daemon does for the messages and exits it is notified of.
DaemonNext ==
    \/ \E a \in Logins : HandleHello(a)
    \/ DataPending
    \/ ChildExited
    \/ HelperFailsToStart
    \/ StopTimeout

\* What the helper does by itself, whatever PAM and the session answer.
HelperNext ==
    \/ SetUp \/ PamError \/ PamPrompts \/ PamRejects \/ Deny \/ PamAccepts
    \/ RequestAnswered \/ AuthenticatedAnswered
    \/ OpenSessionFails \/ OpenSession \/ SessionAnswered
    \/ SessionFinished \/ SigtermReceived \/ SigtermDuringSetUp
    \/ KillSession \/ CloseSession

\* What users, greeters, seats and sessions may do at any time.
EnvironmentNext ==
    \/ LoginAsSddm \/ LoginIgnored
    \/ \E r \in BOOLEAN : LoginStarts(r)
    \/ GreeterDisconnects
    \/ Stop
    \/ HelperCrashes
    \/ SessionEnds

Next == DaemonNext \/ HelperNext \/ EnvironmentNext

Spec == Init /\ [][Next]_vars

\* The daemon's event loop and the helper process are scheduled, PAM modules
\* return, and the timer of Auth::stop expires.  Nothing is assumed of users,
\* of the display server or of sessions.
Fairness == WF_vars(DaemonNext) /\ WF_vars(HelperNext)

FairSpec == Spec /\ Fairness
-----------------------------------------------------------------------------
(***************************************************************************)
(* Safety.                                                                 *)
(***************************************************************************)

\* A blocked helper finds the reply it waits for and no other, and a helper
\* that is not blocked has no reply left over: the two sides of the protocol
\* (SafeDataStream::receive in HelperApp, dataPending in Auth) never lose
\* step, though the daemon answers requests of several attempts and PAM may
\* ask any number of times.
RepliesMatch ==
    helper \notin {"none", "exited"} =>
        down[attempt] \in {<<>>} \union
            (IF helper \in Waiting THEN {<<Awaited(helper)>>} ELSE {})

\* No session process is started before PAM has accepted the user in this
\* very attempt and the daemon has run the slots connected to authentication()
\* (which may still set the environment of the session, as Auth.h promises).
SessionAfterSlot == opened \subseteq accepted \intersect told

\* The greeter hears LoginSucceeded only for an attempt that PAM accepted,
\* and while that attempt is the one that runs: a message left over from an
\* earlier helper never lets a later Login succeed.
SuccessIsGenuine ==
    \A r \in replies : r.kind = "LoginSucceeded" =>
        r.origin \in accepted /\ r.during = r.origin

\* A helper that ends without being killed has closed its PAM session and
\* leaves no session process behind, at whatever step it gave up.
NothingLeftOpen ==
    helper \in {"none", "exited"} /\ exitCode \notin {SigKill, SigSegv} =>
        ~pamOpen /\ session # "running"

\* Once a Login has succeeded, errors of opening its session are not sent to
\* the greeter as a failed login, unless a new Login has come since.
NoFailureAfterSuccess ==
    [][\A r \in replies' \ replies :
          r.kind = "LoginFailed" /\ r.origin # 0 =>
            ~ \E q \in replies : q.kind = "LoginSucceeded" /\ q.during = login
      ]_vars

(***************************************************************************)
(* The inductive invariant behind RepliesMatch, SessionAfterSlot and       *)
(* SuccessIsGenuine.                                                       *)
(***************************************************************************)
NoAsk(q) == \A i \in 1 .. Len(q) : ~Asks(q[i])

\* The last message of q is the only one that asks, and it asks for r.
EndsInAsk(q, r) ==
    /\ q # <<>>
    /\ Asks(q[Len(q)]) /\ q[Len(q)].type = r
    /\ \A i \in 1 .. Len(q) - 1 : ~Asks(q[i])

\* Attempts come one after the other, with a connection each.
AttemptInv ==
    /\ attempt <= login /\ socket <= attempt
    /\ active <=> helper # "none"
    /\ helper # "none" => attempt # 0
    /\ ~started => helper \in {"none", "exited"}
    /\ \A a \in Logins : a > attempt => up[a] = <<>> /\ down[a] = <<>>

\* An attempt that is over asks for nothing, as long as the display is up:
\* only a helper that was not blocked ends with HELPER_AUTH_ERROR.
Over(a) == \/ a < attempt
           \/ a = attempt /\ helper = "none"
           \/ a = attempt /\ helper = "exited" /\ exitCode = HelperAuthError

OverInv == started => \A a \in Logins : Over(a) => NoAsk(up[a])

\* A blocked helper has asked once: the question is on its way, or the daemon
\* has it, or the answer is on its way.
ExchangeInv ==
    helper \notin {"none", "exited"} =>
        \/ /\ helper \in Waiting
           /\ EndsInAsk(up[attempt], Awaited(helper))
           /\ down[attempt] = <<>>
        \/ /\ helper \in Waiting
           /\ NoAsk(up[attempt])
           /\ down[attempt] \in {<<>>, <<Awaited(helper)>>}
        \/ /\ helper \notin Waiting
           /\ NoAsk(up[attempt])
           /\ down[attempt] = <<>>

\* How far the acceptance of the attempt has come.
AcceptedInv ==
    /\ helper = "askAuthenticated" =>
          /\ attempt \in accepted
          /\ down[attempt] # <<>> => attempt \in told
    /\ helper \in {"openSession", "askSession", "run"} =>
          attempt \in accepted /\ attempt \in told
    /\ \A a \in Logins : \A i \in 1 .. Len(up[a]) :
          up[a][i] = Authenticated(TRUE) => a \in accepted

LoginInv == /\ AttemptInv /\ OverInv /\ ExchangeInv /\ AcceptedInv
            /\ SessionAfterSlot /\ SuccessIsGenuine

(***************************************************************************)
(* Liveness, under FairSpec.                                               *)
(***************************************************************************)

\* Display::stop comes to its end although it blocks the event loop that a
\* blocked helper waits for.
StopCompletes == stopping ~> ~started

\* A Login whose helper gets to talk to PAM is followed by a result for the
\* greeter, if the display is not stopped, the greeter stays and PAM asks for
\* no more than two prompts at once.
LoginResolves ==
    \A a \in Logins :
        attempt = a /\ helper = "converse" ~>
            a \notin pending \/ ~started \/ ~connected \/ prompts # 0

(***************************************************************************)
(* What the documentation promises and the code does not keep.             *)
(***************************************************************************)

\* No helper runs and no message of one is on its way to the daemon.
Quiet == ~active /\ \A a \in Logins : up[a] = <<>>

\* docs/THEMING.md, login(): "Either the `loginFailed` or the
\* `loginSucceeded` signal will be emitted".
EveryLoginAnswered == Quiet /\ started /\ connected => pending = {}

\* docs/THEMING.md, loginSucceeded(): "Emitted when a requested login
\* operation succeeds".
SuccessReported ==
    connected => \A a \in told :
        \E r \in replies : r.kind = "LoginSucceeded" /\ r.during = a

\* common/Configuration.h, ReuseSession: "When logging in as the same user
\* twice, restore the original session, rather than create a new one".
ReuseOpensNoSession == reusing \intersect opened = {}

\* daemon/Display.cpp, slotHelperFinished: greeter and display server are not
\* restarted "when an authentication error happens".
KeptOnlyForAuthError ==
    ~active /\ started /\ attempt # 0 => attempt \notin accepted

=============================================================================
