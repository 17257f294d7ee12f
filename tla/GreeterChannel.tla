--------------------------- MODULE GreeterChannel ---------------------------
(***************************************************************************)
(* The channel between the greeter and the daemon: SocketServer.cpp and    *)
(* GreeterProxy.cpp with SocketWriter and Messages.h, the power manager    *)
(* behind it, and the part of GreeterApp.cpp that lives by it (startup,    *)
(* the views, the end).  Login has the rest of a login: its answers come   *)
(* from the environment here.                                              *)
(*                                                                         *)
(* A message is written as its number and then its fields, a field as a    *)
(* number or a text.  A socket delivers any part of what was written; a    *)
(* slot readyRead handles all that has been delivered, and reads fields    *)
(* without asking whether they are there.  A message that was cut has      *)
(* empty fields at its end, and its rest is read as messages of its own.   *)
(* When a text is read where a number is, or a number where a text is, the *)
(* bytes do not fit any more: what is left of the delivery is noise, and   *)
(* taken for unknown messages.                                             *)
(***************************************************************************)
EXTENDS PowerManager

CONSTANTS
    User, Passwords, Host,      \* texts
    SessionFiles,               \* the greeter's sessions: their files with
                                \* their types
    Screens,
    MaxRequests,                \* bound on what the user asks for
    MaxInformation              \* bound on the information messages

\* GreeterMessages and DaemonMessages.
Connect == 0
Login == 1
HostName == 0
CapabilitiesMessage == 1
LoginSucceeded == 2
LoginFailed == 3
InformationMessage == 4
Unknown == 99

\* Session::Type.
UnknownSession == 0
X11Session == 1
WaylandSession == 2

ASSUME ChannelAssumption ==
    /\ SessionFiles \in [DOMAIN SessionFiles -> {X11Session, WaylandSession}]
    /\ "" \notin DOMAIN SessionFiles
    /\ MaxRequests \in Nat /\ MaxInformation \in Nat

VARIABLES
    \* the daemon: SocketServer, and what Display makes of its signals
    server,         \* "up", "stopping" after stop(), "gone"
    daemonBuffer,   \* delivered and not yet read
    handled,        \* the messages it has read
    logins,         \* the Logins that startAuth has gone on with
    pending,        \* how many of them have no answer
    informed,       \* how many information messages there were
    \* the greeter
    greeter,        \* "starting", "running", "ended"
    views,          \* the screens that have a view
    can,            \* canPowerOff and so on
    hostName,
    greeterBuffer,
    heard,          \* the messages it has read
    requests,       \* how much the user has asked for
    succeeded,      \* loginSucceeded has closed a view
    \* the connection
    link,           \* "none", "open", "hungup" by the greeter, "closed"
    toDaemon, toGreeter,    \* on the way
    sent, answers,          \* all that was written, as messages
    cut                     \* a message was read that had not come in whole

daemonVars == <<server, daemonBuffer, handled, logins, pending, informed>>
greeterVars == <<greeter, can, hostName, greeterBuffer, heard, requests,
                 succeeded, views>>
vars == <<acts, daemonVars, greeterVars, link, toDaemon, toGreeter, sent,
          answers, cut>>

-----------------------------------------------------------------------------
\* QDataStream on both ends.

Number(n) == [number |-> n]
Text(t) == [text |-> t]
IsNumber(token) == DOMAIN token = {"number"}

\* The fields that the handler of a message reads, by what they are when they
\* are missing.
LoginFields == <<Text(""), Text(""), Number(UnknownSession), Text("")>>

DaemonFields(m) == IF m = Login THEN LoginFields ELSE <<>>

GreeterFields(m) == CASE m = CapabilitiesMessage -> <<Number(0)>>
                      [] m \in {HostName, InformationMessage} -> <<Text("")>>
                      [] OTHER -> <<>>

\* One turn of the loop in readyRead: the message ...
NextMessage(buffer) ==
    IF IsNumber(Head(buffer)) THEN Head(buffer).number ELSE Unknown

\* ... its fields, what is left in the buffer, and whether anything was missing.
ReadMessage(buffer, blank) ==
    LET there == Tail(buffer)
        fits(i) == i <= Len(there) /\ IsNumber(there[i]) = IsNumber(blank[i])
        misfit == \E i \in 1..Len(blank) : i <= Len(there) /\ ~fits(i)
    IN  [message |-> NextMessage(buffer),
         fields  |-> [i \in 1..Len(blank) |->
                         IF \A j \in 1..i : fits(j) THEN there[i] ELSE blank[i]],
         rest    |-> IF misfit THEN <<>>
                     ELSE SubSeq(there, Len(blank) + 1, Len(there)),
         whole   |-> \A i \in 1..Len(blank) : fits(i)]

\* The message without its stream.
Plain(r) == [message |-> r.message, fields |-> r.fields]
Written(m, fields) == [message |-> m, fields |-> fields]

\* What is on the wire of a message: SocketWriter.
Tokens(w) == <<Number(w.message)>> \o w.fields

\* Capability: a quint32 of flags.
Capability(op) == CASE op = PowerOff -> 1 [] op = Reboot -> 2 [] op = Suspend -> 4
                    [] op = Hibernate -> 8 [] op = HybridSleep -> 16

Flags(ops) ==
    LET flag(op) == IF op \in ops THEN Capability(op) ELSE 0
    IN  flag(PowerOff) + flag(Reboot) + flag(Suspend) + flag(Hibernate) + flag(HybridSleep)
FlagsOf(n) == {op \in Operations : (n \div Capability(op)) % 2 = 1}

\* SocketWriter: a message is written while the other side is there.
Write(wire, w) == IF link = "open" THEN wire \o Tokens(w) ELSE wire
Log(messages, w) == IF link = "open" THEN Append(messages, w) ELSE messages

\* A slot that reads runs to its end before anything else happens in its
\* process; what the other process does meanwhile it cannot see, so that it may
\* as well happen before or after.
Idle == daemonBuffer = <<>> /\ greeterBuffer = <<>>

-----------------------------------------------------------------------------
\* The greeter writes.

Send(w) == toDaemon' = Write(toDaemon, w) /\ sent' = Log(sent, w)

\* Fault: isConnected() is not asked.
StartupUnchecked ==
    /\ Idle
    /\ greeter = "starting"
    /\ link' = IF server = "up" THEN "open" ELSE "none"
    /\ toDaemon' = IF server = "up" THEN Tokens(Written(Connect, <<>>)) ELSE <<>>
    /\ sent' = IF server = "up" THEN <<Written(Connect, <<>>)>> ELSE <<>>
    /\ greeter' = "running"
    /\ views' = Screens
    /\ UNCHANGED <<acts, daemonVars, can, hostName, greeterBuffer, heard,
                   requests, succeeded, toGreeter, answers, cut>>

\* GreeterApp::startup: the proxy connects at once and says Connect, and a view
\* is made for each screen; without a connection the greeter ends.
Startup ==
    /\ Idle
    /\ greeter = "starting"
    /\ IF server = "up"
       THEN /\ link' = "open"
            /\ toDaemon' = Tokens(Written(Connect, <<>>))
            /\ sent' = <<Written(Connect, <<>>)>>
            /\ greeter' = "running"
            /\ views' = Screens
       ELSE /\ greeter' = "ended"
            /\ UNCHANGED <<link, toDaemon, sent, views>>
    /\ UNCHANGED <<acts, daemonVars, can, hostName, greeterBuffer, heard,
                   requests, succeeded, toGreeter, answers, cut>>

\* GreeterProxy::login with the index of a session, or with one that the model
\* has not.
ProxyLogin ==
    /\ Idle
    /\ greeter = "running"
    /\ requests < MaxRequests
    /\ requests' = requests + 1
    /\ \E p \in Passwords, s \in DOMAIN SessionFiles \union {""} :
         Send(Written(Login,
            <<Text(User), Text(p),
              Number(IF s = "" THEN UnknownSession ELSE SessionFiles[s]), Text(s)>>))
    /\ UNCHANGED <<acts, daemonVars, greeter, can, hostName, greeterBuffer,
                   heard, succeeded, views, link, toGreeter, answers, cut>>

\* GreeterProxy::powerOff, reboot, suspend, hibernate, hybridSleep, for what
\* the theme offers.
ProxyPower ==
    /\ Idle
    /\ greeter = "running"
    /\ requests < MaxRequests
    /\ requests' = requests + 1
    /\ \E op \in can : Send(Written(op, <<>>))
    /\ UNCHANGED <<acts, daemonVars, greeter, can, hostName, greeterBuffer,
                   heard, succeeded, views, link, toGreeter, answers, cut>>

-----------------------------------------------------------------------------
\* The socket delivers a part of what is on the way, whenever the event loop of
\* the receiver runs, that is when its slot is not in its loop.

\* Bound: once a message was cut, what there is is delivered in whole.
Deliverable(wire) == IF cut THEN {Len(wire)} \ {0} ELSE 1..Len(wire)

DeliverToDaemon ==
    /\ Idle
    /\ link \in {"open", "hungup"}
    /\ \E n \in Deliverable(toDaemon) :
         /\ daemonBuffer' = SubSeq(toDaemon, 1, n)
         /\ toDaemon' = SubSeq(toDaemon, n + 1, Len(toDaemon))
    /\ UNCHANGED <<acts, server, handled, logins, pending, informed,
                   greeterVars, link, toGreeter, sent, answers, cut>>

DeliverToGreeter ==
    /\ Idle
    /\ greeter = "running"
    /\ \E n \in Deliverable(toGreeter) :
         /\ greeterBuffer' = SubSeq(toGreeter, 1, n)
         /\ toGreeter' = SubSeq(toGreeter, n + 1, Len(toGreeter))
    /\ UNCHANGED <<acts, daemonVars, greeter, can, hostName, heard, requests,
                   succeeded, views, link, toDaemon, sent, answers, cut>>

-----------------------------------------------------------------------------
\* SocketServer::readyRead, one turn of its loop.

\* What a session of the greeter's may be for the daemon.
Usable(f) == f[4].text \in DOMAIN SessionFiles
             /\ f[3].number = SessionFiles[f[4].text]

\* Fault: startAuth takes any session.
StartAuthUnchecked(f) ==
    /\ logins' = Append(logins, f)
    /\ pending' = pending + 1

\* Display::login and startAuth.  It does nothing for a session that is not, or
\* not any more, on the disk, and while the helper of an earlier login is there:
\* as long as there is no answer, and after it.
StartAuth(f) ==
    \/ /\ Usable(f)
       /\ pending = 0
       /\ logins' = Append(logins, f)
       /\ pending' = pending + 1
    \/ UNCHANGED <<logins, pending>>

Answer(w) == toGreeter' = Write(toGreeter, w) /\ answers' = Log(answers, w)

\* The answer to Connect: two messages.
Welcome(allowed) ==
    LET offer == Written(CapabilitiesMessage, <<Number(Flags(Capabilities(allowed)))>>)
        name == Written(HostName, <<Text(Host)>>)
    IN  /\ toGreeter' = Write(Write(toGreeter, offer), name)
        /\ answers' = Log(Log(answers, offer), name)

HandleMessage(m, f) ==
    \/ /\ m = Connect
       /\ \E allowed \in Answers : Welcome(allowed)
       /\ UNCHANGED <<logins, pending, acts>>
    \/ /\ m = Login
       /\ StartAuth(f)
       /\ UNCHANGED <<acts, toGreeter, answers>>
    \/ /\ m \in PowerOff..HybridSleep
       /\ \E allowed \in Answers : Perform(m, allowed)
       /\ UNCHANGED <<logins, pending, toGreeter, answers>>
    \/ /\ m \notin Connect..HybridSleep
       /\ UNCHANGED <<logins, pending, acts, toGreeter, answers>>

\* Fault: readyRead reads one message and no more.
DaemonReadsOne ==
    /\ daemonBuffer # <<>>
    /\ LET r == ReadMessage(daemonBuffer, DaemonFields(NextMessage(daemonBuffer)))
       IN  /\ HandleMessage(r.message, r.fields)
           /\ handled' = Append(handled, Plain(r))
           /\ daemonBuffer' = <<>>
           /\ cut' = (cut \/ ~r.whole)
    /\ UNCHANGED <<server, informed, greeterVars, link,
                   toDaemon, sent>>

DaemonReads ==
    /\ daemonBuffer # <<>>
    /\ LET r == ReadMessage(daemonBuffer, DaemonFields(NextMessage(daemonBuffer)))
       IN  /\ HandleMessage(r.message, r.fields)
           /\ handled' = Append(handled, Plain(r))
           /\ daemonBuffer' = r.rest
           /\ cut' = (cut \/ ~r.whole)
    /\ UNCHANGED <<server, informed, greeterVars, link,
                   toDaemon, sent>>

\* Display::slotAuthenticationFinished, slotAuthInfo and slotAuthError: the
\* answer to a login, and messages before it.
DisplayAnswers ==
    /\ Idle
    /\ server = "up"
    /\ pending > 0
    /\ \/ /\ \E m \in {LoginSucceeded, LoginFailed} : Answer(Written(m, <<>>))
          /\ pending' = pending - 1
          /\ UNCHANGED informed
       \/ /\ informed < MaxInformation
          /\ informed' = informed + 1
          /\ Answer(Written(InformationMessage, <<Text(Host)>>))
          /\ UNCHANGED pending
    /\ UNCHANGED <<acts, server, daemonBuffer, handled, logins,
                   greeterVars, link, toDaemon, sent, cut>>

-----------------------------------------------------------------------------
\* GreeterProxy::readyRead, one turn of its loop.  It goes on to its end also when
\* the application quits meanwhile.

\* loginSucceeded closes every view; with the last one the application quits.
CloseViews ==
    /\ views' = {}
    /\ succeeded' = (succeeded \/ views # {})
    /\ greeter' = IF views # {} THEN "ended" ELSE greeter

\* The handlers of the greeter's messages.
Hear(m, f) ==
    \/ /\ m = CapabilitiesMessage
       /\ can' = FlagsOf(f[1].number)
       /\ UNCHANGED <<hostName, views, succeeded, greeter>>
    \/ /\ m = HostName
       /\ hostName' = f[1].text
       /\ UNCHANGED <<can, views, succeeded, greeter>>
    \/ /\ m = LoginSucceeded
       /\ CloseViews
       /\ UNCHANGED <<can, hostName>>
    \/ /\ m \notin {CapabilitiesMessage, HostName, LoginSucceeded}
       /\ UNCHANGED <<can, hostName, views, succeeded, greeter>>

\* The end of the greeter hangs up.
HangUp(ended) ==
    link' = IF ended /\ link = "open" THEN "hungup" ELSE link

GreeterReads ==
    /\ greeterBuffer # <<>>
    /\ LET r == ReadMessage(greeterBuffer, GreeterFields(NextMessage(greeterBuffer)))
       IN  /\ Hear(r.message, r.fields)
           /\ heard' = Append(heard, Plain(r))
           /\ greeterBuffer' = r.rest
           /\ cut' = (cut \/ ~r.whole)
    /\ HangUp(greeter' = "ended")
    /\ UNCHANGED <<acts, daemonVars, requests, toDaemon, toGreeter, sent, answers>>

\* A screen comes: addViewForScreen; or goes: removeViewForScreen.  The last one
\* leaves the greeter without a view.
ScreenChanges ==
    /\ Idle
    /\ greeter = "running"
    /\ \E s \in Screens :
         views' = IF s \in views THEN views \ {s} ELSE views \union {s}
    /\ UNCHANGED <<acts, daemonVars, greeter, can, hostName, greeterBuffer,
                   heard, requests, succeeded, link, toDaemon, toGreeter, sent,
                   answers, cut>>

-----------------------------------------------------------------------------
\* The ends.

\* SocketServer::stop: the server and its sockets are deleted by the event loop.
Stop ==
    /\ Idle
    /\ server = "up"
    /\ server' = "stopping"
    /\ UNCHANGED <<acts, daemonBuffer, handled, logins, pending, informed,
                   greeterVars, link, toDaemon, toGreeter, sent, answers,
                   cut>>

\* What was not read is lost, and what was written can still be read.
DeleteServer ==
    /\ Idle
    /\ server = "stopping"
    /\ server' = "gone"
    /\ link' = IF link = "none" THEN "none" ELSE "closed"
    /\ toDaemon' = <<>>
    /\ UNCHANGED <<acts, daemonBuffer, handled, logins, pending, informed,
                   greeterVars, toGreeter, sent, answers, cut>>

\* GreeterProxy::disconnected: the greeter quits.
Disconnected ==
    /\ Idle
    /\ greeter = "running"
    /\ link = "closed"
    /\ toGreeter = <<>>
    /\ greeter' = "ended"
    /\ UNCHANGED <<acts, daemonVars, can, hostName, greeterBuffer, heard,
                   requests, succeeded, views, link, toDaemon, toGreeter, sent,
                   answers, cut>>

\* The greeter crashes, or is told to end.
GreeterDies ==
    /\ Idle
    /\ greeter = "running"
    /\ greeter' = "ended"
    /\ HangUp(TRUE)
    /\ UNCHANGED <<acts, daemonVars, can, hostName, greeterBuffer, heard,
                   requests, succeeded, views, toDaemon, toGreeter, sent,
                   answers, cut>>

\* The daemon's socket is disconnected when all was read, and deleted.
SocketDisconnected ==
    /\ Idle
    /\ link = "hungup"
    /\ toDaemon = <<>>
    /\ link' = "closed"
    /\ UNCHANGED <<acts, daemonVars, greeterVars, toDaemon, toGreeter, sent,
                   answers, cut>>

-----------------------------------------------------------------------------
Init ==
    /\ acts = <<>>
    /\ server = "up"
    /\ daemonBuffer = <<>> /\ greeterBuffer = <<>>
    /\ handled = <<>> /\ heard = <<>>
    /\ logins = <<>>
    /\ pending = 0
    /\ informed = 0
    /\ greeter = "starting"
    /\ views = {}
    /\ can = {}
    /\ hostName = ""
    /\ requests = 0
    /\ succeeded = FALSE
    /\ link = "none"
    /\ toDaemon = <<>> /\ toGreeter = <<>>
    /\ sent = <<>> /\ answers = <<>>
    /\ cut = FALSE

Reading == DaemonReads \/ GreeterReads

Daemon == DeliverToDaemon \/ DeleteServer \/ SocketDisconnected

Greeter == Startup \/ DeliverToGreeter \/ Disconnected

Environment ==
    \/ ProxyLogin \/ ProxyPower \/ DisplayAnswers \/ ScreenChanges \/ Stop
    \/ GreeterDies

Next == Reading \/ Daemon \/ Greeter \/ Environment

Spec == Init /\ [][Next]_vars

\* The event loops of both processes run.
FairSpec == Spec /\ WF_vars(Reading) /\ WF_vars(Daemon) /\ WF_vars(Greeter)

-----------------------------------------------------------------------------
(* Properties *)

Token == [number : Nat] \union [text : {"", User, Host} \union Passwords
                                       \union DOMAIN SessionFiles]
Message == [message : Nat, fields : Seq(Token)]

\* The types of the variables.
TypeOK ==
    /\ acts \in Seq([operation : Operations, backend : {"login1", "ck2", "upower"}])
    /\ server \in {"up", "stopping", "gone"}
    /\ {daemonBuffer, greeterBuffer, toDaemon, toGreeter} \subseteq Seq(Token)
    /\ {handled, heard, sent, answers} \subseteq Seq(Message)
    /\ logins \in Seq(Seq(Token))
    /\ pending \in 0..1
    /\ informed \in 0..MaxInformation
    /\ greeter \in {"starting", "running", "ended"}
    /\ views \subseteq Screens
    /\ can \subseteq Operations
    /\ hostName \in {"", Host}
    /\ requests \in 0..MaxRequests
    /\ succeeded \in BOOLEAN /\ cut \in BOOLEAN
    /\ link \in {"none", "open", "hungup", "closed"}

\* Both sides read what the other wrote, in this order and with these fields,
\* however it was delivered, and all of it, however many messages come in one
\* readyRead: unless a message was cut, after which there is no way back to the
\* begin of the next one (SocketServer.cpp:117).
InOrder ==
    ~cut => /\ IsPrefix(handled, sent)
            /\ IsPrefix(heard, answers)
            /\ Idle /\ server = "up" /\ toDaemon = <<>> => handled = sent
            /\ Idle /\ greeter = "running" /\ toGreeter = <<>> => heard = answers

\* A login is tried with a user, a password and a session that belong together:
\* also when a Login was cut.  The session is the last that is read, and with
\* any part of it missing startAuth refuses (Display.cpp:391).
LoginsAreGenuine ==
    \A i \in 1..Len(logins) :
        \E j \in 1..Len(sent) : sent[j] = Written(Login, logins[i])

\* What is done to the machine is done once for each message that asks for it,
\* though several back ends may have it (PowerManager.cpp:237).
ActsOnceAsked ==
    \A op \in Operations :
        Cardinality({i \in 1..Len(acts) : acts[i].operation = op})
          <= Cardinality({i \in 1..Len(handled) : handled[i].message = op})

\* A greeter does not outlive its server (GreeterApp.cpp:248 and 275).
GreeterEnds == server = "gone" ~> greeter = "ended"
=============================================================================
