------------------------------ MODULE Display ------------------------------
(***************************************************************************)
(* The life of a display (daemon/Display.cpp): its display server, its     *)
(* greeter (daemon/Greeter.cpp), which is itself run by a sddm-helper, and *)
(* the helper of its user session.  What the helper of the user and the    *)
(* greeter tell each other is Login's subject; here it only runs and ends. *)
(*                                                                         *)
(* The daemon waits for processes inside its slots (Auth::stop), and the   *)
(* end of the process it waits for is handled there and then: slots nest,  *)
(* Display::stop inside Display::stop.  "stack" holds what the daemon has  *)
(* still to do before it is back in its event loop, first things first.    *)
(***************************************************************************)
EXTENDS Naturals, Sequences, FiniteSets

CONSTANTS
    Displays,       \* numbers for the Display objects alive at the same time
    DefaultTypes,   \* the values General.DisplayServer may have
    Autologin,      \* configuration: Autologin.User is set
    Relogin         \* configuration: Autologin.Relogin

ASSUME DisplayAssumption ==
    /\ Displays \subseteq Nat
    /\ DefaultTypes \subseteq {"x11", "x11-user", "wayland"}
    /\ Autologin \in BOOLEAN /\ Relogin \in BOOLEAN

VARIABLES
    disp,           \* the Display objects
    first,          \* daemonApp->first
    stack           \* calls not finished yet

displayVars == <<disp, first, stack>>

DisplayType == {"none", "x11", "x11-user", "wayland"}

Tries == 0 .. 3

DisplayState ==
    [type : DisplayType,        \* "none": there is no such object
     started : BOOLEAN,         \* m_started
     server : {"off", "on",     \* the display server; "failed": an X server
               "failed"},       \*    that never ran and is not cleaned up
     greeter : {"none",         \* "starting": its helper runs, but
                "starting",     \*    Greeter::m_started is not set yet
                "running"},
     auth : {"none", "auth",    \* m_auth: PAM is asked, or the session runs
             "session"},
     autologin : BOOLEAN,       \* m_auth->autologin()
     timer : BOOLEAN,           \* the five seconds of slotSessionStarted run
     tries : Tries,             \* calls of Seat::startDisplay that failed
     retry : BOOLEAN,           \* its next call is scheduled
     blocked : BOOLEAN,         \* signalsBlocked()
     doomed : BOOLEAN,          \* deleteLater() was called
     unowned : BOOLEAN]         \* history: chown of its socket failed

NoDisplay ==
    [type |-> "none", started |-> FALSE, server |-> "off", greeter |-> "none",
     auth |-> "none", autologin |-> FALSE, timer |-> FALSE, tries |-> 0,
     retry |-> FALSE, blocked |-> FALSE, doomed |-> FALSE,
     unowned |-> FALSE]

NewDisplay(t) == [NoDisplay EXCEPT !.type = t]

\* A call that is still to be made, with the display it is about.
Call(op, d) == [op |-> op, display |-> d]

NextCall(op, d) == stack # <<>> /\ Head(stack) = Call(op, d)
Return == Tail(stack)

-----------------------------------------------------------------------------
(***************************************************************************)
(* Starting.                                                               *)
(***************************************************************************)
\* Greeter::start, which does nothing for a greeter that has started.
StartGreeter(r) == [r EXCEPT !.greeter = IF @ = "running" THEN @ ELSE "starting"]

\* Display::startSocketServerAndGreeter: without the ownership of its socket
\* a greeter is not started, and the display does not count as started.
WithGreeter(r) == {[r EXCEPT !.unowned = TRUE],
                   StartGreeter([r EXCEPT !.started = TRUE])}

\* Display::displayServerStarted, with attemptAutologin and its failure.
ServerStarted(r) ==
    IF Autologin /\ (first \/ Relogin)
    THEN {[r EXCEPT !.started = TRUE, !.auth = "auth", !.autologin = TRUE]}
         \union WithGreeter([r EXCEPT !.started = TRUE])
    ELSE WithGreeter(r)

\* DisplayServer::start.  Only an X server that the daemon runs itself can
\* fail here; when it could not be executed its QProcess stays behind.
ServerFails(r) ==
    IF r.type # "x11" THEN {}
    ELSE {[r EXCEPT !.server = s] :
            s \in IF r.server = "failed" THEN {"failed"} ELSE {"off", "failed"}}

ServerStarts(r) ==
    IF r.server = "failed" THEN {} ELSE ServerStarted([r EXCEPT !.server = "on"])

\* Fault: one try too many.
StartDisplayFourTimes(r) ==
    ServerStarts([r EXCEPT !.tries = 0, !.retry = FALSE])
    \union {[f EXCEPT !.tries = @ + 1, !.retry = f.tries <= 3] :
              f \in ServerFails(r)}

\* Fault: the timer for the next try is not started.
StartDisplayOnce(r) ==
    ServerStarts([r EXCEPT !.tries = 0, !.retry = FALSE])
    \union {[f EXCEPT !.tries = @ + 1, !.retry = FALSE] : f \in ServerFails(r)}

\* Seat::startDisplay: at most three tries, with two seconds between them.
StartDisplay(r) ==
    ServerStarts([r EXCEPT !.tries = 0, !.retry = FALSE])
    \union {[f EXCEPT !.tries = @ + 1, !.retry = f.tries + 1 < 3] :
              f \in ServerFails(r)}

\* The display d is now r, which may have been the first one to start.
Becomes(d, r) ==
    /\ disp' = [disp EXCEPT ![d] = r]
    /\ first' = (first /\ ~r.started)

-----------------------------------------------------------------------------
(***************************************************************************)
(* Display::stop, one action for each thing it does.  A wait ends with the *)
(* end of the process, or after five seconds, when the process is killed   *)
(* and no longer waited for.                                               *)
(***************************************************************************)
StopDisplay(d) ==
    /\ NextCall("stop", d)
    /\ stack' = (IF disp[d].started
                 THEN <<Call("stopGreeter", d), Call("stopAuth", d),
                        Call("stopServer", d), Call("setStopped", d)>>
                 ELSE <<>>) \o Return
    /\ UNCHANGED <<disp, first>>

\* What Greeter::onHelperFinished calls for the exit status of the helper,
\* by the state and type of display that the status can come from.
GreeterEnd(r) ==
    {<<>>} \union
    (IF r.greeter = "starting" \/ r.type = "wayland"
     THEN {<<"stop">>} ELSE {}) \union
    (IF r.greeter = "running" /\ r.type # "x11"
     THEN {<<"ttyFailed">>} ELSE {}) \union
    (IF r.greeter = "running" /\ r.type = "wayland"
     THEN {<<"displayServerFailed">>} ELSE {})

\* Greeter::onHelperFinished, before the calls in rest.
GreeterFinished(d, rest) ==
    \E end \in GreeterEnd(disp[d]) :
        /\ disp' = [disp EXCEPT ![d].greeter = "none"]
        /\ stack' = [i \in 1 .. Len(end) |-> Call(end[i], d)] \o rest
        /\ UNCHANGED first

\* Display::slotHelperFinished, before the calls in rest.
HelperFinished(d, rest) ==
    \E authError \in BOOLEAN :
        /\ disp' = [disp EXCEPT ![d].auth = "none"]
        /\ stack' = (IF authError THEN <<>> ELSE <<Call("stop", d)>>) \o rest
        /\ UNCHANGED first

\* Greeter::stop.
StopGreeter(d) ==
    /\ NextCall("stopGreeter", d)
    /\ disp[d].greeter # "running"
    /\ stack' = Return
    /\ UNCHANGED <<disp, first>>

GreeterStops(d) ==
    /\ NextCall("stopGreeter", d)
    /\ disp[d].greeter = "running"
    /\ GreeterFinished(d, Return)

StopGreeterTimeout(d) ==
    /\ NextCall("stopGreeter", d)
    /\ disp[d].greeter = "running"
    /\ stack' = Return
    /\ UNCHANGED <<disp, first>>

\* Auth::stop of m_auth.
StopAuth(d) ==
    /\ NextCall("stopAuth", d)
    /\ disp[d].auth = "none"
    /\ stack' = Return
    /\ UNCHANGED <<disp, first>>

AuthStops(d) ==
    /\ NextCall("stopAuth", d)
    /\ disp[d].auth # "none"
    /\ HelperFinished(d, Return)

\* Fault: the helper is waited for without a time limit.
StopAuthNoTimeout(d) == FALSE

StopAuthTimeout(d) ==
    /\ NextCall("stopAuth", d)
    /\ disp[d].auth # "none"
    /\ stack' = Return
    /\ UNCHANGED <<disp, first>>

\* The display server is stopped with its signals blocked.
StopServer(d) ==
    /\ NextCall("stopServer", d)
    /\ disp' = [disp EXCEPT ![d].server = IF @ = "on" THEN "off" ELSE @]
    /\ stack' = Return
    /\ UNCHANGED first

\* The last lines: m_started = false, and the signal stopped.
SetStopped(d) ==
    /\ NextCall("setStopped", d)
    /\ disp' = [disp EXCEPT ![d].started = FALSE]
    /\ stack' = (IF disp[d].blocked THEN <<>> ELSE <<Call("displayStopped", d)>>)
                \o Return
    /\ UNCHANGED first

-----------------------------------------------------------------------------
(***************************************************************************)
(* Events of a display that is not about to be deleted.                    *)
(***************************************************************************)
Alive(d) == disp[d].type # "none" /\ ~disp[d].doomed

\* The X server ends: XorgDisplayServer::finished and the signal stopped.
ServerDies(d) ==
    /\ Alive(d) /\ disp[d].type = "x11" /\ disp[d].server = "on"
    /\ disp' = [disp EXCEPT ![d].server = "off"]
    /\ stack' = <<Call("stop", d)>>
    /\ UNCHANGED first

\* SESSION_STATUS of the helper of the greeter: Greeter::onSessionStarted.
GreeterStarts(d) ==
    /\ Alive(d) /\ disp[d].greeter = "starting"
    /\ disp' = [disp EXCEPT ![d].greeter = "running"]
    /\ UNCHANGED <<first, stack>>

GreeterDies(d) ==
    /\ Alive(d) /\ disp[d].greeter # "none"
    /\ GreeterFinished(d, <<>>)

\* A helper that cannot be executed: Auth reports an error and no exit.
HelperFailsToStart(d) ==
    /\ Alive(d)
    /\ \/ /\ disp[d].greeter = "starting"
          /\ disp' = [disp EXCEPT ![d].greeter = "none"]
       \/ /\ disp[d].auth = "auth"
          /\ disp' = [disp EXCEPT ![d].auth = "none"]
    /\ UNCHANGED <<first, stack>>

\* Display::login up to Auth::start.
Login(d) ==
    /\ Alive(d) /\ disp[d].started
    /\ disp[d].greeter = "running" /\ disp[d].auth = "none"
    /\ disp' = [disp EXCEPT ![d].auth = "auth"]
    /\ UNCHANGED <<first, stack>>

\* Display::handleAutologinFailure, from slotAuthenticationFinished.
AutologinFails(d) ==
    /\ Alive(d) /\ disp[d].auth = "auth" /\ disp[d].autologin
    /\ \E r \in WithGreeter([disp[d] EXCEPT !.autologin = FALSE]) : Becomes(d, r)
    /\ UNCHANGED stack

\* Display::slotSessionStarted.
SessionStarts(d) ==
    /\ Alive(d) /\ disp[d].auth = "auth"
    /\ disp' = [disp EXCEPT ![d].auth = "session", ![d].timer = TRUE]
    /\ UNCHANGED <<first, stack>>

\* Its timer calls Greeter::stop.
GreeterTimer(d) ==
    /\ Alive(d) /\ disp[d].timer
    /\ disp' = [disp EXCEPT ![d].timer = FALSE]
    /\ stack' = <<Call("stopGreeter", d)>>
    /\ UNCHANGED first

\* The helper of the user ends: the session is over, or did not start.
HelperExits(d) ==
    /\ Alive(d) /\ disp[d].auth # "none"
    /\ HelperFinished(d, <<>>)

\* The deferred delete: ~Display, which ends every process of the display.
DeleteDisplay(d) ==
    /\ disp[d].doomed
    /\ disp' = [disp EXCEPT ![d] = NoDisplay]
    /\ UNCHANGED <<first, stack>>
=============================================================================
