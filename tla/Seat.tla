-------------------------------- MODULE Seat --------------------------------
(***************************************************************************)
(* A seat and its displays (daemon/Seat.cpp): it makes the first display,  *)
(* replaces displays that stopped, tries again when a display server does  *)
(* not start, falls back to another type of display server, and adds       *)
(* displays when a user switches to the greeter.                           *)
(***************************************************************************)
EXTENDS Display

CONSTANTS
    MaxListed,      \* bound on the displays that switches to the greeter add
    TtyLimit        \* how many failures of greeters to get their VT the
                    \*    daemon lives with: 5 in the code

ASSUME SeatAssumption == MaxListed \in Nat /\ TtyLimit \in Nat

VARIABLES
    displays,       \* m_displays
    ttyFailures,    \* s_ttyFailures
    quit,           \* the code of QCoreApplication::exit, 0 before it
    expected        \* history: how many displays the last event may leave

seatVars == <<displays, ttyFailures, quit, expected>>
vars == <<displayVars, seatVars>>

CallType == [op : {"stop", "stopGreeter", "stopAuth", "stopServer",
                   "setStopped", "ttyFailed", "displayServerFailed",
                   "displayStopped", "removeDisplay", "removed", "replace",
                   "fallBack"},
             display : Displays]

TypeOK ==
    /\ disp \in [Displays -> DisplayState]
    /\ first \in BOOLEAN
    /\ stack \in Seq(CallType)
    /\ displays \in Seq(Displays)
    /\ ttyFailures \in 0 .. TtyLimit + 1
    /\ quit \in {0, 12, 23}
    /\ expected \in Nat

Listed == {displays[i] : i \in 1 .. Len(displays)}

\* The constructor of Seat creates the first display, as displayStopped does
\* when there is none left.  A seat may be there from the start or later.
Init ==
    /\ disp = [d \in Displays |-> NoDisplay]
    /\ first \in BOOLEAN
    /\ \E d \in Displays : stack = <<Call("replace", d)>>
    /\ displays = <<>>
    /\ ttyFailures = 0 /\ quit = 0 /\ expected = 1

-----------------------------------------------------------------------------
(***************************************************************************)
(* What the seat does inside a call.                                       *)
(***************************************************************************)
\* A number for a new Display object: the smallest one there is.
Unused(d) == /\ disp[d].type = "none"
             /\ \A e \in Displays : e < d => disp[e].type # "none"

\* Seat::createDisplay with one of types.
CreateDisplay(types) ==
    \E d \in Displays, t \in types :
        /\ Unused(d)
        /\ \E r \in StartDisplay(NewDisplay(t)) : Becomes(d, r)
        /\ displays' = Append(displays, d)

\* Display::ttyFailed as its constructor connects it.
TtyFailed(d) ==
    /\ NextCall("ttyFailed", d)
    /\ ttyFailures' = ttyFailures + 1
    /\ quit' = IF ttyFailures' > TtyLimit THEN 23 ELSE quit
    /\ stack' = <<Call("stop", d)>> \o Return
    /\ UNCHANGED <<disp, first, displays, expected>>

\* The signal displayServerFailed of the display, and of the greeter before.
DisplayServerFailed(d) ==
    /\ NextCall("displayServerFailed", d)
    /\ stack' = (IF disp[d].blocked THEN <<>>
                 ELSE <<Call("removeDisplay", d), Call("fallBack", d)>>) \o Return
    /\ UNCHANGED <<disp, first, seatVars>>

\* Fault: the fallback is left to displayStopped, which does not hear of it.
FallBackNever(d) ==
    /\ NextCall("fallBack", d)
    /\ stack' = Return
    /\ UNCHANGED <<disp, first, seatVars>>

\* The rest of the slot that createDisplay connects to it. No greeter of an
\* x11-user display ends in the way that would make the daemon exit here.
FallBack(d) ==
    /\ NextCall("fallBack", d)
    /\ stack' = Return
    /\ IF disp[d].type # "x11-user"
       THEN CreateDisplay({"x11-user"}) /\ UNCHANGED quit
       ELSE /\ quit' = IF displays = <<>> THEN 12 ELSE quit
            /\ UNCHANGED <<disp, first, displays>>
    /\ UNCHANGED <<ttyFailures, expected>>

\* Seat::displayStopped.
DisplayStopped(d) ==
    /\ NextCall("displayStopped", d)
    /\ stack' = <<Call("removeDisplay", d), Call("replace", d)>> \o Return
    /\ UNCHANGED <<disp, first, seatVars>>

\* Fault: a new display for every signal stopped.
ReplaceAlways(d) ==
    /\ NextCall("replace", d)
    /\ stack' = Return
    /\ CreateDisplay(DefaultTypes)
    /\ UNCHANGED <<ttyFailures, quit, expected>>

Replace(d) ==
    /\ NextCall("replace", d)
    /\ stack' = Return
    /\ IF displays = <<>>
       THEN CreateDisplay(DefaultTypes)
       ELSE UNCHANGED <<disp, first, displays>>
    /\ UNCHANGED <<ttyFailures, quit, expected>>

\* QVector::removeAll.
Without(list, d) ==
    LET kept[n \in 0 .. Len(list)] ==
            IF n = 0 THEN <<>>
            ELSE IF list[n] = d THEN kept[n - 1] ELSE Append(kept[n - 1], list[n])
    IN kept[Len(list)]

\* Seat::removeDisplay, before and after its call of Display::stop.
RemoveDisplay(d) ==
    /\ NextCall("removeDisplay", d)
    /\ displays' = Without(displays, d)
    /\ disp' = [disp EXCEPT ![d].blocked = TRUE]
    /\ stack' = <<Call("stop", d), Call("removed", d)>> \o Return
    /\ UNCHANGED <<first, ttyFailures, quit, expected>>

Removed(d) ==
    /\ NextCall("removed", d)
    /\ disp' = [disp EXCEPT ![d].blocked = FALSE, ![d].doomed = TRUE]
    /\ stack' = Return
    /\ UNCHANGED <<first, seatVars>>

\* The calls that take their course without a process or a clock.
Compute(d) ==
    \/ /\ \/ StopDisplay(d) \/ StopGreeter(d) \/ StopAuth(d) \/ StopServer(d)
          \/ SetStopped(d)
       /\ UNCHANGED seatVars
    \/ TtyFailed(d) \/ DisplayServerFailed(d) \/ FallBack(d)
    \/ DisplayStopped(d) \/ Replace(d) \/ RemoveDisplay(d) \/ Removed(d)

Timeout(d) ==
    /\ StopGreeterTimeout(d) \/ StopAuthTimeout(d)
    /\ UNCHANGED seatVars

\* The process that is waited for ends.
Stops(d) ==
    /\ GreeterStops(d) \/ AuthStops(d)
    /\ UNCHANGED seatVars

-----------------------------------------------------------------------------
(***************************************************************************)
(* Events.  Deferred deletes come first.                                   *)
(***************************************************************************)
Idle == stack = <<>> /\ quit = 0 /\ \A d \in Displays : ~disp[d].doomed

Event(d) ==
    /\ Idle
    /\ \/ ServerDies(d) \/ GreeterStarts(d) \/ GreeterDies(d)
       \/ HelperFailsToStart(d) \/ Login(d) \/ AutologinFails(d)
       \/ SessionStarts(d) \/ GreeterTimer(d) \/ HelperExits(d)
    /\ expected' = Len(displays)
    /\ UNCHANGED <<displays, ttyFailures, quit>>

\* The timer of Seat::startDisplay.
Retry(d) ==
    /\ Idle /\ disp[d].retry
    /\ \E r \in StartDisplay(disp[d]) : Becomes(d, r)
    /\ expected' = Len(displays)
    /\ UNCHANGED <<stack, displays, ttyFailures, quit>>

\* SeatManager::switchToGreeter.
SwitchToGreeter ==
    /\ Idle /\ Len(displays) < MaxListed
    /\ CreateDisplay(DefaultTypes)
    /\ expected' = Len(displays) + 1
    /\ UNCHANGED <<stack, ttyFailures, quit>>

Delete(d) == stack = <<>> /\ DeleteDisplay(d) /\ UNCHANGED seatVars

Daemon == \E d \in Displays : Compute(d) \/ Timeout(d) \/ Retry(d) \/ Delete(d)

Next ==
    \/ Daemon
    \/ \E d \in Displays : Stops(d) \/ Event(d)
    \/ SwitchToGreeter

Spec == Init /\ [][Next]_vars

\* The daemon goes on, and its timers expire.  No process has to end, no
\* greeter or session has to start.
FairSpec == Spec /\ WF_vars(Daemon)
-----------------------------------------------------------------------------
(***************************************************************************)
(* Properties.                                                             *)
(***************************************************************************)

\* Back in the event loop, a daemon that goes on has a display for its seat,
\* the displays it has are the ones in m_displays, each once, and their
\* signals are heard: however Display::stop, displayStopped, removeDisplay
\* and the fallback were nested, no display is lost or left deaf.  The early
\* return of Display::stop on m_started skips nothing: a display that does not
\* count as started runs no greeter and no session.
NoLostDisplay ==
    Idle => /\ displays # <<>>
            /\ Listed = {d \in Displays : disp[d].type # "none"}
            /\ \A i, j \in 1 .. Len(displays) :
                  displays[i] = displays[j] => i = j
            /\ \A d \in Displays :
                  /\ ~disp[d].blocked
                  /\ ~disp[d].started =>
                        disp[d].greeter = "none" /\ disp[d].auth = "none"

\* A display that stopped is replaced once, though its signal stopped is
\* emitted twice when its greeter or helper ends inside Display::stop.
OneReplacement == Idle => Len(displays) <= expected

\* However the slots nest, the daemon comes back to its event loop.
StopsEnd == stack # <<>> ~> stack = <<>>

\* Seat::startDisplay gave up, or the socket of the greeter could not be
\* given to its user: the code does nothing more for such a display.
GivenUp(d) == disp[d].tries = 3 \/ disp[d].unowned

\* Whatever fails, the seat comes back to a display that is started, or to
\* one that is given up.
SeatComesBack ==
    []<>(quit # 0 \/ \E d \in Listed : disp[d].started \/ GivenUp(d))

\* daemon/Seat.cpp, createDisplay: "If we failed to create a display with
\* wayland or rootful x11, try with x11-user."
FallsBack ==
    Idle => \A d \in Listed :
               disp[d].type = "x11" /\ disp[d].tries = 3 /\ disp[d].server # "on"
               /\ ~disp[d].retry =>
                  \E e \in Listed : disp[e].type = "x11-user"
=============================================================================
