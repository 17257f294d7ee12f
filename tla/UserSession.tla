---------------------------- MODULE UserSession ----------------------------
(***************************************************************************)
(* The process that sddm-helper runs for a greeter or a session            *)
(* (helper/UserSession.cpp, HelperApp.cpp): one of the two start programs, *)
(* or the session itself.  For Login it is "running" or "ended"; here it   *)
(* starts, fails, is stopped and leaves processes behind.                  *)
(***************************************************************************)
EXTENDS StartX11User, StartWayland

CONSTANT
    SessionCodes    \* codes that a session without a start program ends with

ASSUME UserSessionAssumption == SessionCodes \subseteq 0 .. 255

VARIABLES
    session,        \* "none"; "failed": start() was false; "running",
                    \*    "stopping", "over": the helper is done with it
    killed          \* the process did not end in time and was killed

sessionVars == <<session, killed>>
vars == <<launcherVars, x11Vars, waylandVars, sessionVars>>

PlacesTypeOK ==
    /\ LauncherTypeOK /\ WaylandTypeOK
    /\ session \in {"none", "failed", "running", "stopping", "over"}

FlagsTypeOK ==
    /\ sigterm \in BOOLEAN /\ killed \in BOOLEAN
    /\ number \in BOOLEAN /\ late \in BOOLEAN
    /\ changed \in BOOLEAN /\ watching \in BOOLEAN
    /\ timer \in BOOLEAN /\ linked \in BOOLEAN

TypeOK == PlacesTypeOK /\ FlagsTypeOK /\ CodeTypeOK

Init ==
    /\ LauncherInit /\ X11Init /\ WaylandInit
    /\ session = "none" /\ killed = FALSE

\* UserSession::setupChildProcess in the child: it exits when it cannot become
\* the leader of a session, take the terminal, or become the user.
SetupChildProcess ==
    \/ launcher' = kind /\ UNCHANGED code
    \/ launcher' = "finished" /\ code' \in {OtherError, TtyError}

\* UserSession::start.  A process that could not be started is a failure,
\* except for the greeter of a compositor; so are a missing cookie and a
\* missing Xauthority file of an X11 session.
Start ==
    /\ session = "none"
    /\ \/ session' = "running" /\ SetupChildProcess
       \/ /\ session' = IF kind = "wayland" THEN "running" ELSE "failed"
          /\ UNCHANGED <<launcher, code>>
    /\ UNCHANGED <<kind, server, client, sigterm, killed, x11Vars, waylandVars>>

\* HelperApp::sessionFinished.
SessionFinished ==
    /\ session = "running" /\ launcher = "finished"
    /\ session' = "over"
    /\ UNCHANGED <<launcherVars, x11Vars, waylandVars, killed>>

\* UserSession::stop, when the helper got a SIGTERM or lost the daemon.  With
\* no process it only reports that it is finished.
Stop ==
    /\ session = "running"
    /\ IF launcher \in {"none", "finished"}
       THEN session' = "over" /\ UNCHANGED sigterm
       ELSE session' = "stopping" /\ sigterm' = TRUE
    /\ UNCHANGED <<kind, launcher, server, client, code, killed, x11Vars, waylandVars>>

StopFinished ==
    /\ session = "stopping" /\ launcher = "finished"
    /\ session' = "over"
    /\ UNCHANGED <<launcherVars, x11Vars, waylandVars, killed>>

\* Fault: the wait has no limit for a program that has a server.
StopTimeoutPlain ==
    /\ session = "stopping" /\ launcher # "finished" /\ server = "none"
    /\ launcher' = "finished" /\ code' = Killed /\ killed' = TRUE
    /\ session' = "over"
    /\ UNCHANGED <<kind, server, client, sigterm, x11Vars, waylandVars>>

\* After 5 seconds for a greeter, 60 for a session.  What the process has
\* started is not stopped with it.
StopTimeout ==
    /\ session = "stopping" /\ launcher # "finished"
    /\ launcher' = "finished" /\ code' = Killed /\ killed' = TRUE
    /\ session' = "over"
    /\ UNCHANGED <<kind, server, client, sigterm, x11Vars, waylandVars>>

\* SIGTERM before there is a SignalHandler, or to a session itself.
SigtermKills ==
    /\ sigterm /\ launcher = kind
    /\ launcher' = "finished" /\ code' = Terminated /\ sigterm' = FALSE
    /\ UNCHANGED <<kind, server, client, sessionVars, x11Vars, waylandVars>>

\* A session without a start program ends.
PlainEnds ==
    /\ kind = "plain" /\ Goes("plain", "finished")
    /\ code' \in SessionCodes
    /\ UNCHANGED <<kind, server, client, sigterm, sessionVars, x11Vars, waylandVars>>

Programs ==
    /\ \/ X11Next /\ UNCHANGED waylandVars
       \/ WaylandNext /\ UNCHANGED x11Vars
    /\ UNCHANGED sessionVars

Environment ==
    /\ \/ ServerWritesNumber /\ UNCHANGED waylandVars
       \/ (CompositorListens \/ DirectoryChanges) /\ UNCHANGED x11Vars
       \/ (ServerEnds \/ ClientEnds) /\ UNCHANGED <<x11Vars, waylandVars>>
    /\ UNCHANGED sessionVars

Next ==
    \/ Start \/ SessionFinished \/ Stop \/ StopFinished \/ StopTimeout
    \/ SigtermKills \/ PlainEnds \/ Programs \/ Environment

Spec == Init /\ [][Next]_vars

\* The helper and the start programs run, and their timers expire.  Servers,
\* clients and sessions need not do anything.
FairSpec ==
    /\ Spec
    /\ WF_vars(Programs)
    /\ WF_vars(SessionFinished \/ StopFinished \/ StopTimeout)
    /\ WF_vars(WatcherTimeout /\ UNCHANGED <<x11Vars, sessionVars>>)
-----------------------------------------------------------------------------
(***************************************************************************)
(* Properties.                                                             *)
(***************************************************************************)

\* A start program that ends of itself leaves neither server nor client
\* running, wherever it was when it failed or was told to stop.
NothingLeftRunning ==
    launcher = "finished" /\ ~killed => server \notin Alive /\ client # "running"

\* The end of the client, or a failure of the server, ends the program,
\* whenever it comes, and with it the helper: the display gets to know.
EndsWithItsParts ==
    /\ server = "crashed" ~> launcher = "finished"
    /\ client = "ended" ~> launcher = "finished"

\* The helper gets rid of the process, though it may be blocked in a read
\* without an event loop, or wait for a script or a server.
StopEnds == session = "stopping" ~> session = "over"

\* Ways to a display without a client that nobody is told of: the X server
\* could not be started, does not answer, or ended with code 0 before it had;
\* the runtime directory could not be watched; sddm-helper-start-wayland
\* itself could not be started.
Stuck ==
    \/ kind = "x11" /\ launcher \in {"loop", "number"} /\ ~number
    \/ kind = "wayland" /\ launcher = "loop" /\ ~linked
    \/ kind = "wayland" /\ launcher = "none"

\* Apart from these, a process that was started gets to its client, or ends.
ClientOrEnd ==
    []<>(\/ session \in {"none", "failed"} \/ client # "none"
         \/ launcher \in {"plain", "finished"} \/ Stuck)

=============================================================================
