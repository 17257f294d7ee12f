---------------------------- MODULE StartX11User ----------------------------
(***************************************************************************)
(* sddm-helper-start-x11user: an X server that runs as the user            *)
(* (helper/HelperStartX11User.cpp, xorguserhelper.cpp).                    *)
(***************************************************************************)
EXTENDS Launcher

VARIABLES
    number,         \* the server has written its display number to the pipe
    late            \* xsetroot or the display script was killed: its end
                    \*    waits for the event loop

x11Vars == <<number, late>>

X11Init == number = FALSE /\ late = FALSE

\* XOrgUserHelper::start up to the process of the server.  No pipe or no
\* process: false, which main ignores.  No file for XAuth: qFatal.
StartServer ==
    /\ launcher = "x11"
    /\ \/ server' = "running" /\ launcher' = "number" /\ UNCHANGED code
       \/ server' = "missing" /\ launcher' = "loop" /\ UNCHANGED code
       \/ launcher' = "finished" /\ code' = Aborted /\ UNCHANGED server
    /\ UNCHANGED <<kind, client, sigterm, x11Vars>>

\* The X server, when it is ready for connections.
ServerWritesNumber ==
    /\ kind = "x11" /\ server = "running"
    /\ server' = "ready" /\ number' = TRUE
    /\ UNCHANGED <<kind, launcher, client, sigterm, code, late>>

\* XAuth::addCookie; start() returns at once when it fails.
AddCookie == launcher' \in {"display", "loop"}

\* readLine(), which blocks until the server has written or closed the pipe.
\* displayChanged starts the client, before the cookie is written.
ReadNumber ==
    /\ launcher = "number"
    /\ \/ /\ number
          /\ StartClient /\ AddCookie
       \/ /\ ~number /\ server \in {"exited", "crashed"}
          /\ launcher' = "loop" /\ UNCHANGED client
    /\ UNCHANGED <<kind, server, sigterm, code, x11Vars>>

\* Cursor and display script, run to their end.  One that fails calls quit()
\* before exec(), which is lost; one that has to be killed does so after it.
StartDisplayCommand ==
    /\ Goes("display", "loop")
    /\ late' \in BOOLEAN
    /\ UNCHANGED <<kind, server, client, sigterm, code, number>>

ScriptFinished ==
    /\ late /\ late' = FALSE
    /\ Exit(Success)
    /\ UNCHANGED <<kind, server, client, sigterm, number>>

\* Fault: a server that does not end on SIGTERM is left alone.
StopX11Politely ==
    /\ launcher = "stop"
    /\ IF server \in {"none", "missing"}
       THEN launcher' = "end" /\ UNCHANGED server
       ELSE launcher' = "stopScript" /\ server' \in {server, "gone"}
    /\ UNCHANGED <<kind, client, sigterm, code, x11Vars>>

\* XOrgUserHelper::stop, from aboutToQuit: SIGTERM, then SIGKILL.
StopX11 ==
    /\ launcher = "stop"
    /\ IF server \in {"none", "missing"}
       THEN launcher' = "end" /\ UNCHANGED server
       ELSE launcher' = "stopScript" /\ server' = "gone"
    /\ UNCHANGED <<kind, client, sigterm, code, x11Vars>>

DisplayFinished ==
    /\ Goes("stopScript", "end")
    /\ UNCHANGED <<kind, server, client, sigterm, code, x11Vars>>

\* The end of main: the destructor of QProcess kills the client.
EndX11 ==
    /\ Goes("end", "finished")
    /\ client' = IF client \in {"running", "ended"} THEN "gone" ELSE client
    /\ UNCHANGED <<kind, server, sigterm, code, x11Vars>>

X11Next ==
    /\ kind = "x11"
    /\ \/ StartServer \/ ReadNumber \/ StartDisplayCommand \/ ScriptFinished
       \/ (ClientFinished \/ ServerFinished \/ SigtermReceived) /\ UNCHANGED x11Vars
       \/ StopX11 \/ DisplayFinished \/ EndX11
=============================================================================
