------------------------------ MODULE Launcher ------------------------------
(***************************************************************************)
(* What the two start programs of sddm-helper have in common               *)
(* (helper/HelperStartX11User.cpp, HelperStartWayland.cpp): they start a   *)
(* display server and a client of it, the greeter or a session, wait in an *)
(* event loop, and stop both in the end.                                   *)
(***************************************************************************)
EXTENDS Naturals

\* Auth::HelperExitStatus, and the codes of SIGTERM, SIGKILL and SIGABRT, as
\* QProcess has them.
Success == 0
SessionError == 2
OtherError == 3
DisplayServerError == 4
TtyError == 5
Killed == 9
Aborted == 6
Terminated == 15

\* Fault: the code is not cut to the eight bits that a parent sees.
MinusOneUncut == 0 - 1

\* What a parent sees of exit(-1).
MinusOne == 255

VARIABLES
    kind,           \* the program: "x11", "wayland", or "plain" for a
                    \*    session that needs no server of its own
    launcher,       \* where the program is
    server,         \* "none", "missing", "running", "ready"; "exited" with
                    \*    code 0 or "crashed", then "gone" when that is known
    client,         \* "none", "missing", "running", "ended", "gone"
    sigterm,        \* a SIGTERM has come
    code            \* the code that it ends with

launcherVars == <<kind, launcher, server, client, sigterm, code>>

Alive == {"running", "ready"}

LauncherTypeOK ==
    /\ kind \in {"x11", "wayland", "plain"}
    /\ launcher \in {"none", "x11", "number", "display", "wayland", "compositor",
                     "greeter", "plain", "loop", "stop", "stopServer",
                     "stopScript", "end", "finished"}
    /\ server \in Alive \union {"none", "missing", "exited", "crashed", "gone"}
    /\ client \in {"none", "missing", "running", "ended", "gone"}

CodeTypeOK == code \in 0 .. 255

LauncherInit ==
    /\ kind \in {"x11", "wayland", "plain"}
    /\ launcher = "none" /\ server = "none" /\ client = "none"
    /\ sigterm = FALSE /\ code = 0

Goes(from, to) == launcher = from /\ launcher' = to

\* QCoreApplication::exit from the event loop.  Before exec() it is lost.
Exit(c) == Goes("loop", "stop") /\ code' = c

\* QProcess::start of the client.  Nobody is told when it cannot be executed:
\* finished() is only emitted for a process that has run.
StartClient == client' \in {"running", "missing"}

ClientFinished ==
    /\ client = "ended" /\ client' = "gone"
    /\ Exit(Success)
    /\ UNCHANGED <<kind, server, sigterm>>

\* Fault: only an exit code is an error.
ServerFinishedQuietly ==
    /\ launcher = "loop"
    /\ server \in {"exited", "crashed"} /\ server' = "gone"
    /\ UNCHANGED <<kind, launcher, code, client, sigterm>>

\* A server that ends with code 0 ends nothing.
ServerFinished ==
    /\ launcher = "loop"
    /\ server \in {"exited", "crashed"} /\ server' = "gone"
    /\ IF server = "crashed" THEN Exit(Success) ELSE UNCHANGED <<launcher, code>>
    /\ UNCHANGED <<kind, client, sigterm>>

SigtermReceived ==
    /\ sigterm /\ sigterm' = FALSE
    /\ Exit(IF kind = "x11" THEN MinusOne ELSE Success)
    /\ UNCHANGED <<kind, server, client>>

\* Server and client on their own.
ServerEnds ==
    /\ server \in Alive
    /\ server' \in {"exited", "crashed"}
    /\ UNCHANGED <<kind, launcher, client, sigterm, code>>

ClientEnds ==
    /\ client = "running" /\ client' = "ended"
    /\ UNCHANGED <<kind, launcher, server, sigterm, code>>
=============================================================================
