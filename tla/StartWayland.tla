---------------------------- MODULE StartWayland ----------------------------
(***************************************************************************)
(* sddm-helper-start-wayland: a compositor, and the greeter as soon as its *)
(* socket is there (helper/HelperStartWayland.cpp, waylandhelper.cpp,      *)
(* waylandsocketwatcher.cpp).                                              *)
(***************************************************************************)
EXTENDS Launcher

VARIABLES
    socket,         \* the socket in the runtime directory: "none", "stale"
                    \*    from an earlier compositor, or "listening"
    changed,        \* the directory has changed, which the loop will report
    watching,       \* there is a QFileSystemWatcher
    timer,          \* m_timer runs
    status,         \* WaylandSocketWatcher::Status
    linked          \* WaylandHelper listens to the socket watcher

waylandVars == <<socket, changed, watching, timer, status, linked>>

WaylandTypeOK ==
    /\ socket \in {"none", "stale", "listening"}
    /\ status \in {"Stopped", "Failed"}

WaylandInit ==
    /\ socket \in {"none", "stale"}
    /\ status = "Stopped"
    /\ changed = FALSE /\ watching = FALSE /\ timer = FALSE /\ linked = FALSE

\* Fault: the timer is forgotten.
StartWatcherUntimed ==
    /\ Goes("wayland", "compositor")
    /\ watching' \in BOOLEAN
    /\ status' = IF watching' THEN "Stopped" ELSE "Failed"
    /\ UNCHANGED <<kind, server, client, sigterm, code, socket, changed, timer, linked>>

\* WaylandSocketWatcher::start.  If the directory cannot be watched, failed()
\* reaches nobody.
StartWatcher ==
    /\ Goes("wayland", "compositor")
    /\ watching' \in BOOLEAN
    /\ status' = IF watching' THEN "Stopped" ELSE "Failed"
    /\ timer' = TRUE
    /\ UNCHANGED <<kind, server, client, sigterm, code, socket, changed, linked>>

\* The rest of WaylandHelper::startCompositor; without a compositor main
\* returns.
StartCompositor ==
    /\ launcher = "compositor"
    /\ \/ server' = "running" /\ launcher' = "greeter" /\ UNCHANGED code
       \/ /\ server' = "missing"
          /\ launcher' = "finished" /\ code' = DisplayServerError
    /\ UNCHANGED <<kind, client, sigterm, waylandVars>>

\* WaylandHelper::startGreeter.  The socket is never there yet: it is only
\* looked for in the event loop.  After a failure, main's exit() is lost.
StartGreeter ==
    /\ Goes("greeter", "loop")
    /\ linked' = (status # "Failed")
    /\ UNCHANGED <<kind, server, client, sigterm, code,
                   socket, changed, watching, timer, status>>

\* The compositor binds its socket; other files come and go.
CompositorListens ==
    /\ kind = "wayland" /\ server = "running"
    /\ server' = "ready" /\ socket' = "listening"
    /\ changed' = (changed \/ watching)
    /\ UNCHANGED <<kind, launcher, client, sigterm, code,
                   watching, timer, status, linked>>

DirectoryChanges ==
    /\ watching /\ ~changed /\ changed' = TRUE
    /\ UNCHANGED <<launcherVars, socket, watching, timer, status, linked>>

\* WaylandSocketWatcher::stop.
StopWatcher ==
    /\ watching' = FALSE /\ timer' = FALSE /\ changed' = FALSE
    /\ status' = "Stopped"

\* Any socket will do.  started() stops the watcher and starts the greeter.
DirectoryChanged ==
    /\ launcher = "loop" /\ changed
    /\ IF socket # "none"
       THEN StopWatcher /\ StartClient
       ELSE changed' = FALSE /\ UNCHANGED <<watching, timer, status, client>>
    /\ UNCHANGED <<kind, launcher, server, sigterm, code, socket, linked>>

\* The 15 seconds are over: failed().
WatcherTimeout ==
    /\ launcher = "loop" /\ timer
    /\ timer' = FALSE /\ watching' = FALSE /\ changed' = FALSE
    /\ status' = "Failed"
    /\ IF linked THEN Exit(SessionError) ELSE UNCHANGED <<launcher, code>>
    /\ UNCHANGED <<kind, server, client, sigterm, socket, linked>>

\* WaylandHelper::stop, from aboutToQuit: the watcher, the greeter ...
StopWayland ==
    /\ Goes("stop", "stopServer")
    /\ StopWatcher
    /\ client' = IF client \in {"running", "ended"} THEN "gone" ELSE client
    /\ UNCHANGED <<kind, server, sigterm, code, socket, linked>>

\* ... and the compositor.
StopCompositor ==
    /\ Goes("stopServer", "end")
    /\ server' = "gone"
    /\ UNCHANGED <<kind, client, sigterm, code, waylandVars>>

EndWayland ==
    /\ Goes("end", "finished")
    /\ UNCHANGED <<kind, server, client, sigterm, code, waylandVars>>

WaylandNext ==
    /\ kind = "wayland"
    /\ \/ StartWatcher \/ StartCompositor \/ StartGreeter
       \/ DirectoryChanged \/ WatcherTimeout
       \/ (ClientFinished \/ ServerFinished \/ SigtermReceived) /\ UNCHANGED waylandVars
       \/ StopWayland \/ StopCompositor \/ EndWayland
=============================================================================
