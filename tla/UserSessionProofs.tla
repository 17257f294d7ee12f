------------------------- MODULE UserSessionProofs -------------------------
(***************************************************************************)
(* Proofs about UserSession.  Where a server or a client can be running is *)
(* a matter of where its start program is, whoever else takes a step.      *)
(***************************************************************************)
EXTENDS UserSession, TLAPS

\* The places of a start program at which its server, or its client, may be
\* running.
ServerPlaces == IF kind = "x11" THEN {"number", "display", "loop", "stop"}
                ELSE {"greeter", "loop", "stop", "stopServer"}
ClientPlaces == IF kind = "x11" THEN {"display", "loop", "stop", "stopScript", "end"}
                ELSE {"loop", "stop"}

ProcessInv ==
    /\ PlacesTypeOK
    /\ session \in {"none", "failed"} => launcher = "none"
    /\ ~killed /\ server \in Alive => launcher \in ServerPlaces
    /\ ~killed /\ client = "running" => launcher \in ClientPlaces

\* A helper that has started nothing.
LEMMA InitProcess == Init => ProcessInv
BY DEF Init, LauncherInit, X11Init, WaylandInit, ProcessInv, PlacesTypeOK,
       LauncherTypeOK, WaylandTypeOK, Alive

USE DEF Alive, Goes

\* The steps of the helper, and of sessions without a server.
LEMMA SessionSteps ==
    ASSUME ProcessInv,
           Start \/ SessionFinished \/ Stop \/ StopFinished \/ StopTimeout
              \/ SigtermKills \/ PlainEnds
    PROVE  ProcessInv'
<1> USE DEF ProcessInv, PlacesTypeOK, LauncherTypeOK, WaylandTypeOK,
            ServerPlaces, ClientPlaces, x11Vars, waylandVars, launcherVars
<1>1. CASE Start
  BY <1>1 DEF Start, SetupChildProcess
<1>2. CASE SessionFinished
  BY <1>2 DEF SessionFinished
<1>3. CASE Stop
  BY <1>3 DEF Stop
<1>4. CASE StopFinished
  BY <1>4 DEF StopFinished
<1>5. CASE StopTimeout
  BY <1>5 DEF StopTimeout
<1>6. CASE SigtermKills
  BY <1>6 DEF SigtermKills, sessionVars
<1>7. CASE PlainEnds
  BY <1>7 DEF PlainEnds, sessionVars
<1> QED BY <1>1, <1>2, <1>3, <1>4, <1>5, <1>6, <1>7

\* The steps of the event loop that both programs have.
LEMMA LoopSteps ==
    ASSUME ProcessInv, kind \in {"x11", "wayland"},
           ClientFinished \/ ServerFinished \/ SigtermReceived,
           UNCHANGED <<x11Vars, waylandVars, sessionVars>>
    PROVE  ProcessInv'
<1> USE DEF ProcessInv, PlacesTypeOK, LauncherTypeOK, WaylandTypeOK,
            ServerPlaces, ClientPlaces, x11Vars, waylandVars, sessionVars, Exit
<1>1. CASE ClientFinished
  BY <1>1 DEF ClientFinished
<1>2. CASE ServerFinished
  BY <1>2 DEF ServerFinished
<1>3. CASE SigtermReceived
  BY <1>3 DEF SigtermReceived
<1> QED BY <1>1, <1>2, <1>3

\* The steps of sddm-helper-start-x11user.
LEMMA X11Steps ==
    ASSUME ProcessInv, X11Next, UNCHANGED <<waylandVars, sessionVars>>
    PROVE  ProcessInv'
<1>1. CASE (ClientFinished \/ ServerFinished \/ SigtermReceived) /\ UNCHANGED x11Vars
  BY <1>1, LoopSteps DEF X11Next
<1> USE DEF ProcessInv, PlacesTypeOK, LauncherTypeOK, WaylandTypeOK,
            ServerPlaces, ClientPlaces, x11Vars, waylandVars, sessionVars, X11Next
<1>2. CASE StartServer
  BY <1>2 DEF StartServer
<1>3. CASE ReadNumber
  BY <1>3 DEF ReadNumber, AddCookie, StartClient
<1>4. CASE StartDisplayCommand
  BY <1>4 DEF StartDisplayCommand
<1>5. CASE ScriptFinished
  BY <1>5 DEF ScriptFinished, Exit
<1>6. CASE StopX11
  BY <1>6 DEF StopX11
<1>7. CASE DisplayFinished
  BY <1>7 DEF DisplayFinished
<1>8. CASE EndX11
  BY <1>8 DEF EndX11
<1> QED BY <1>1, <1>2, <1>3, <1>4, <1>5, <1>6, <1>7, <1>8

\* The steps of sddm-helper-start-wayland.
LEMMA WaylandSteps ==
    ASSUME ProcessInv, WaylandNext, UNCHANGED <<x11Vars, sessionVars>>
    PROVE  ProcessInv'
<1>1. CASE (ClientFinished \/ ServerFinished \/ SigtermReceived) /\ UNCHANGED waylandVars
  BY <1>1, LoopSteps DEF WaylandNext
<1> USE DEF ProcessInv, PlacesTypeOK, LauncherTypeOK, WaylandTypeOK,
            ServerPlaces, ClientPlaces, x11Vars, waylandVars, sessionVars, WaylandNext
<1>2. CASE StartWatcher
  BY <1>2 DEF StartWatcher
<1>3. CASE StartCompositor
  BY <1>3 DEF StartCompositor
<1>4. CASE StartGreeter
  BY <1>4 DEF StartGreeter
<1>5. CASE DirectoryChanged
  BY <1>5 DEF DirectoryChanged, StopWatcher, StartClient
<1>6. CASE WatcherTimeout
  BY <1>6 DEF WatcherTimeout, Exit
<1>7. CASE StopWayland
  BY <1>7 DEF StopWayland, StopWatcher
<1>8. CASE StopCompositor
  BY <1>8 DEF StopCompositor
<1>9. CASE EndWayland
  BY <1>9 DEF EndWayland
<1> QED BY <1>1, <1>2, <1>3, <1>4, <1>5, <1>6, <1>7, <1>8, <1>9

\* What servers, clients and sessions do by themselves.
LEMMA EnvironmentSteps ==
    ASSUME ProcessInv, Environment
    PROVE  ProcessInv'
<1> USE DEF ProcessInv, PlacesTypeOK, LauncherTypeOK, WaylandTypeOK,
            ServerPlaces, ClientPlaces, x11Vars, waylandVars, sessionVars, Environment
<1>1. CASE ServerWritesNumber /\ UNCHANGED waylandVars
  BY <1>1 DEF ServerWritesNumber
<1>2. CASE CompositorListens /\ UNCHANGED x11Vars
  BY <1>2 DEF CompositorListens
<1>3. CASE DirectoryChanges /\ UNCHANGED x11Vars
  BY <1>3 DEF DirectoryChanges, launcherVars
<1>4. CASE ServerEnds /\ UNCHANGED <<x11Vars, waylandVars>>
  BY <1>4 DEF ServerEnds
<1>5. CASE ClientEnds /\ UNCHANGED <<x11Vars, waylandVars>>
  BY <1>5 DEF ClientEnds
<1> QED BY <1>1, <1>2, <1>3, <1>4, <1>5

\* Where servers and clients run, in every reachable state.
THEOREM ProcessInvariant == Spec => []ProcessInv
<1>1. ProcessInv /\ [Next]_vars => ProcessInv'
  <2> SUFFICES ASSUME ProcessInv, [Next]_vars PROVE ProcessInv'
    OBVIOUS
  <2>1. CASE Next
    <3>1. CASE Programs
      BY <3>1, X11Steps, WaylandSteps DEF Programs
    <3>2. CASE Environment
      BY <3>2, EnvironmentSteps
    <3> QED BY <2>1, <3>1, <3>2, SessionSteps DEF Next
  <2>2. CASE UNCHANGED vars
    BY <2>2 DEF vars, ProcessInv, PlacesTypeOK, LauncherTypeOK, WaylandTypeOK,
         ServerPlaces, ClientPlaces, launcherVars, x11Vars, waylandVars, sessionVars
  <2> QED BY <2>1, <2>2
<1> QED BY InitProcess, <1>1, PTL DEF Spec

\* Every step leaves the flags of the start programs and of the helper alone
\* or sets them.
LEMMA FlagSteps ==
    ASSUME FlagsTypeOK, [Next]_vars
    PROVE  FlagsTypeOK'
<1> USE DEF FlagsTypeOK, x11Vars, waylandVars, sessionVars, launcherVars
<1>1. CASE Start \/ SessionFinished \/ Stop \/ StopFinished
  BY <1>1, Zenon DEF Start, SetupChildProcess, SessionFinished, Stop, StopFinished
<1>2. CASE StopTimeout \/ SigtermKills \/ PlainEnds
  BY <1>2, Zenon DEF StopTimeout, SigtermKills, PlainEnds
<1>3. CASE X11Next /\ UNCHANGED <<waylandVars, sessionVars>>
  BY <1>3, Zenon DEF X11Next, StartServer, ReadNumber, StartDisplayCommand,
       ScriptFinished, ClientFinished, ServerFinished, SigtermReceived,
       StopX11, DisplayFinished, EndX11
<1>4. CASE WaylandNext /\ UNCHANGED <<x11Vars, sessionVars>>
  BY <1>4, Zenon DEF WaylandNext, StartWatcher, StartCompositor, StartGreeter,
       DirectoryChanged, WatcherTimeout, ClientFinished, ServerFinished,
       SigtermReceived, StopWatcher, StopWayland, StopCompositor, EndWayland
<1>5. CASE Environment
  BY <1>5, Zenon DEF Environment, ServerWritesNumber, CompositorListens,
       DirectoryChanges, ServerEnds, ClientEnds
<1>6. CASE UNCHANGED vars
  BY <1>6, Zenon DEF vars
<1> QED BY <1>1, <1>2, <1>3, <1>4, <1>5, <1>6 DEF Next, Programs

\* And it leaves the exit code alone or sets it to one of eight bits.
LEMMA CodeSteps ==
    ASSUME CodeTypeOK, [Next]_vars
    PROVE  CodeTypeOK'
<1> DEFINE Codes == {Success, SessionError, OtherError, DisplayServerError,
                     TtyError, Killed, Aborted, Terminated, MinusOne}
<1>1. code' = code \/ code' \in Codes \/ code' \in SessionCodes
  <2> USE DEF x11Vars, waylandVars, sessionVars, launcherVars
  <2>1. CASE Start \/ SessionFinished \/ Stop \/ StopFinished
    BY <2>1, Zenon DEF Start, SetupChildProcess, SessionFinished, Stop, StopFinished
  <2>2. CASE StopTimeout \/ SigtermKills \/ PlainEnds
    BY <2>2, Zenon DEF StopTimeout, SigtermKills, PlainEnds
  <2>3. CASE X11Next
    BY <2>3, Zenon DEF X11Next, StartServer, ReadNumber, StartDisplayCommand,
         ScriptFinished, ClientFinished, ServerFinished, SigtermReceived,
         StopX11, DisplayFinished, EndX11, Exit
  <2>4. CASE WaylandNext
    BY <2>4, Zenon DEF WaylandNext, StartWatcher, StartCompositor, StartGreeter,
         DirectoryChanged, WatcherTimeout, ClientFinished, ServerFinished,
         SigtermReceived, StopWayland, StopCompositor, EndWayland, Exit
  <2>5. CASE Environment
    BY <2>5, Zenon DEF Environment, ServerWritesNumber, CompositorListens,
         DirectoryChanges, ServerEnds, ClientEnds
  <2>6. CASE UNCHANGED vars
    BY <2>6 DEF vars
  <2> QED BY <2>1, <2>2, <2>3, <2>4, <2>5, <2>6 DEF Next, Programs
<1>2. Codes \subseteq 0 .. 255
  BY SMT DEF Success, SessionError, OtherError, DisplayServerError, TtyError,
             Killed, Aborted, Terminated, MinusOne
<1> QED BY Zenon, <1>1, <1>2, UserSessionAssumption DEF CodeTypeOK, UserSessionAssumption

\* Types, whatever codes sessions end with.
THEOREM TypesCorrect == Spec => []TypeOK
<1>1. Init => FlagsTypeOK /\ CodeTypeOK
  <2>1. Init => FlagsTypeOK
    BY Zenon DEF Init, LauncherInit, X11Init, WaylandInit, FlagsTypeOK
  <2>2. Init => CodeTypeOK
    BY SMT DEF Init, LauncherInit, CodeTypeOK
  <2> QED BY <2>1, <2>2
<1>2. FlagsTypeOK /\ CodeTypeOK /\ [Next]_vars => (FlagsTypeOK /\ CodeTypeOK)'
  BY FlagSteps, CodeSteps
<1>3. ProcessInv /\ FlagsTypeOK /\ CodeTypeOK => TypeOK
  BY DEF ProcessInv, TypeOK
<1> QED BY ProcessInvariant, <1>1, <1>2, <1>3, PTL DEF Spec

\* A start program that ends of itself leaves no server and no client running:
\* XOrgUserHelper::stop, WaylandHelper::stop and the early ends of main.
THEOREM NothingIsLeftRunning == Spec => []NothingLeftRunning
<1>1. ProcessInv => NothingLeftRunning
  BY DEF ProcessInv, NothingLeftRunning, ServerPlaces, ClientPlaces
<1> QED BY ProcessInvariant, <1>1, PTL
=============================================================================
