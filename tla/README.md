# SDDM in TLA+

TLA+ specifications of SDDM, the display manager: how a user is logged in, how
displays and seats come, go and come back, with TLC configurations that check
them on small instances and TLAPS proofs for every value of the constants.
`PROJECT.json` ties every definition to the lines it stands for. Source paths
below are relative to `src/`.

## 1. Inventory

`sddm` (the daemon) is one process with one Qt event loop. It runs
`sddm-helper` once for every greeter and once for every login; the helper talks
to PAM and runs `sddm-greeter` or the user's session. Three kinds of channels
join them: the local socket between greeter and daemon (Login, LoginSucceeded,
...), the local socket between helper and daemon (HELLO, REQUEST,
AUTHENTICATED, SESSION_STATUS), and D-Bus to systemd-logind. Processes also tell
each other things by ending: exit codes travel from the session through the
helper to the daemon.

| Component | State | Operations | Interacts with | What makes it correct |
|---|---|---|---|---|
| Login (`daemon/Display.cpp`, `auth/`, `helper/HelperApp.cpp`, `helper/backend/`) | `m_socket`, `m_started`, the AuthRequest, `sessionPath`, the helper's step and PAM session, both channels | `login`, `startAuth`, the slots for every message, `Auth::start/stop`, the steps of `doAuth`, SIGTERM, exits | greeter, PAM, session process, Seat | request and reply keep in step, only a genuine acceptance is a success, nothing stays open, every question ends |
| Display life cycle (`daemon/Display.cpp`, `Greeter.cpp`, `*DisplayServer.cpp`) | `m_started`, greeter, display server, autologin, timers | `start`, `stop`, `displayServerStarted`, `ttyFailed`, the greeter's exits | Seat, helper, X server | `stop` ends, though it is called from inside itself, and skips nothing that runs |
| Seat (`daemon/Seat.cpp`) | `m_displays`, retries | `createDisplay`, `startDisplay`, `removeDisplay`, `displayStopped` | Display, SeatManager | a seat never loses its last display and never gets two for one |
| Seat manager (`daemon/SeatManager.cpp`, `DisplayManager.cpp`) | `m_seats`, `m_systemSeats`, LogindSeats, D-Bus objects | `initialize`, `logindSeatAdded/Removed`, `propertiesChanged`, `createSeat`, `removeSeat` | logind, Seat | one Seat for each graphical seat, however signals and answers interleave |
| PAM conversation (`helper/backend/PamBackend.cpp`, `PamHandle.cpp`, `auth/AuthRequest.cpp`) | prompts and answers, `m_sent` | `insertPrompt`, `getResponse`, `completeRequest`, `converse` | PAM modules, Login | a prompt gets the answer that was meant for it, once |
| Greeter channel (`daemon/SocketServer.cpp`, `greeter/GreeterProxy.cpp`) | connection, bytes on their way | one handler for each message | Display, power manager | messages are taken whole and in order, what the daemon does was asked for, the greeter ends with its daemon |
| Running sessions (`helper/UserSession.cpp`, `HelperStart*.cpp`, `xorguserhelper.cpp`, `wayland*.cpp`, `common/XAuth.cpp`) | server and greeter process, socket watcher, time limits | `start`, `stop`, `startCompositor`, `startGreeter` | Login, Display | the greeter starts after its server, a failure ends the helper, nothing is left running |
| Virtual terminals (`common/VirtualTerminal.cpp`) | the kernel's consoles | `fetchAvailableVt`, `jumpToVt` | Display, Seat, UserSession | the active VT is the one of the display in front |
| Configuration (`common/ConfigReader.cpp`, `Configuration.cpp`) | values, modification time, the files | `load`, `save`, `wipe` | everything | what is saved is what is loaded, unknown lines survive, a change of a file is seen |
| Session files (`common/Session.cpp`, `greeter/SessionModel.cpp`) | the list, `lastIndex` | `setTo`, `populate` | greeter, Display | the list has what can be started, the last session is selected |
| Users (`greeter/UserModel.cpp`) | the list, `lastIndex` | population | theme, state file | the users shown are the ones the configuration allows, the last one is among them |
| Keyboard (`greeter/KeyboardModel.cpp`, `XcbKeyboardBackend.cpp`) | the cache of locks and layouts, libxcb's queue | reading the state, `sendChanges`, `dispatchEvents` | X server, theme | the cache is what the server has, a request changes only what was asked |
| Greeter application (`greeter/GreeterApp.cpp`) | a view for each screen | `startup`, `addViewForScreen`, `removeViewForScreen`, `setThemePath` | greeter channel, models | it ends after a login and with its daemon |
| Power manager (`daemon/PowerManager.cpp`) | the back ends it found | `capabilities`, forwards to logind, ConsoleKit2, UPower | greeter channel | an operation is done once, by one that has it |
| Framing, signals (`common/SafeDataStream.cpp`, `SignalHandler.cpp`) | a frame in part, a signal pipe | `send`, `receive`, SIGTERM | Login | whole frames |
| Daemon application (`daemon/DaemonApp.cpp`) | `first` | start, `newSessionId`, log | all | - |
| utmp records, themes, QML components, translations, scripts, build, tests | - | - | - | - |

What is hard in this code:

- *Nested slots.* `Auth::stop` waits inside the daemon's event loop, the end of
  the process is reported during the wait, and the slots for it call
  `Display::stop` again.
- *Unordered reports.* The exit of a helper and the last data on its socket are
  separate events; the connections of two consecutive helpers carry the same id.
- *Shared names.* One `m_socket`, one `sessionPath` and one `AuthRequest` serve
  all logins of a display; one exit code serves the helper and its session.
- *Failure at every step* of the helper, with PAM half open.
- *Timers* that outlive what they were started for: the retries of
  `startDisplay`, the five seconds of `slotSessionStarted`, `Auth::stop`.
- *Asynchronous D-Bus*: a list, subscriptions, signals and property answers,
  about seats that come and go meanwhile.
- *Streams without frames*: the greeter channel is read message by message from
  whatever has arrived, and nothing marks where a message ends.
- *Caches*: the greeter's picture of the keyboard, the daemon's of sddm.conf and
  everybody's of state.conf, each brought up to date by its own means.
- *Rewriting a file in place*, with readers at any time and a crash in between.

The hazards, each at its line and with the properties that would catch it, are
in `PROJECT.json`.

## 2. Plan

1. **Login**, the reason the program exists: done, with proofs (`LoginProofs`).
2. **Display** and **Seat**: done, with proofs (`SeatProofs`). Seat extends
   Display; Login is the detailed view of what Display calls `auth`.
3. **SeatManager**: done, with proofs (`SeatManagerProofs`).
4. **Conversation**: done, a refinement of **Prompting**, with proofs
   (`ConversationProofs`).
5. **UserSession** with its start programs **StartX11User** and
   **StartWayland** (what they share is **Launcher**): done, with proofs
   (`UserSessionProofs`).
6. **GreeterChannel** with **PowerManager**: done, with proofs
   (`GreeterChannelProofs`).
7. **Remember**, with **ConfigReader**, **SessionModel** and **UserModel** (what
   they share is **Sublists**): done, with proofs (`RememberProofs`).
8. **Keyboard**: done, with proofs (`KeyboardProofs`).
9. Virtual terminals, if the order of jumps and releases can be said with a
    small part of the kernel's own rules; the framing of the helper channel.

## 3. Modules

### Login

One Display, its Auth object and the helper, with PAM and the session process.
A helper run is named by the number of the Login message that started it
(`attempt`), and has a channel in each direction (`up[a]`, `down[a]`).

- The daemon is one event loop: each of its actions is one event with everything
  its slots do. `DataPending` is the whole of `Auth::Private::dataPending` with
  the slots of Display that the message reaches, and the reply. `ChildExited`
  is `childExited` with `slotHelperFinished` and `Display::stop`. `Stop`,
  `StopTimeout` and `ChildExited` share the flag `stopping`, in which
  the event loop does not turn: `Auth::stop` waits for the process only.
- The helper is sequential; `helper` says where in `doAuth` it is. In
  `Waiting` it is blocked in `SafeDataStream::receive` and neither SIGTERM nor
  the end of its socket get through to it. `HelperCrashes` may come at any step.
- PAM may answer anything: prompts (at most `MaxRounds` messages), an error,
  acceptance, refusal, and failure of setcred or open_session.

Left out: autologin (in Display), texts, INFO messages, environment and cookie,
the choice of a VT, DISPLAY_SERVER_STARTED (handled by the daemon, sent by
nobody). The time limits inside `UserSession::stop` are not modelled: the
session ends, then the PAM session is closed, unless the helper is killed first.

### Display and Seat

A seat with several Display objects. Slots nest, so `stack` holds the calls that
are still to be made before the event loop turns again; `Display::stop` is one
action for each of its lines. When it waits for a process, the process ends
(`GreeterStops`, `AuthStops`: the slots for the end come first on the stack) or
it does not, within five seconds (`StopGreeterTimeout`, `StopAuthTimeout`). Init
is the constructor of Seat.

Three display servers: `x11`, run by the daemon, may fail to start and may die;
`x11-user` and `wayland` always "start" and are part of the greeter's process,
whose exit codes stand for their failures (`GreeterEnd`). A display that could
not start is tried three times. Autologin takes place once (or always, with
Relogin) and its failure starts the greeter.

Left out: VT numbers and jumps, scripts, test mode, the deletion of a seat.
Deferred deletes run before the next event. A greeter's helper that is killed
between its SESSION_STATUS and the answer is not modelled.

What the model says beyond its properties: a display whose greeter ends with a
code that `onHelperFinished` does not know (0, 1, 3, 6 and above) stays without
a greeter, started, until something else stops it; a display whose socket could
not be given to the greeter's user never counts as started. `SeatComesBack`
names the second case (`GivenUp`), and does not ask for a greeter because of the
first. The branch of `createDisplay` that ends the daemon with code 12 is
unreachable: the helper for x11-user never ends with the code that leads there.

### SeatManager

logind, the bus, SeatManager with its LogindSeats, and the seat objects of
DisplayManager. `calls` are the daemon's calls and subscriptions in the order
it made them; a subscription is handled by the bus, so it may overtake a call,
calls are answered in order, and what logind sends arrives in order. The slots
are `ReceiveList`, `ReceiveSeatNew`, `ReceiveSeatRemoved`,
`ReceivePropertiesChanged` and `ReceiveGet`. `Asked` is what the constructors of
new LogindSeats send. `Erase` is the loop of
`DisplayManager::RemoveSeat` as it runs, on a list that shrinks under it.

`raced` remembers that a seat came or went before both the list was made and
the subscription was there. In that case the code can end with two Seats for a
name, with a seat logind does not have, or without one it has; the properties
say so, and `AllSeatsKnown` shows it. Without logind
`initialize` creates seat0 and nothing else happens: not modelled. ListSeats is
assumed to be answered without an error.

`missed` remembers that a seat lost its graphics while the daemon had heard, or
was about to hear, that it has them, and was not listening: between the end of
its subscription to the seat of that name that went and the start of the one to
the seat that came. `LogindSeat::propertiesChanged` emits `canGraphicalChanged`
for every change it hears, so a seat that then gets its graphics again is
announced as graphical twice and gets two Seats. That takes five changes of one
seat; it came to light in the proof, and `OneSeatEach` excludes it by name.
`GraphicalSeatsOnly` and `CatchesUp` hold all the same: the set `m_seats` is
right, only the Seats behind it are too many.

### Conversation and Prompting

What PAM asks for and what it is told, of which Login only counts the requests.
`Converse` is PAM calling the helper with any messages, in the three functions
that `authenticate` and `acctMgmt` run; the loops of `PamBackend::converse` are
taken message by message (`InsertKnown`, `InsertNew`, `HandleInfo`,
`HandleError`, then `GetResponse`), with the request to the daemon between them
(`EndInsert`, `ReceiveRequest`, `CompleteRequest`). `current` and `sent` stay
from one call to the next, which is where predictions meet what PAM really asks.
The daemon may end at any moment; a helper that is blocked then tells PAM that
the conversation failed.

A prompt is the type that `detectPrompt` gives it, and a response is the user
name, the password or nothing. Prompts of one type count as the same though
their texts differ, which is how `findPrompt` treats them; that two prompts of
different types can have the same text, one shown and one hidden, is left out.
From the second message of a call on, `resp[i]` is memory of the caller: the
helper crashes or PAM gets nothing for it.

`Prompting` is what PAM may expect: a question is answered with one of the
answers meant for it, or given up. `PamView` maps the conversation to it:
the question is the prompt that came alone, the answer what the call returned.
It asks the right answers of logins only, since the code does not give them to
password changes: their prompts are filled by number, so a new password
(`CHANGE_NEW`, "The new one" in `auth/AuthPrompt.h:56`) is answered with the user
name and its repetition with the old password, and the three prompts of a change
that needs the current one are not answered at all. The first of several
messages may get any answer too. The comment "we have a response already"
(`helper/backend/PamBackend.cpp:117`) holds except after "Changing password for"
while answers of a login were left (`announced`): PAM then gets an empty answer.

### UserSession, Launcher, StartX11User and StartWayland

What `session` is to Login: the process that sddm-helper starts. It is one of
the two programs that run a display server and its client (a greeter, or a
session under a user's X server), or the session itself (`plain`). Launcher has
what the programs share, the two modules their own steps, and UserSession puts
them under the helper, which starts the process (`Start`, with what the child
does before exec), hears of its end, and stops it.

`launcher` says where a program is. Until `loop` it is sequential code that
blocks: reading the X server's display number, running scripts, waiting for a
process to start; SIGTERM and the ends of processes are only noticed in the
loop, so `server` and `client` tell an end from one that is known. What calls
`quit()` or `exit()` before the loop is lost: a display script that fails has
no effect, one that had to be killed ends the program. After the loop comes
what `aboutToQuit` and the destructors stop. The socket watcher is there with
its flags: what is watched, the timer, and whether anyone listens to it; a
socket that an earlier compositor left is taken for the new one.

All time limits may expire at any moment. Left out: a process that survives
SIGKILL, the environment, log files and texts, and what the kernel's hangup of
the terminal does to the processes of a program that was killed.

`Stuck` names what the code lets happen: the X server cannot be executed, does
not answer, or ends with code 0 before it has; the runtime directory cannot be
watched; sddm-helper-start-wayland cannot be executed, which `start` takes for
"probably fine" (`helper/UserSession.cpp:139`). The helper then reports a session
that has nobody to show it, until the display is stopped. A client that cannot
be executed has the same effect.

### GreeterChannel and PowerManager

Login takes its messages from the greeter as given; this is where they come
from. A message is a sequence of tokens, numbers and texts, as SocketWriter
writes them. `toDaemon` and `toGreeter` are what is under way;
`DeliverToDaemon` and `DeliverToGreeter` hand over any part of it, and the slot
that reads (`DaemonReads`, `GreeterReads`: one turn of the loop in `readyRead`)
goes on until nothing is left of what has come. `ReadMessage` is QDataStream
without a transaction: a field that is missing is empty, and from a field of the
wrong kind on the rest is taken for nothing. `sent`, `handled`, `answers` and
`heard` are histories of both ends, `cut` remembers that a message came in
pieces.

What a piece of a message may be taken for is part of the model, not excluded
from it: when a Login is cut before the type of its session, what comes next is
read as a message, and 2, the type of a Wayland session, is PowerOff; the number
of a set of capabilities may be LoginSucceeded. Local sockets seldom cut
messages of this size, but nothing in the code keeps them from it.

The greeter (`GreeterApp`) starts, makes a view for each screen, closes them
when a login succeeded, and ends with the last view or with its connection. A
view that is removed with its screen (`ScreenChanges`) is deleted and not
closed: a greeter that hears of a login with no view left goes on until the
daemon stops it. `StartAuth` is as much of `Display::startAuth` as can be seen
from here. PowerManager is a module of operators and one history, `acts`; the
services may answer differently each time they are asked, so an operation that
was offered may be gone when it is asked for, or be another back end's.

What a connected greeter has received it handles to the end of the loop, also
when a message of it has closed the views: `quit` takes effect when the slot has
returned. A session file is assumed to have a name, which is a file's in the
source (`ChannelAssumption`); the empty one is the session of no file.

Left out: a second connection to the same server, bytes inside a token, the
test mode, informationMessage's sender (`Display::slotAuthError` and
`slotAuthInfo`, of which a bounded number comes at any time).

### Remember, ConfigReader, SessionModel and UserModel

From a login to the next greeter. ConfigReader says what loading a file does to
the memory (`LoadInternal`) and what saving the memory does to a file
(`Saved`): lines are rewritten, entries that are missing are added to their
section, sections that come twice are merged, unknown ones go to the end.
SessionModel says which file a session's name stands for and which sessions are
listed, UserModel which users; the loops of both, and of a save, that leave out
some entries of a list are `Sublist`. The operators of ConfigReader take a memory
and its default values, since there are two configurations: Remember has the main
one and state.conf, and the actors: the daemon, the administrator, and a greeter.

- `Load` is `ConfigBase::load`: the modification times of all files and
  directories, then all files in order over the values of the memory.
- `Save` begins a save: the file is read, and truncated when something has
  changed. `SaveEnds` is the flush when the file is closed, which may fail. In
  between the daemon may die and a greeter may start.
- The greeter reads state.conf once and lists the sessions again when their
  directories change (`Refreshes`), with `lastIndex` kept when the last session
  is not found.

Left out: comments and blank lines (they are moved with the line after them), a
value with a # in it, a last line without an end, types of values, the forms of
`save` for one section or one entry, which nothing calls. What the code does
not promise and the properties leave out: a setting that is removed from a file
keeps its value until the daemon starts again; when there are more users than
`DisableAvatarsThreshold` the last user is listed even if hidden.

### Keyboard

The greeter's keyboard and the X server. `locks`, `group` and `keymap` are the
server's; `cached`, `layout_id` and `layouts` the greeter's; `events` what the
server has sent and the greeter has not handled, of which the first `read` are
in libxcb's queue already. The greeter is one thread, and `pc` says where in the
code it is: it connects, reads names and state, selects events, sets num lock,
then listens; in between come the user's keys, new keyboards and the theme.
`sendChanges` is two steps, the request (`LatchLockState`) and the wait for its
error (`ChangesSent`), which reads events that nobody will be woken for.
`unsaid` remembers what has changed without an event.

A keymap is a sequence of groups with the length of their names in the name of
the symbols and of what stands between them, which is what `parseShortNames`
depends on. On Wayland nothing is known and nothing happens.

## 4. Runs

| Run | Instance | Shows |
|---|---|---|
| Login | 2 Logins, 1 PAM message each, 1 or 3 prompts, exit codes 0 and 1, ReuseSession | eight properties below |
| LoginAnswer | the same, without ReuseSession | a documented promise the code does not keep |
| LoginReuse | the same, with ReuseSession | the same, for returning to a session |
| Seat | 3 display objects, at most 2 listed, default x11 or wayland, autologin | five properties below |
| SeatFallBack | the same | the fallback that a comment promises does not come |
| SeatManager | 2 seats, 4 changes | four properties below |
| Conversation | 3 calls of 1 or 2 messages, every type of prompt | four properties below |
| UserSession | one process of each kind, codes 0 and 1 for plain sessions | five properties below |
| GreeterChannel | 2 requests, 1 information message, 1 screen, 2 back ends, 2 operations, a session of each type | five properties below |
| Remember | 2 files of sddm.conf, 2 changes, 2 logins, 3 session files, 2 users, clock to 2 | six properties below |
| Keyboard | 2 keymaps of 1 and 2 layouts, 2 locks, 3 keys, 1 request of the theme | three properties below |
| KeyboardNames | a keymap of 4 layouts | a layout gets the name of another |

**Login.** Two Logins are what it takes for one helper to interfere with
another: a third adds a third helper, which meets the second as the second met
the first, since at most one helper runs at a time and only left-over messages
of earlier ones are there. One prompt is filled in by the daemon and three are
not; the codes 0 and 1 are the two that `slotHelperFinished` tells apart.

- `RepliesMatch`, `SessionAfterSlot`, `SuccessIsGenuine`: also proved, see 6.
- `NothingLeftOpen`: a helper that is not killed leaves no PAM session and no
  session process. Also proved.
- `NoFailureAfterSuccess` (an action property): after a success, trouble with
  the session is not reported as a failed login. Also proved.
- `StopCompletes`: the wait of `Auth::stop` ends although it blocks the loop
  that a blocked helper waits for; the kill after five seconds is what ends it.
- `LoginResolves`: a Login is answered, except when PAM asks for more than two
  prompts, which the code never answers: the helper then waits until the display
  is stopped.

**Seat.** Three objects: two listed displays and one that waits for its delete.
`TtyLimit` is 1 (5 in the code), so that the run goes past the limit.

- `NoLostDisplay`, `OneReplacement`: however stop, removal and replacement nest,
  the list is exact, what is not started runs nothing, and a stop is answered by
  one new display.
- `StopsEnd`, `SeatComesBack`: the nesting ends, and the seat comes back to a
  started display or to one that the code gives up.

**SeatManager.** Four changes are a seat that goes, comes back, gets its graphics
device and loses it, or two that cross. What takes more of them is the proof's,
which has no bound.

- `OneSeatEach`, `GraphicalSeatsOnly`, `CatchesUp`: one Seat for each graphical
  seat, none for the others, the same on D-Bus; and the daemon catches up.

**Conversation.** What a call leaves behind is prompts of a prediction, with
answers, without, or announced; a second call meets each, and a third meets what
the second made of it. Calls of two messages are the smallest on which
prediction is off and the order of messages counts.

- `SentAreAnswered`: while `m_sent` is set every stored prompt has a response.
  Also proved, see 6.
- `AnswersRight`: the refinement of Prompting. Also proved, see 6.
- `CallReturns`: a call returns, unless the daemon got three prompts, as in a
  password change that needs the current one.

**UserSession.** Nothing is bounded: a helper starts one process, and that one
server and one client.

- `NothingLeftRunning`: also proved, see 6.
- `EndsWithItsParts`: the end of the client or a failure of the server, at any
  time, ends the program; without it a display would stay dark.
- `ClientOrEnd`: a process gets to its client or ends, except in `Stuck`.
- `StopEnds`: a stop ends, wherever the program is blocked.

**GreeterChannel.** Two requests are a Login and what is sent behind it, two
back ends one that loses an operation and one that takes it over. The sessions
are of both types, since the number of a type is what a cut Login leaves behind.

- `InOrder`: as long as no message was cut, what was handled is what was sent,
  in order, on both sides; so nothing is handled twice, and once a slot returns
  nothing that came is left unread.
- `LoginsAreGenuine`: a Login that reaches PAM is one that the greeter sent,
  with its own password and session, cut messages or not.
- `ActsOnceAsked`: an operation is done at most once for each message handled
  that asks for it, however many back ends have it. All three also proved, see 6.
- `GreeterEnds`: a greeter does not outlive the server it is connected to.

**Remember.** Two changes are one of the configuration and one of the session
files, or two of either; with the clock at most 2 an edit may be newer than the
last load, in the same tick, or older. The state files to start with have
doubled sections, doubled lines and foreign ones.

All six are also proved, for files and lists of any size, see 6.

- `SavedIsLoaded`, `NothingLost`, `SaveIsStable`: what is saved is what is
  loaded; what others keep in the file stays readable; a save after a save does
  not open the file again.
- `LoadedIsCurrent`: after a load the memory has what the files say, for entries
  that any of them has, unless no edit since the last load left a newer time.
- `LastIsOffered`: a greeter lists just what can be offered, and the last user
  and session are selected.

**Keyboard.** One request of the theme can meet each of the user's keys before,
in and after it; a second would meet the same.

- `InStep`, `OnlyWhatWasAsked`: also proved, see 6.

### Where code and documentation differ

- **EveryLoginAnswered** (`docs/THEMING.md:48`): a Login whose predecessor still
  has a helper, or that names a session without a command, is dropped without an
  answer.
- **ReuseOpensNoSession** (`common/Configuration.h:99`): Auth keeps the session
  path of an earlier Login, so a Login that should return to a session starts a
  new one.
- **FallsBack** (`daemon/Seat.cpp:62`): an X server that cannot be started three
  times leaves a dead display; the signal that the fallback waits for is only
  emitted for greeters.
- **NamesMatch** (`greeter/XcbKeyboardBackend.cpp:277`): the loop over the
  matches finds some of them twice; the fourth of four layouts gets the short
  name of the third.

Three more definitions state what a comment or a document says and the code does
not do. They have no run of their own; each can be put into the configuration
of its module's run as an invariant, and TLC then shows how it fails.

- `SuccessReported` of Login (`docs/THEMING.md:54`): the late refusal of an
  earlier attempt clears `m_socket`, and the success of the next one is not sent.
- `KeptOnlyForAuthError` of Login (`daemon/Display.cpp:534`): a session that ends
  with code 1 is taken for an authentication error, and the display is not
  restarted.
- `AllSeatsKnown` of SeatManager (`daemon/SeatManager.h:51`): a seat that comes
  between the list and the subscription is not known.

## 5. Fairness

- Login: `WF` on the daemon's reactions and on the helper's own steps. Both are
  event loops the kernel schedules; PAM modules are taken to return, and the
  timer of `Auth::stop` expires. Users, greeters, crashes, ends of sessions and
  stops of the display are not fair: they may never come.
- Seat: `WF` on the daemon: its calls, its timers and its deferred deletes. No
  process is assumed to end or to start: a wait is ended by its time limit.
- Conversation: `WF` on the helper, which runs or is blocked in a read, and on
  the daemon's receipt of a request. PAM need not call again, nor the daemon end.
- UserSession: `WF` on the programs and on the helper, and of its own on the
  timer of the socket watcher, since files may come and go for ever. Servers,
  clients and sessions need not start, answer or end.
- GreeterChannel: `WF` on the reading slots, on the delivery of what is under
  way and of the end of a connection, and on the greeter's start. Requests,
  screens, answers and ends are not fair.
- Remember and Keyboard have no liveness properties and no fairness.
- SeatManager: `WF` on the bus, on logind's answers and on the daemon. Seats may
  change at any time or never.

Deadlock is not checked: the bounds on Logins, calls and changes end behaviours,
a daemon that quit stops for good, and so does a helper that is over.

## 6. Proofs

`LoginProofs` proves, from `LoginAssumption` alone (the bounds are naturals,
prompt counts are positive, exit codes are naturals) and so for any number of
Logins, PAM messages and prompts:

- `TypeCorrect`: `Spec => []TypeOK`.
- `LoginInvariant`: `Spec => []LoginInv`, and from it `RepliesAlwaysMatch`,
  `SessionAlwaysAfterSlot` and `SuccessAlwaysGenuine`.

None of the three is inductive alone. `RepliesMatch` speaks of the replies on
their way, but whether the next reply is right depends on the questions: that
there is only one, the last message of the helper that runs (`ExchangeInv`), and
that helpers that are over left none behind (`OverInv`; it holds since a helper
that is blocked can only be killed or stopped with the display, never end with
HELPER_AUTH_ERROR, the one code after which the display goes on).
`SuccessIsGenuine` needs that an AUTHENTICATED on any channel was sent by a
helper that PAM accepted, and that only the running helper's can still ask
(`AcceptedInv`, `AttemptInv`). The proof has a lemma for each group of actions;
the channel lemmas (`EndsInAskConcat`, `AskIsCurrent`, ...) say what sending and
taking does to a queue that ends in its only question.

`NothingStaysOpen` (`[]NothingLeftOpen`) needs one thing more: at the steps of
the helper before it opens a session nothing is open (`LeftInv`), so the exits
from there leave nothing, and those from later steps close what they have.
`NoLateFailure` (`NoFailureAfterSuccess`) rests on `HeardInv`: no result is for
a Login that has not come, and while `m_socket` is set the current Login has not
had a success; a failure of a helper goes out only through `m_socket`.

`UserSessionProofs` proves, for any exit codes of sessions, `TypesCorrect`
(`[]TypeOK`) and `NothingIsLeftRunning`. The latter is not inductive: that a
program has stopped everything when it ends depends on where it has been.
`ProcessInv` says at which places of the program a server and a client can be
running, as long as nobody killed it; each program's steps, the shared ones of
the loop, the helper's and the environment's keep it. Flags and exit codes are
typed by lemmas of their own, away from the places.

`KeyboardProofs` proves, for any keymaps with a layout, any number of keys and
requests and any setting of num lock, `KeyboardTypes` (`[]TypeOK`),
`KeyboardInStep` (`[]InStep`) and `KeyboardOnlyWhatWasAsked`. They rest on
`Inductive`: whatever is not in `unsaid` is in the cache already or announced by
an event that is still to be handled, the last of its kind telling the state the
server has now. `InStep` is the case with no events left.

`ConversationProofs` proves, for any number of calls and of messages in a call,
`ConversationTypes` (`[]TypeOK`), `SentAlwaysAnswered` (`[]SentAreAnswered`) and
`AnswersAlwaysRight`, the refinement of Prompting. The refinement is far from
inductive: `Display` fills in a request by the number of its prompts, so an
answer is right only for what was asked together with it, and requests are built
from prompts that earlier calls have left. `AnswersInv` says what these can be.
While `m_sent` is not set nothing is left but the three prompts of an announced
change (`InsertInv`, `BetweenInv`); so a request of one or two prompts is a
predicted dialogue, when the call has one message, or different prompts that
this call asked for (`Fresh`), and a longer one the daemon does not answer
(`AskInv`). What comes back then has the right answers for a login, or belongs
to a call of several messages that takes all of it out again before it returns
(`RespondInv`), so that nothing wrong is left for the next call. That the prompt
which `getResponse` finds is the first of its type rests on the well-foundedness
of the places (`FirstPlace`).

`SeatProofs` proves, for any number of display objects and any bounds, `Types`
(`[]TypeOK`), `KeepsDisplays` (`[]NoLostDisplay`) and `ReplacedOnce`
(`[]OneReplacement`). The properties are about a daemon back in its event loop;
the invariant `SeatInv` says what holds in the middle of nested calls. The calls
on the stack are all about one display and come in a few orders (`StackInv`);
the signals of that display are blocked from `removeDisplay` to the end of its
`stop`, and by the time something creates a display it has stopped
(`BlockedInv`); an object stays listed until it is removed and exists until it
is deleted, and one that is needed is created by a call that is still to come
(`ObjectInv`); so there are never more than the last event allows (`CountInv`),
and greeters that fail on a tty are counted once (`TtyInv`). Each is about a
stack of any depth; steps inside of calls are treated together (`Inner`), the
ones that change the list by themselves.

`SeatManagerProofs` proves, for any finite set of seats and any number of
changes, `Types` (`[]TypeOK`), `OnlyOneEach` (`[]OneSeatEach`) and `GraphicalOnly`
(`[]GraphicalSeatsOnly`). What the daemon believes of a seat is wrong most of
the time, so the invariant is about what it is going to believe: a `Forecast` is
what it takes for CanGraphical after each message that is on its way to it
(`Hears`, one step). The forecast ends in what logind has, or the daemon will
have asked (`Settles`); a question comes after the subscription, so a change is
seen by one of them (`Listens`); no change to graphical is news twice, unless
`missed` (`Alternates`); a seat that is dismissed and there has its return on the
way (`Returns`); and no LogindSeat of an earlier seat of the name is left to
listen (`OneObject`). Each seat is followed alone: what a step does to the
messages about one seat leaves the forecasts of the others as they were. With
it the Seats are counted (`ExportedInv`). That `Erase`, which takes entries out of
the list it walks over, takes out the right one and nothing else, is proved by
induction over the turns of the loop (`EraseOne`), and so is what `Asked` sends.

`GreeterChannelProofs` proves, from `PowerAssumption` and `ChannelAssumption` and
so for any sessions, screens, back ends, and numbers of requests and messages,
`Types` (`[]TypeOK`), `GenuineLogins` (`[]LoginsAreGenuine`), `Order`
(`[]InOrder`) and `ActOnce` (`[]ActsOnceAsked`). They stand on what `ReadMessage`
takes (`ReadFinds`) and leaves (`ReadLeaves`), and on two views of a wire with
what has been delivered from it. While nothing was cut it is `Aligned` with the
history of its writer: it holds the messages that have not been read, token by
token, and a turn of the loop takes the first of them. Whether cut or not it is
`Framed`: a number of Login with two texts behind it is the start of a Login
that was written. That survives any cut, because a cut loses the front of a
message only, what follows a message begins with a number, and only a Login has
two texts in a row. So a Login whose session is usable, whose fields were then
all there, was written as it was read: `startAuth` itself refuses the session
that a cut Login is left with, and no file has the empty name. `InOrder` is
proved in two halves (`DaemonInOrder`, `GreeterInOrder`); both need that each
message written has the fields its reader takes. `ActsOnceAsked` is inductive
with the types; which back end comes first is found by induction (`ActIsOne`).

`RememberProofs` proves, from the assumptions of Remember, SessionModel and
UserModel and so for any files, lines, directories, session files and accounts,
`RememberTypes` (`[]TypeOK`), `SavedIsAlwaysLoaded` (`[]SavedIsLoaded`),
`NothingIsLost` (`NothingLost`), `SavesAreStable` (`SaveIsStable`),
`LoadsAreCurrent` (`[]LoadedIsCurrent`) and `LastAlwaysOffered`
(`[]LastIsOffered`). The assumptions say that sections, names and values are
texts, that a file is a sequence of lines, that a boolean of sddm.conf is written
as one, and that a type, a directory and a name make one session file, whose name
is not a path.

Nearly all of it is about the operators. What a save writes is described line by
line (`Laid`): where the line comes from, if it is an old one, and which section
it is in; the lines of one section stay in their order and follow its header,
every assignment of the old file is there once, and what remains is added at the
end of its section. That holds of what ConfigReader's `Saved` makes
(`SavedLaid`), by way of the order of the sections (`OrderProperties`), the data
of each (`BlockProperties`) and their concatenation (`FlattenSpreads`). From it
follow the three things that matter (`SavesWell`): a load gives the memory back,
another save would change nothing, and an entry that is not the memory's reads as
before. The list of sessions is treated likewise: names are listed once
(`EntryListIs`), each stands for the file in front of its name (`SetToFirst`), and
so the rows of a type are those files, if they are to be shown (`PopulateIs`).

The invariants are short then. `InMemory`: what is being written, or was, would
be loaded as what the daemon remembers. `Loads`: an edit that was said to be newer
makes the next load take all files, which gives the values of the most important
ones (`LoadFilesCurrent`). `Offers`: the rows are those of the disk as of the last
refresh, and each index is where the last one was found.

The proofs about loops over lists, here and in `SeatProofs` and
`SeatManagerProofs`, rest on three lemmas that each of these modules begins with:
of some numbers one is the least (`Least`), induction up to a number in terms of
sets (`UpTo`), since the library's theorems on induction have operators as
parameters, and `Recursion`, that a recursive function on `0 .. n` is there and
does what its definition says.

All safety properties that the passing runs check are proved, `AnswersRight` of
Conversation, the refinement, among them. Only model-checked is liveness:
`StopCompletes` and `LoginResolves` of Login, `StopsEnd` and `SeatComesBack` of
Seat, `CatchesUp` of SeatManager, `CallReturns` of Conversation,
`EndsWithItsParts`, `ClientOrEnd` and `StopEnds` of UserSession, and `GreeterEnds`
of GreeterChannel. It needs fairness and ENABLED, which are out of the prover's
reach.

## 7. Not modelled

The components marked so in `PROJECT.json`, with their reasons there: virtual
terminals, which are the kernel's more than the program's; the daemon
application, utmp, user interface, themes, translations, build, which have no
behaviour of their own to check. Of the components marked "partly" the parts
that are left out are named there and in section 3. Three hazards of the list
have no property: the framing of the helper channel, whose messages are whole in
Login; the exit code that a session shares with its helper, of which
`KeptOnlyForAuthError` shows the effect; and the list of seats that is asked for
before the subscription, which `AllSeatsKnown` shows.
