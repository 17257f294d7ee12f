------------------------------ MODULE Remember ------------------------------
(***************************************************************************)
(* Who logged in last and with which session, from the login to the next   *)
(* greeter: the daemon reads sddm.conf again with every new display, keeps *)
(* the last login in its memory and writes it to state.conf; a greeter     *)
(* reads that file once, when it starts, and offers the sessions and users *)
(* that it finds, with the last ones selected.  It reads the directories   *)
(* of the sessions again when they change.                                 *)
(*                                                                         *)
(* The daemon has one thread: nothing of it runs while it saves, but       *)
(* greeters do, and it may crash.  Several displays of the daemon log in   *)
(* here; one greeter is followed.                                          *)
(***************************************************************************)
EXTENDS ConfigReader, SessionModel, UserModel

CONSTANTS
    Places,         \* the files of sddm.conf, from the least important to
                    \* m_path: their names
    DirOf,          \* the directory of each, "none" for m_path
    Contents,       \* what the administrator may write there
    InitialFiles,   \* what state.conf may be at first
    Passwds,        \* what the accounts may be
    Autologin,      \* Autologin.User and Autologin.Session
    MaxClock, MaxChanges, MaxLogins     \* bounds; MaxChanges is one for what
                                        \* the administrator does

ASSUME RememberAssumption ==
    /\ Places # <<>> /\ Places \in Seq(STRING)
    /\ DirOf \in [ToSet(Places) -> STRING]
    /\ {i \in DOMAIN Places : DirOf[Places[i]] = "none"} = {Len(Places)}
    /\ MaxClock \in Nat \ {0} /\ {MaxChanges, MaxLogins} \subseteq Nat

VARIABLES
    \* the files of sddm.conf
    clock,          \* what a modification time is taken from
    conf,           \* those there are: their lines and modification times
    dirTime,        \* the modification times of the directories
    \* the daemon
    daemon,         \* "up", "down"
    main,           \* mainConfig: values, m_fileModificationTime
    state,          \* stateConfig
    edited,         \* since the last load: "no", "newer" when every edit has left
                    \* a newer time than it has loaded, "unseen" otherwise
    logins,
    \* state.conf
    file,
    saving,         \* it is truncated and not written yet
    writing,        \* what will be written
    unsaved,        \* it does not have what the daemon remembers
    \* the session files
    disk,
    changes,        \* how much the administrator has done
    \* the greeter
    greeter,        \* "off", "on"
    seen,           \* its stateConfig
    sessions, lastIndex,
    stale,          \* directoryChanged has not been handled
    passwd,         \* the accounts that it saw
    users, lastUserIndex

confVars == <<clock, conf, dirTime>>
daemonVars == <<daemon, main, state, edited, logins>>
fileVars == <<file, saving, writing, unsaved>>
greeterVars == <<greeter, seen, sessions, lastIndex, stale, passwd, users,
                 lastUserIndex>>
vars == <<confVars, daemonVars, fileVars, disk, changes, greeterVars>>

-----------------------------------------------------------------------------
\* Configuration.h: the entries that matter here.

RememberUser == <<"Users", "RememberLastUser">>
RememberSession == <<"Users", "RememberLastSession">>
LastUser == <<"Last", "User">>
LastSession == <<"Last", "Session">>

MainEntries == {RememberUser, RememberSession}
StateEntries == {LastUser, LastSession}
MainDefault == [e \in MainEntries |-> "true"]
StateDefault == [e \in StateEntries |-> ""]

\* The texts that files are made of: those of the program are texts, too.  A value
\* of sddm.conf that is read as a boolean is written as one.
Line == [section : STRING] \union [name : STRING, value : STRING]

ASSUME TextAssumption ==
    /\ MainEntries \union StateEntries \subseteq STRING \X STRING
    /\ {General, ""} \subseteq STRING
    /\ \A f \in InitialFiles \union Contents : f \in Seq(Line)
    /\ \A f \in Contents, e \in MainEntries : Reads(f, e) \subseteq {"true", "false"}
    /\ DOMAIN Files \subseteq STRING
    /\ \A a \in Passwds :
          a \in Seq([name : ToSet(UserNames), uid : Nat, shell : STRING])
    /\ Autologin.user \in STRING

-----------------------------------------------------------------------------
\* ConfigBase::load of the main configuration.

Directories == {DirOf[p] : p \in ToSet(Places)} \ {"none"}

LatestModificationTime ==
    Max({0} \union {conf[p].time : p \in DOMAIN conf}
            \union {dirTime[d] : d \in Directories})

\* All files, in their order, over what the memory has.
LoadFiles(values) ==
    LET load[k \in 0..Len(Places)] ==
            IF k = 0 THEN values
            ELSE IF Places[k] \in DOMAIN conf
            THEN LoadInternal(conf[Places[k]].lines, load[k - 1])
            ELSE load[k - 1]
    IN  load[Len(Places)]

\* Fault: a directory's own time is not looked at.
LoadByFiles(config) ==
    LET latest == Max({0} \union {conf[p].time : p \in DOMAIN conf})
    IN  IF latest <= config.time THEN config
        ELSE [values |-> LoadFiles(config.values), time |-> latest]

Load(config) ==
    IF LatestModificationTime <= config.time
    THEN config
    ELSE [values |-> LoadFiles(config.values), time |-> LatestModificationTime]

\* Seat::createDisplay, and XorgDisplayServer::setupDisplay: the daemon loads
\* it again.
ReloadsConfig ==
    /\ daemon = "up" /\ ~saving
    /\ main' = Load(main)
    /\ edited' = IF edited = "unseen" /\ main' = main THEN "unseen" ELSE "no"
    /\ UNCHANGED <<confVars, daemon, state, logins, fileVars, disk, changes, greeterVars>>

\* The process starts: both configurations are constructed and loaded.
DaemonStarts ==
    /\ daemon = "down"
    /\ daemon' = "up"
    /\ main' = Load([values |-> MainDefault, time |-> 0])
    /\ edited' = "no"
    /\ state' = LoadInternal(file, StateDefault)
    /\ unsaved' = FALSE
    /\ UNCHANGED <<confVars, logins, file, saving, writing, disk, changes, greeterVars>>

-----------------------------------------------------------------------------
\* The administrator.

\* What is left behind by an edit, and whether any of it is newer than what was
\* loaded.
Edit(place, lines, time, touched) ==
    /\ changes < MaxChanges
    /\ changes' = changes + 1
    /\ conf' = [p \in (DOMAIN conf \ {place}) \union (IF time = 0 THEN {} ELSE {place}) |->
                   IF p = place THEN [lines |-> lines, time |-> time] ELSE conf[p]]
    /\ dirTime' = [d \in Directories |->
                      IF touched /\ d = DirOf[place] THEN clock ELSE dirTime[d]]
    /\ edited' = IF /\ edited # "unseen"
                    /\ \/ time > main.time
                       \/ touched /\ DirOf[place] # "none" /\ clock > main.time
                 THEN "newer" ELSE "unseen"
    /\ UNCHANGED <<clock, daemon, main, state, logins, fileVars, disk, greeterVars>>

\* A file is made or written; a new one touches its directory.
WritesConf ==
    \E p \in ToSet(Places), lines \in Contents :
        Edit(p, lines, clock, p \notin DOMAIN conf)

\* A file is replaced by an older one.
RestoresConf ==
    \E p \in ToSet(Places), lines \in Contents, t \in 1..(clock - 1) :
        Edit(p, lines, t, TRUE)

RemovesConf == \E p \in DOMAIN conf : Edit(p, <<>>, 0, TRUE)

Ticks ==
    /\ clock < MaxClock
    /\ clock' = clock + 1
    /\ UNCHANGED <<conf, dirTime, daemonVars, fileVars, disk, changes, greeterVars>>

-----------------------------------------------------------------------------
\* Display::slotAuthenticationFinished with success: the last user and session,
\* and ConfigBase::save, which reads the file, makes up what it should be, and
\* when that is something else truncates it.  The open may fail.

Remembered(user, session) ==
    [e \in StateEntries |->
        IF e = LastUser
        THEN IF main.values[RememberUser] = "true" THEN user ELSE ""
        ELSE IF main.values[RememberSession] = "true" THEN session ELSE ""]

Save ==
    \/ /\ ~Changed(file, state', StateDefault)
       /\ unsaved' = FALSE
       /\ UNCHANGED <<file, saving, writing>>
    \/ /\ Changed(file, state', StateDefault)
       /\ file' = <<>>
       /\ saving' = TRUE
       /\ writing' = Saved(file, state', StateDefault)
       /\ unsaved' = TRUE
    \/ /\ Changed(file, state', StateDefault)
       /\ unsaved' = TRUE
       /\ UNCHANGED <<file, saving, writing>>

LoginSucceeds(user, session) ==
    /\ daemon = "up" /\ ~saving
    /\ logins < MaxLogins
    /\ logins' = logins + 1
    /\ state' = Remembered(user, session)
    /\ Save
    /\ UNCHANGED <<confVars, daemon, main, edited, disk, changes, greeterVars>>

\* A login with a session that some greeter has offered.
UserLogin ==
    \E u \in UNION {NamesOf(p) : p \in Passwds}, s \in disk \cap Shown :
        LoginSucceeds(u, s)

\* An autologin, without a session in the configuration with the last one.
AutologinLogin ==
    /\ Autologin.user # ""
    /\ LET ref == IF Autologin.session # "" THEN Autologin.session ELSE state[LastSession]
       IN  \E s \in AutologinSession(ref, disk) : LoginSucceeds(Autologin.user, s)

\* The file is closed: what was written to its buffer gets to the disk, or finds
\* no room there.
SaveEnds ==
    /\ saving
    /\ saving' = FALSE
    /\ writing' = <<>>
    /\ \/ file' = writing /\ unsaved' = FALSE
       \/ UNCHANGED <<file, unsaved>>
    /\ UNCHANGED <<confVars, daemonVars, disk, changes, greeterVars>>

\* The daemon crashes, or ends.
DaemonDies ==
    /\ daemon = "up"
    /\ daemon' = "down"
    /\ saving' = FALSE
    /\ writing' = <<>>
    /\ UNCHANGED <<confVars, main, state, edited, logins, file, unsaved, disk, changes,
                   greeterVars>>

-----------------------------------------------------------------------------
\* The greeter.

\* Session files are installed and removed.
DiskChanges ==
    /\ changes < MaxChanges
    /\ changes' = changes + 1
    /\ \E p \in DOMAIN Files : disk' = IF p \in disk THEN disk \ {p} ELSE disk \union {p}
    /\ stale' = (greeter = "on")
    /\ UNCHANGED <<confVars, daemonVars, fileVars, greeter, seen, sessions, lastIndex,
                   passwd, users, lastUserIndex>>

\* stateConfig is loaded before main, and the models made by GreeterApp.
GreeterStarts ==
    /\ greeter = "off"
    /\ greeter' = "on"
    /\ seen' = LoadInternal(file, StateDefault)
    /\ sessions' = Sessions(disk)
    /\ lastIndex' = LastIndex(sessions', seen'[LastSession], 0)
    /\ stale' = FALSE
    /\ passwd' \in Passwds
    /\ users' = Users(passwd', seen'[LastUser])
    /\ lastUserIndex' = LastUserIndex(users', seen'[LastUser])
    /\ UNCHANGED <<confVars, daemonVars, fileVars, disk, changes>>

\* The directoryChanged of the watcher: the list is made anew, and lastIndex
\* stays what it was unless the last session is found.
Refreshes ==
    /\ greeter = "on" /\ stale
    /\ stale' = FALSE
    /\ sessions' = Sessions(disk)
    /\ lastIndex' = LastIndex(sessions', seen[LastSession], lastIndex)
    /\ UNCHANGED <<confVars, daemonVars, fileVars, disk, changes, greeter, seen, passwd,
                   users, lastUserIndex>>

GreeterEnds ==
    /\ greeter = "on"
    /\ greeter' = "off"
    /\ seen' = StateDefault
    /\ sessions' = <<>> /\ lastIndex' = 0
    /\ stale' = FALSE
    /\ passwd' = <<>> /\ users' = <<>> /\ lastUserIndex' = 0
    /\ UNCHANGED <<confVars, daemonVars, fileVars, disk, changes>>

-----------------------------------------------------------------------------
Init ==
    /\ clock = 1
    /\ conf = <<>>
    /\ dirTime = [d \in Directories |-> 1]
    /\ daemon = "down"
    /\ main = [values |-> MainDefault, time |-> 0]
    /\ state = StateDefault
    /\ edited = "no"
    /\ logins = 0
    /\ file \in InitialFiles
    /\ saving = FALSE /\ writing = <<>> /\ unsaved = FALSE
    /\ disk = DOMAIN Files
    /\ changes = 0
    /\ greeter = "off"
    /\ seen = StateDefault
    /\ sessions = <<>> /\ lastIndex = 0
    /\ stale = FALSE
    /\ passwd = <<>> /\ users = <<>> /\ lastUserIndex = 0

Daemon ==
    DaemonStarts \/ ReloadsConfig \/ UserLogin \/ AutologinLogin \/ SaveEnds \/ DaemonDies

Administrator ==
    WritesConf \/ RestoresConf \/ RemovesConf \/ Ticks \/ DiskChanges

Greeter == GreeterStarts \/ Refreshes \/ GreeterEnds

Next == Daemon \/ Administrator \/ Greeter

Spec == Init /\ [][Next]_vars

-----------------------------------------------------------------------------
(* Properties *)

\* The types of the variables.
TypeOK ==
    /\ clock \in 1..MaxClock
    /\ DOMAIN conf \subseteq ToSet(Places)
    /\ \A p \in DOMAIN conf : conf[p].lines \in Contents /\ conf[p].time \in 1..clock
    /\ dirTime \in [Directories -> 1..clock]
    /\ changes \in 0..MaxChanges /\ logins \in 0..MaxLogins
    /\ daemon \in {"up", "down"} /\ greeter \in {"on", "off"}
    /\ main.values \in [MainEntries -> {"true", "false"}] /\ main.time \in 0..clock
    /\ state \in [StateEntries -> STRING] /\ seen \in [StateEntries -> STRING]
    /\ file \in Seq(Line) /\ writing \in Seq(Line)
    /\ edited \in {"no", "newer", "unseen"}
    /\ saving \in BOOLEAN /\ unsaved \in BOOLEAN /\ stale \in BOOLEAN
    /\ disk \subseteq DOMAIN Files
    /\ passwd \in Passwds \union {<<>>}
    /\ ToSet(sessions) \subseteq DOMAIN Files /\ lastIndex \in Nat
    /\ ToSet(users) \subseteq ToSet(UserNames) /\ lastUserIndex \in Nat

\* Whoever loads state.conf finds there what the daemon remembers, unless a
\* save has just begun, has failed or was cut (ConfigReader.cpp:353): whatever
\* the file was like before, with sections that come twice, lines that assign
\* twice and settings that are not remembered any more.
SavedIsLoaded ==
    daemon = "up" /\ ~unsaved => LoadInternal(file, StateDefault) = state

\* A save keeps what is not its own: for whoever reads another entry, the new
\* file says what the old one said (ConfigReader.cpp:328 and 360).
NothingLost ==
    [][saving' /\ ~saving =>
          LET Foreign(f) == {<<SectionAt(f, i), f[i].name>> :
                                i \in {i \in DOMAIN f : ~IsHeader(f[i])}}
                            \ StateEntries
          IN  /\ Foreign(writing') = Foreign(file)
              /\ \A e \in Foreign(file) :
                    Reads(writing', e) = Reads(file, e)]_vars

\* A file that was saved is not changed by saving it again: no login that
\* changes nothing opens the gap of a save (ConfigurationTest.cpp: "the file
\* must not change on consecutive loads and reads").
SaveIsStable ==
    [][saving /\ ~unsaved' => ~Changed(file', state', StateDefault)]_vars

\* After a load the memory has what the files say, the most important one first,
\* for every entry that any of them has: unless an edit left nothing that is
\* newer than the load before, which is to remove m_path, to put an older file
\* in its place, and to do anything within the tick of that load
\* (ConfigReader.cpp:180).
LoadedIsCurrent ==
    daemon = "up" /\ edited = "no" =>
       \A e \in MainEntries :
          LET has == {i \in DOMAIN Places :
                         /\ Places[i] \in DOMAIN conf
                         /\ Reads(conf[Places[i]].lines, e) # {}}
          IN  has # {} =>
                Reads(conf[Places[Max(has)]].lines, e) = {main.values[e]}

\* Whether a greeter can offer a session: it is on the disk and to be shown,
\* and no directory before its own has a file of this name.
Offered(p) ==
    /\ p \in disk \cap Shown
    /\ Files[p].type = "wayland" => Dri
    /\ \A q \in disk : Files[q].type = Files[p].type /\ Files[q].name = Files[p].name
                          => Place(p) <= Place(q)

\* A greeter that has handled all changes of the directories has a row for just
\* the sessions that can be offered, each once, and the last session, if it is
\* among them, is the selected one; the last user, if the account is one to be
\* listed, is too, also when there are too many for all (UserModel.cpp:111).
LastIsOffered ==
    greeter = "on" =>
       /\ ~stale => /\ ToSet(sessions) = {p \in DOMAIN Files : Offered(p)}
                    /\ IsInjective(sessions)
                    /\ Offered(seen[LastSession]) =>
                          sessions[lastIndex + 1] = seen[LastSession]
       /\ \A i \in DOMAIN passwd :
             Listed(passwd[i]) /\ passwd[i].name = seen[LastUser] =>
                users[lastUserIndex + 1] = seen[LastUser]
=============================================================================
