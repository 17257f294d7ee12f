------------------------------ MODULE Keyboard ------------------------------
(***************************************************************************)
(* The keyboard of the greeter: greeter/KeyboardModel.cpp with its back    *)
(* ends XcbKeyboardBackend.cpp and waylandkeyboardbackend.cpp, and the num *)
(* lock that GreeterApp::startup sets.                                     *)
(*                                                                         *)
(* KeyboardModelPrivate is a cache of what the X server knows: the locks,  *)
(* the layout in use and the list of layouts.  It is read at the start,    *)
(* kept up to date by events, and written back whole whenever a theme      *)
(* changes one part of it.  The user's keys and the keyboards that are     *)
(* plugged in change the server at any time.                               *)
(*                                                                         *)
(* The events that the server has sent are one sequence.  The first `read' *)
(* of them libxcb has taken from the socket while it waited for a reply;   *)
(* Qt calls dispatchEvents only for a socket with something to read.       *)
(***************************************************************************)
EXTENDS Naturals, Sequences

CONSTANTS
    Keymaps,        \* keymaps of the server: sequences of groups
    Numlock,        \* the option of that name: "none", "on" or "off"
    MaxKeys,        \* bound on the keys and keyboards that change the server
    MaxSets,        \* bound on the changes that a theme makes
    Prefix          \* where the first group starts in a keymap's symbols

\* A group of a keymap: its name, the length of this name, and the length of
\* what follows it in the name of the keymap's symbols ("(intl)", ":2").
ASSUME KeyboardAssumption ==
    /\ \A k \in Keymaps : k \in Seq([name : STRING, length : Nat, tail : Nat])
                          /\ Len(k) > 0
    /\ Numlock \in {"none", "on", "off"}
    /\ MaxKeys \in Nat /\ MaxSets \in Nat /\ Prefix \in Nat

Locks == {"num", "caps"}

VARIABLES
    \* the X server and the way to it
    locks,          \* the locked modifiers
    group,          \* the effective group
    keymap,
    selected,       \* events are selected
    events,         \* events sent and not yet handled
    read,           \* how many of them wait in the queue of libxcb
    keys,           \* how often a key or a keyboard has changed the server
    \* KeyboardModelPrivate
    enabled,
    masks,          \* the locks whose indicator has a mask that is not 0
    cached,         \* numlock.enabled and capslock.enabled
    layout_id,
    layouts,        \* the short names
    \* KeyboardModel and what calls it
    backend,        \* "xcb", "wayland" or "none"
    pc,             \* where the greeter is
    asked,          \* what the theme changes: a lock, "layout", or "none"
    sets,           \* how often it did
    \* what the properties are about
    unsaid          \* parts of the server's state that changed without an
                    \* event that the greeter has still to handle

server == <<locks, group, keymap>>
channel == <<events, read>>
cache == <<cached, layout_id, layouts>>
vars == <<locks, group, keymap, selected, events, read, keys, enabled, masks,
          cached, layout_id, layouts, backend, pc, asked, sets, unsaid>>

-----------------------------------------------------------------------------
\* The short names of the layouts.

\* Where the "+" before a group stands in the name of the symbols, which is
\* like "pc+us(intl)+ru:2", counted from 0.
Start(k) ==
    LET at[i \in 1..Len(k)] ==
            IF i = 1 THEN Prefix
            ELSE at[i - 1] + 1 + k[i - 1].length + k[i - 1].tail
    IN  at

\* What re.match(text, pos) finds: the first group at pos or later.
Matching(k, pos) == {i \in 1..Len(k) : Start(k)[i] >= pos
                                       /\ \A j \in 1..(i - 1) : Start(k)[j] < pos}

\* XcbKeyboardBackend::parseShortNames: pos goes on by the length of a match
\* and not to its end.
ParseShortNames(k) ==
    LET last == Start(k)[Len(k)]
        from[pos \in 0..(last + 1)] ==
            IF Matching(k, pos) = {} THEN <<>>
            ELSE LET i == CHOOSE j \in Matching(k, pos) : TRUE
                     next == pos + 1 + k[i].length
                 IN  <<k[i].name>> \o IF next > last THEN <<>> ELSE from[next]
    IN  from[0]

\* XcbKeyboardBackend::initLayouts: one layout for each group, with the short
\* name at its place.
ShortNames(k) ==
    [i \in 1..Len(k) |->
        IF i <= Len(ParseShortNames(k)) THEN ParseShortNames(k)[i] ELSE ""]

-----------------------------------------------------------------------------
\* The X server.

StateNotify(l, g) == [type |-> "state", locks |-> l, group |-> g]
NewKeyboardNotify == [type |-> "keyboard"]

\* Parts of the state that change with no event to say so: events are not
\* selected yet, or selected for good and lost.
Tell(changed, es) ==
    /\ events' = IF selected THEN events \o es ELSE events
    /\ unsaid' = IF selected THEN unsaid ELSE unsaid \union changed

\* A key locks or unlocks a modifier.
KeyLock(l) ==
    /\ keys < MaxKeys
    /\ keys' = keys + 1
    /\ locks' = [locks EXCEPT ![l] = ~@]
    /\ Tell({"locks"}, <<StateNotify(locks', group)>>)
    /\ UNCHANGED <<group, keymap, selected, read, enabled, masks, cache,
                   backend, pc, asked, sets>>

\* A key changes the group.
KeyGroup ==
    /\ keys < MaxKeys
    /\ Len(keymap) > 1
    /\ keys' = keys + 1
    /\ group' = (group + 1) % Len(keymap)
    /\ Tell({"group"}, <<StateNotify(locks, group')>>)
    /\ UNCHANGED <<locks, keymap, selected, read, enabled, masks, cache,
                   backend, pc, asked, sets>>

\* A keyboard is plugged in or a keymap loaded.  A group that the new one has
\* not is wrapped.
NewKeyboard ==
    /\ keys < MaxKeys
    /\ keys' = keys + 1
    /\ \E k \in Keymaps \ {keymap} :
         /\ keymap' = k
         /\ group' = group % Len(k)
         /\ Tell({"layouts"} \union (IF group' = group THEN {} ELSE {"group"}),
                 <<NewKeyboardNotify>> \o
                 (IF group' = group THEN <<>> ELSE <<StateNotify(locks, group')>>))
    /\ UNCHANGED <<locks, selected, read, enabled, masks, cache, backend, pc,
                   asked, sets>>

-----------------------------------------------------------------------------
\* XcbKeyboardBackend::init.  Each request is answered before the next is made.

Init ==
    /\ locks \in [Locks -> BOOLEAN]
    /\ keymap \in Keymaps
    /\ group \in 0..(Len(keymap) - 1)
    /\ selected = FALSE
    /\ events = <<>>
    /\ read = 0
    /\ keys = 0
    /\ enabled = TRUE
    /\ masks = {}
    /\ cached = [l \in Locks |-> FALSE]
    /\ layout_id = 0
    /\ layouts = <<>>
    /\ backend \in {"xcb", "wayland", "none"}
    /\ pc = IF backend = "xcb" THEN "connect" ELSE "other"
    /\ asked = "none"
    /\ sets = 0
    /\ unsaid = {}

\* KeyboardModel::KeyboardModel on a platform without X: the Wayland back end
\* switches the model off, and with any other there is none.
OtherPlatform ==
    /\ pc = "other"
    /\ enabled' = (backend = "none")
    /\ pc' = "numlock"
    /\ UNCHANGED <<server, selected, channel, keys, masks, cache, backend,
                   asked, sets, unsaid>>

\* connectToDisplay: the extension may be missing.
ConnectToDisplay ==
    /\ pc = "connect"
    /\ \/ pc' = "leds" /\ UNCHANGED enabled
       \/ pc' = "select" /\ enabled' = FALSE
    /\ UNCHANGED <<server, selected, channel, keys, masks, cache, backend,
                   asked, sets, unsaid>>

\* initLedMap: an indicator may have no name or no map, its mask is then 0.
InitLedMap ==
    /\ pc = "leds"
    /\ \/ /\ masks' \in SUBSET Locks
          /\ pc' = "layouts"
          /\ UNCHANGED enabled
       \/ /\ pc' = "select"
          /\ enabled' = FALSE
          /\ UNCHANGED masks
    /\ UNCHANGED <<server, selected, channel, keys, cache, backend, asked,
                   sets, unsaid>>

\* initLayouts at the start.  What was changed before does not matter.
InitLayouts ==
    /\ pc = "layouts"
    /\ layouts' = ShortNames(keymap)
    /\ unsaid' = unsaid \ {"layouts"}
    /\ pc' = "state"
    /\ UNCHANGED <<server, selected, channel, keys, enabled, masks, cached,
                   layout_id, backend, asked, sets>>

\* What the masks let through of the locked modifiers.
Masked(l) == [m \in Locks |-> m \in masks /\ l[m]]

\* initState.
InitState ==
    /\ pc = "state"
    /\ \/ /\ cached' = Masked(locks)
          /\ layout_id' = group
          /\ unsaid' = unsaid \ {"locks", "group"}
          /\ UNCHANGED enabled
       \/ /\ enabled' = FALSE
          /\ UNCHANGED <<cached, layout_id, unsaid>>
    /\ pc' = "select"
    /\ UNCHANGED <<server, selected, channel, keys, masks, layouts, backend,
                   asked, sets>>

\* connectEventsDispatcher, called whatever init() came to.  The request
\* reaches the server ...
SelectEvents ==
    /\ pc = "select"
    /\ \/ selected' = TRUE /\ pc' = "selected" /\ UNCHANGED enabled
       \/ selected' = FALSE /\ pc' = "numlock" /\ enabled' = FALSE
    /\ UNCHANGED <<server, channel, keys, masks, cache, backend, asked, sets,
                   unsaid>>

\* ... and xcb_request_check waits for the answer.  Whatever comes before it
\* on the socket is read with it.
EventsSelected ==
    /\ pc = "selected"
    /\ read' = Len(events)
    /\ pc' = "numlock"
    /\ UNCHANGED <<server, selected, events, keys, enabled, masks, cache,
                   backend, asked, sets, unsaid>>

-----------------------------------------------------------------------------
\* Changes that the greeter makes.

\* The rest of a setter that has changed the cache: sendChanges of the back end
\* that there is.
SendChanges ==
    pc' = IF backend = "xcb" THEN "send" ELSE "listen"

\* setNumLockState and setCapsLockState: nothing happens if the cache says so
\* already.
SetLock(l, state) ==
    IF cached[l] = state
    THEN pc' = "listen" /\ UNCHANGED <<cached, asked>>
    ELSE cached' = [cached EXCEPT ![l] = state] /\ asked' = l /\ SendChanges

\* GreeterApp::startup.
StartNumlock ==
    /\ pc = "numlock"
    /\ IF enabled /\ Numlock # "none"
       THEN SetLock("num", Numlock = "on")
       ELSE pc' = "listen" /\ UNCHANGED <<cached, asked>>
    /\ UNCHANGED <<server, selected, channel, keys, enabled, masks, layout_id,
                   layouts, backend, sets, unsaid>>

\* A theme sets a lock.
ThemeSetsLock(l) ==
    /\ pc = "listen"
    /\ sets < MaxSets
    /\ sets' = sets + 1
    /\ \E state \in BOOLEAN : SetLock(l, state)
    /\ UNCHANGED <<server, selected, channel, keys, enabled, masks, layout_id,
                   layouts, backend, unsaid>>

\* KeyboardModel::setCurrentLayout, for a layout that the theme shows.
SetCurrentLayout ==
    /\ pc = "listen"
    /\ sets < MaxSets
    /\ sets' = sets + 1
    /\ \E id \in 0..(Len(layouts) - 1) :
         /\ layout_id # id
         /\ layout_id' = id
    /\ asked' = "layout"
    /\ SendChanges
    /\ UNCHANGED <<server, selected, channel, keys, enabled, masks, cached,
                   layouts, backend, unsaid>>

\* Fault: the mask names both locks and the value only the one to change.
LatchLockStateOnly ==
    /\ pc = "send"
    /\ locks' = [l \in Locks |-> IF l = asked THEN cached[l]
                                 ELSE IF l \in masks THEN FALSE ELSE locks[l]]
    /\ group' = layout_id % Len(keymap)
    /\ events' = IF selected /\ (locks' # locks \/ group' # group)
                 THEN Append(events, StateNotify(locks', group')) ELSE events
    /\ unsaid' = (unsaid \ {"locks", "group"})
                 \union (IF group' = layout_id THEN {} ELSE {"group"})
    /\ pc' = "check"
    /\ UNCHANGED <<keymap, selected, read, keys, enabled, masks, cache,
                   backend, asked, sets>>

\* sendChanges: xcb_xkb_latch_lock_state with all the locks that have a mask
\* and with the layout, whichever of them was to be changed.  The server sends
\* an event if this changes anything; a group that it has not is wrapped.
LatchLockState ==
    /\ pc = "send"
    /\ locks' = [l \in Locks |-> IF l \in masks THEN cached[l] ELSE locks[l]]
    /\ group' = layout_id % Len(keymap)
    /\ events' = IF selected /\ (locks' # locks \/ group' # group)
                 THEN Append(events, StateNotify(locks', group')) ELSE events
    /\ unsaid' = (unsaid \ {"locks", "group"})
                 \union (IF group' = layout_id THEN {} ELSE {"group"})
    /\ pc' = "check"
    /\ UNCHANGED <<keymap, selected, read, keys, enabled, masks, cache,
                   backend, asked, sets>>

\* xcb_request_check: the events that are there are read and left in the queue.
ChangesSent ==
    /\ pc = "check"
    /\ read' = Len(events)
    /\ asked' = "none"
    /\ pc' = "listen"
    /\ UNCHANGED <<server, selected, events, keys, enabled, masks, cache,
                   backend, sets, unsaid>>

-----------------------------------------------------------------------------
\* KeyboardModel::dispatchEvents.  The notifier fires if the socket can be read.
DispatchEvents ==
    /\ pc = "listen"
    /\ selected
    /\ read < Len(events)
    /\ pc' = "dispatch"
    /\ UNCHANGED <<server, selected, channel, keys, enabled, masks, cache,
                   backend, asked, sets, unsaid>>

\* Fault: a new keyboard is taken for a change of state only.
HandleEventKeepsLayouts(e) ==
    IF e.type = "state"
    THEN /\ cached' = Masked(e.locks)
         /\ layout_id' = e.group
         /\ unsaid' = unsaid \ {"locks", "group"}
         /\ UNCHANGED layouts
    ELSE /\ unsaid' = unsaid \ {"layouts"}
         /\ UNCHANGED cache

\* One event of its loop.
HandleEvent(e) ==
    IF e.type = "state"
    THEN /\ cached' = Masked(e.locks)
         /\ layout_id' = e.group
         /\ unsaid' = unsaid \ {"locks", "group"}
         /\ UNCHANGED layouts
    ELSE /\ layouts' = ShortNames(keymap)
         /\ unsaid' = unsaid \ {"layouts"}
         /\ UNCHANGED <<cached, layout_id>>

\* Fault: the event is handled and stays in the queue.
PollForEventKeepsCount ==
    /\ pc = "dispatch"
    /\ events # <<>>
    /\ HandleEvent(Head(events))
    /\ events' = Tail(events)
    /\ UNCHANGED <<server, selected, read, keys, enabled, masks, backend, pc,
                   asked, sets>>

PollForEvent ==
    /\ pc = "dispatch"
    /\ events # <<>>
    /\ HandleEvent(Head(events))
    /\ events' = Tail(events)
    /\ read' = IF read = 0 THEN 0 ELSE read - 1
    /\ UNCHANGED <<server, selected, keys, enabled, masks, backend, pc, asked,
                   sets>>

NoMoreEvents ==
    /\ pc = "dispatch"
    /\ events = <<>>
    /\ pc' = "listen"
    /\ UNCHANGED <<server, selected, channel, keys, enabled, masks, cache,
                   backend, asked, sets, unsaid>>

-----------------------------------------------------------------------------
Greeter ==
    \/ OtherPlatform \/ ConnectToDisplay \/ InitLedMap \/ InitLayouts
    \/ InitState \/ SelectEvents \/ EventsSelected \/ StartNumlock
    \/ LatchLockState \/ ChangesSent
    \/ DispatchEvents \/ PollForEvent \/ NoMoreEvents

Theme == SetCurrentLayout \/ \E l \in Locks : ThemeSetsLock(l)

User == KeyGroup \/ NewKeyboard \/ \E l \in Locks : KeyLock(l)

Next == Greeter \/ Theme \/ User

Spec == Init /\ [][Next]_vars

-----------------------------------------------------------------------------
(* Properties *)

\* The types of the variables.
LockStates == [Locks -> BOOLEAN]

TypeOK ==
    /\ locks \in LockStates
    /\ keymap \in Keymaps
    /\ group \in 0..(Len(keymap) - 1)
    /\ selected \in BOOLEAN
    /\ events \in Seq([type : {"state"}, locks : LockStates, group : Nat]
                      \union [type : {"keyboard"}])
    /\ read \in 0..Len(events)
    /\ keys \in 0..MaxKeys
    /\ enabled \in BOOLEAN
    /\ masks \in SUBSET Locks
    /\ cached \in LockStates
    /\ layout_id \in Nat
    /\ layouts \in {<<>>} \union {ShortNames(k) : k \in Keymaps}
    /\ backend \in {"xcb", "wayland", "none"}
    /\ pc \in {"connect", "leds", "layouts", "state", "select", "selected",
               "other", "numlock", "listen", "send", "check", "dispatch"}
    /\ asked \in Locks \union {"layout", "none"}
    /\ sets \in 0..MaxSets
    /\ unsaid \in SUBSET {"locks", "group", "layouts"}

\* What the theme shows is what the server has, once every event was handled:
\* the locks that have an indicator, the layout in use and the list of layouts.
\* The exceptions are parts that changed in silence: between their reading and
\* the selection of events, and the group when the theme asked for one that
\* was gone.  (An event that xcb_request_check has read stays unhandled until
\* another one comes; till then `events' is not empty.)
InStep ==
    backend = "xcb" /\ enabled /\ pc = "listen" /\ events = <<>> =>
        /\ "locks" \in unsaid \/ \A l \in masks : cached[l] = locks[l]
        /\ "group" \in unsaid \/ layout_id = group
        /\ "layouts" \in unsaid \/ layouts = ShortNames(keymap)

\* A theme that switches num lock does not touch caps lock or the layout,
\* though sendChanges writes all of them from the cache (line 57): unless a
\* change of the user's is on its way to the greeter, which is then undone.
OnlyWhatWasAsked ==
    [][pc = "send" /\ pc' = "check" /\ enabled /\ events = <<>> /\ unsaid = {} =>
         /\ \A l \in Locks \ {asked} : locks'[l] = locks[l]
         /\ asked # "layout" => group' = group]_vars

\* Every match of the short names is looped through once (line 277): the
\* layouts have the names of their groups.
NamesMatch ==
    \A i \in 1..Len(layouts) : layouts = ShortNames(keymap) =>
                                layouts[i] = keymap[i].name
=============================================================================
