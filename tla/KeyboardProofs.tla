--------------------------- MODULE KeyboardProofs ---------------------------
(***************************************************************************)
(* Proofs about Keyboard: the cache of the greeter agrees with the X       *)
(* server when no event is left.                                           *)
(*                                                                         *)
(* The inductive invariant says what is true while events are on their     *)
(* way.  The last event about the locks and the group tells the state that *)
(* the server has now; with no such event the cache already tells it, but  *)
(* for the part that sendChanges is about to write.                        *)
(***************************************************************************)
EXTENDS Keyboard, TLAPS

Event == [type : {"state"}, locks : LockStates, group : Nat]
         \union [type : {"keyboard"}]

NoEvent(t) == \A i \in 1..Len(events) : events[i].type # t

\* Before the dispatcher is connected nothing is selected and nothing is sent.
Quiet ==
    /\ ~selected => events = <<>>
    /\ selected => pc \notin {"connect", "leds", "layouts", "state", "select",
                              "other"}
    /\ pc = "other" => backend # "xcb"
    /\ pc \in {"send", "check"} => backend = "xcb"

\* The last state that was sent is the state now.
LastIsNow ==
    \A i \in 1..Len(events) :
        events[i].type = "state"
        /\ (\A j \in (i + 1)..Len(events) : events[j].type # "state") =>
            events[i].locks = locks /\ events[i].group = group

On == backend = "xcb" /\ enabled

LocksKnown ==
    On /\ pc \in {"select", "selected", "numlock", "listen", "send", "check",
                  "dispatch"}
    /\ "locks" \notin unsaid /\ NoEvent("state") =>
        \A l \in masks : (pc = "send" /\ asked = l) \/ cached[l] = locks[l]

GroupKnown ==
    On /\ pc \in {"select", "selected", "numlock", "listen", "send", "check",
                  "dispatch"}
    /\ "group" \notin unsaid /\ NoEvent("state") =>
        (pc = "send" /\ asked = "layout") \/ layout_id = group

LayoutsKnown ==
    On /\ pc \in {"state", "select", "selected", "numlock", "listen", "send",
                  "check", "dispatch"}
    /\ "layouts" \notin unsaid /\ NoEvent("keyboard") =>
        layouts = ShortNames(keymap)

IInv == TypeOK /\ Quiet /\ LastIsNow /\ LocksKnown /\ GroupKnown /\ LayoutsKnown

-----------------------------------------------------------------------------
\* The groups of a keymap are counted modulo their number.
LEMMA Remainder == ASSUME NEW a \in Nat, NEW b \in Nat, b > 0
                   PROVE  a % b \in 0..(b - 1)
  OBVIOUS

\* A keymap has a layout.
LEMMA KeymapLength == ASSUME NEW k \in Keymaps
                      PROVE  Len(k) \in Nat /\ Len(k) > 0
  BY KeyboardAssumption

\* An event that the server sends is the last of its channel.
LEMMA Appended == ASSUME NEW S, NEW s \in Seq(S), NEW e \in S
                  PROVE  /\ Append(s, e) \in Seq(S)
                         /\ s \o <<e>> = Append(s, e)
                         /\ Len(Append(s, e)) = Len(s) + 1
                         /\ \A i \in 1..Len(s) : Append(s, e)[i] = s[i]
                         /\ Append(s, e)[Len(s) + 1] = e
  OBVIOUS

\* What is left of the channel when its first event has been handled.
LEMMA Beheaded == ASSUME NEW S, NEW s \in Seq(S), s # <<>>
                  PROVE  /\ Head(s) \in S /\ Head(s) = s[1]
                         /\ Len(s) \in Nat /\ Len(s) > 0
                         /\ Tail(s) \in Seq(S) /\ Len(Tail(s)) = Len(s) - 1
                         /\ \A i \in 1..Len(Tail(s)) : Tail(s)[i] = s[i + 1]
  OBVIOUS

\* KeyboardModelPrivate as it is made.
THEOREM InitIInv == Init => IInv
<1> SUFFICES ASSUME Init PROVE IInv
  OBVIOUS
<1>1. TypeOK
  <2>1. keymap \in Keymaps /\ Len(keymap) \in Nat /\ group \in 0..(Len(keymap) - 1)
    BY KeymapLength DEF Init
  <2>2. keys \in 0..MaxKeys /\ sets \in 0..MaxSets
    BY KeyboardAssumption DEF Init
  <2>3. events \in Seq([type : {"state"}, locks : LockStates, group : Nat]
                       \union [type : {"keyboard"}])
        /\ read \in 0..Len(events)
    BY DEF Init
  <2>4. backend \in {"xcb", "wayland", "none"} /\ pc \in {"connect", "other"}
    BY DEF Init
  <2> QED
    BY <2>1, <2>2, <2>3, <2>4 DEF Init, TypeOK, LockStates, Locks
<1>2. LastIsNow /\ LocksKnown /\ GroupKnown /\ LayoutsKnown
  BY DEF Init, LastIsNow, LocksKnown, GroupKnown, LayoutsKnown
<1>3. Quiet
  BY DEF Init, Quiet
<1> QED
  BY <1>1, <1>2, <1>3 DEF IInv

USE DEF server, channel, cache

\* The steps of the start leave the server and what was sent as they are.
LEMMA StartSteps ==
    ASSUME IInv,
           OtherPlatform \/ ConnectToDisplay \/ InitLedMap \/ InitLayouts
              \/ InitState \/ SelectEvents \/ EventsSelected
    PROVE  IInv'
<1> USE DEF IInv, Quiet, On
<1>1. CASE OtherPlatform
  BY <1>1 DEF OtherPlatform, TypeOK, LastIsNow, LocksKnown, GroupKnown,
              LayoutsKnown, NoEvent
<1>2. CASE ConnectToDisplay
  BY <1>2 DEF ConnectToDisplay, TypeOK, LastIsNow, LocksKnown, GroupKnown,
              LayoutsKnown, NoEvent
<1>3. CASE InitLedMap
  BY <1>3 DEF InitLedMap, TypeOK, LastIsNow, LocksKnown, GroupKnown,
              LayoutsKnown, NoEvent
<1>4. CASE InitLayouts
  BY <1>4 DEF InitLayouts, TypeOK, LastIsNow, LocksKnown, GroupKnown,
              LayoutsKnown, NoEvent
<1>5. CASE InitState
  <2> USE <1>5 DEF InitState
  <2>1. TypeOK'
    <3>1. Masked(locks) \in LockStates /\ group \in Nat
      BY DEF TypeOK, Masked, LockStates
    <3> QED
      BY <3>1 DEF TypeOK
  <2>2. Quiet' /\ LastIsNow' /\ LayoutsKnown'
    BY DEF TypeOK, LastIsNow, LayoutsKnown, NoEvent
  <2>3. LocksKnown' /\ GroupKnown'
    <3>1. \A l \in masks : Masked(locks)[l] = locks[l]
      BY DEF TypeOK, LockStates, Masked
    <3> QED
      BY <3>1 DEF TypeOK, LocksKnown, GroupKnown, NoEvent
  <2> QED
    BY <2>1, <2>2, <2>3
<1>6. CASE SelectEvents
  <2> USE <1>6 DEF SelectEvents
  <2>1. TypeOK'
    BY DEF TypeOK
  <2>2. Quiet'
    OBVIOUS
  <2>3. LastIsNow' /\ LayoutsKnown'
    BY DEF LastIsNow, LayoutsKnown, NoEvent
  <2>4. LocksKnown' /\ GroupKnown'
    BY DEF LocksKnown, GroupKnown, NoEvent
  <2> QED
    BY <2>1, <2>2, <2>3, <2>4
<1>7. CASE EventsSelected
  BY <1>7 DEF EventsSelected, TypeOK, LastIsNow, LocksKnown, GroupKnown,
              LayoutsKnown, NoEvent
<1> QED
  BY <1>1, <1>2, <1>3, <1>4, <1>5, <1>6, <1>7

\* What a setter leaves.
LEMMA SetLockType ==
    ASSUME TypeOK, NEW l \in Locks, NEW s \in BOOLEAN, SetLock(l, s)
    PROVE  /\ cached' \in LockStates
           /\ asked' \in Locks \union {"layout", "none"}
           /\ pc' \in {"listen", "send"}
BY DEF SetLock, SendChanges, TypeOK, LockStates

\* The greeter changes its cache, and waits for the answer of the server.
LEMMA SetterSteps ==
    ASSUME IInv,
           StartNumlock \/ SetCurrentLayout \/ ChangesSent
              \/ DispatchEvents \/ NoMoreEvents
              \/ \E l \in Locks : ThemeSetsLock(l)
    PROVE  IInv'
<1> USE DEF IInv, Quiet, On, LocksKnown, GroupKnown, LayoutsKnown, LastIsNow,
            NoEvent
<1>1. CASE StartNumlock
  <2> USE <1>1 DEF StartNumlock
  <2>1. TypeOK'
    BY SetLockType DEF TypeOK, Locks
  <2>2. Quiet' /\ LastIsNow' /\ LayoutsKnown'
    BY DEF SetLock, SendChanges
  <2>3. LocksKnown' /\ GroupKnown'
    BY DEF SetLock, SendChanges, TypeOK, LockStates, Locks
  <2> QED
    BY <2>1, <2>2, <2>3
<1>2. CASE SetCurrentLayout
  <2> USE <1>2 DEF SetCurrentLayout, SendChanges
  <2>1. layout_id' \in Nat
    OBVIOUS
  <2>4. sets' \in 0..MaxSets
    BY KeyboardAssumption DEF TypeOK
  <2>2. TypeOK'
    BY <2>1, <2>4 DEF TypeOK
  <2>3. Quiet' /\ LastIsNow' /\ LayoutsKnown' /\ LocksKnown' /\ GroupKnown'
    OBVIOUS
  <2> QED
    BY <2>2, <2>3
<1>3. CASE ChangesSent
  BY <1>3 DEF ChangesSent, TypeOK
<1>4. CASE DispatchEvents
  BY <1>4 DEF DispatchEvents, TypeOK
<1>5. CASE NoMoreEvents
  BY <1>5 DEF NoMoreEvents, TypeOK
<1>6. ASSUME NEW l \in Locks, ThemeSetsLock(l) PROVE IInv'
  <2> PICK state \in BOOLEAN : SetLock(l, state)
    BY <1>6 DEF ThemeSetsLock
  <2> USE <1>6 DEF ThemeSetsLock
  <2>1. sets' \in 0..MaxSets
    BY KeyboardAssumption DEF TypeOK
  <2>2. TypeOK'
    BY <2>1, SetLockType DEF TypeOK
  <2>3. Quiet' /\ LastIsNow' /\ LayoutsKnown'
    BY DEF SetLock, SendChanges
  <2>4. LocksKnown' /\ GroupKnown'
    BY DEF SetLock, SendChanges, TypeOK, LockStates
  <2> QED
    BY <2>2, <2>3, <2>4
<1> QED
  BY <1>1, <1>2, <1>3, <1>4, <1>5, <1>6

\* sendChanges reaches the server.
LEMMA LatchStep == ASSUME IInv, LatchLockState PROVE IInv'
<1> USE DEF LatchLockState
<1> DEFINE e == StateNotify(locks', group')
<1>1. Len(keymap) \in Nat /\ Len(keymap) > 0 /\ layout_id \in Nat
  BY KeymapLength DEF IInv, TypeOK
<1>2. group' \in 0..(Len(keymap) - 1) /\ group' \in Nat
  BY <1>1, Remainder
<1>3. locks' \in LockStates
  BY DEF IInv, TypeOK, LockStates
<1>4. e \in Event /\ e.type = "state" /\ e.locks = locks' /\ e.group = group'
  BY <1>2, <1>3 DEF StateNotify, Event
<1>5. events \in Seq(Event) /\ Len(events) \in Nat
  BY DEF IInv, TypeOK, Event
<1>6. CASE ~selected
  <2> USE <1>6
  <2>1. events = <<>> /\ events' = <<>>
    BY DEF IInv, Quiet
  <2>2. TypeOK' /\ Quiet'
    BY <1>2, <1>3 DEF IInv, TypeOK, Quiet
  <2>3. LastIsNow' /\ LocksKnown' /\ GroupKnown'
    BY <2>1 DEF IInv, TypeOK, LastIsNow, LocksKnown, GroupKnown
  <2>4. LayoutsKnown'
    BY DEF IInv, LayoutsKnown, NoEvent, On
  <2> QED
    BY <2>2, <2>3, <2>4 DEF IInv
<1>7. CASE events' = Append(events, e)
  <2> USE <1>7
  <2>1. /\ events' \in Seq(Event)
        /\ Len(events') = Len(events) + 1
        /\ \A i \in 1..Len(events) : events'[i] = events[i]
        /\ events'[Len(events) + 1] = e
    BY <1>4, <1>5, Appended
  <2>2. TypeOK'
    BY <1>2, <1>3, <1>5, <2>1 DEF IInv, TypeOK, Event
  <2>3. Quiet'
    BY <1>5, <1>7 DEF IInv, Quiet
  <2>4. LastIsNow'
    <3> HIDE DEF LatchLockState, e
    <3> SUFFICES ASSUME NEW i \in 1..Len(events'), events'[i].type = "state",
                        \A j \in (i + 1)..Len(events') : events'[j].type # "state"
                 PROVE  events'[i].locks = locks' /\ events'[i].group = group'
      BY DEF LastIsNow
    <3>1. i = Len(events) + 1
      BY <1>4, <1>5, <2>1
    <3> QED
      BY <1>4, <2>1, <3>1
  <2>6. ~NoEvent("state")'
    BY <1>4, <1>5, <2>1 DEF NoEvent
  <2>7. LocksKnown' /\ GroupKnown'
    BY <2>6 DEF LocksKnown, GroupKnown
  <2>5. LayoutsKnown'
    BY <1>5, <2>1 DEF IInv, LayoutsKnown, NoEvent, On
  <2> QED
    BY <2>2, <2>3, <2>4, <2>5, <2>7 DEF IInv
<1>8. CASE UNCHANGED <<events, locks, group>>
  <2> USE <1>8
  <2>1. TypeOK' /\ Quiet'
    BY <1>2, <1>3 DEF IInv, TypeOK, Quiet
  <2>2. LastIsNow' /\ LayoutsKnown'
    BY DEF IInv, LastIsNow, LayoutsKnown, NoEvent, On
  <2>3. LocksKnown'
    BY DEF IInv, TypeOK, LocksKnown
  <2>4. GroupKnown'
    BY DEF GroupKnown
  <2> QED
    BY <2>1, <2>2, <2>3, <2>4 DEF IInv
<1> QED
  BY <1>6, <1>7, <1>8

\* One event of the loop.
LEMMA PollStep == ASSUME IInv, PollForEvent PROVE IInv'
<1> USE DEF PollForEvent
<1> DEFINE e == events[1]
<1>1. events \in Seq(Event) /\ events # <<>>
  BY DEF IInv, TypeOK, Event
<1>2. /\ e \in Event /\ Head(events) = e
      /\ Len(events) \in Nat /\ Len(events) > 0
      /\ events' \in Seq(Event) /\ Len(events') = Len(events) - 1
      /\ \A i \in 1..Len(events') : events'[i] = events[i + 1]
  BY <1>1, Beheaded
<1> HIDE DEF e
<1>13. \A i \in 2..Len(events) : i - 1 \in 1..Len(events') /\ events[i] = events'[i - 1]
  BY <1>2
<1>3. HandleEvent(e)
  BY <1>2
<1>4. /\ cached' \in LockStates /\ layout_id' \in Nat
      /\ layouts' \in {<<>>} \union {ShortNames(k) : k \in Keymaps}
      /\ unsaid' \in SUBSET {"locks", "group", "layouts"}
  <2>1. CASE e.type = "state"
    <3>1. e.locks \in LockStates /\ e.group \in Nat
      BY <1>2, <2>1 DEF Event
    <3>2. Masked(e.locks) \in LockStates
      BY <3>1 DEF Masked, LockStates
    <3> QED
      BY <1>3, <2>1, <3>1, <3>2 DEF HandleEvent, IInv, TypeOK
  <2>2. CASE e.type # "state"
    BY <1>3, <2>2 DEF HandleEvent, IInv, TypeOK
  <2> QED
    BY <2>1, <2>2
<1>5. read' \in 0..Len(events')
  BY <1>2 DEF IInv, TypeOK
<1>6. TypeOK'
  BY <1>2, <1>4, <1>5 DEF IInv, TypeOK, Event
<1>7. Quiet'
  BY DEF IInv, Quiet
<1>8. LastIsNow'
  <2> SUFFICES ASSUME NEW i \in 1..Len(events'), events'[i].type = "state",
                      \A j \in (i + 1)..Len(events') : events'[j].type # "state"
               PROVE  events'[i].locks = locks /\ events'[i].group = group
    BY DEF LastIsNow
  <2>1. i + 1 \in 1..Len(events) /\ events[i + 1] = events'[i]
    BY <1>2
  <2>2. \A j \in ((i + 1) + 1)..Len(events) :
            j - 1 \in (i + 1)..Len(events') /\ events[j] = events'[j - 1]
    BY <1>2, <1>13
  <2>3. \A j \in ((i + 1) + 1)..Len(events) : events[j].type # "state"
    BY <2>2
  <2> QED
    BY <2>1, <2>3 DEF IInv, LastIsNow
<1>14. ASSUME NEW t, NoEvent(t)'
       PROVE  \A j \in 2..Len(events) : events[j].type # t
  BY <1>13, <1>14 DEF NoEvent
<1>9. NoEvent("state")' /\ e.type = "state" => e.locks = locks /\ e.group = group
  <2>1. 1 \in 1..Len(events) /\ 1 + 1 = 2
    BY <1>2
  <2> QED
    BY <1>14, <2>1 DEF e, IInv, LastIsNow
<1>15. ASSUME NEW t, NoEvent(t)', e.type # t PROVE NoEvent(t)
  <2>1. \A j \in 1..Len(events) : j = 1 \/ j \in 2..Len(events)
    BY <1>2
  <2> QED
    BY <1>14, <1>15, <2>1 DEF e, NoEvent
<1>10. NoEvent("state")' /\ e.type # "state" => NoEvent("state")
  BY <1>15
<1>11. LocksKnown' /\ GroupKnown'
  <2>1. CASE e.type = "state"
    <3>1. cached' = Masked(e.locks) /\ layout_id' = e.group
      BY <1>3, <2>1 DEF HandleEvent
    <3>2. e.locks = locks => \A l \in masks : Masked(e.locks)[l] = locks[l]
      BY DEF IInv, TypeOK, LockStates, Masked
    <3> QED
      BY <1>9, <2>1, <3>1, <3>2 DEF LocksKnown, GroupKnown
  <2>2. CASE e.type # "state"
    BY <1>3, <1>10, <2>2 DEF HandleEvent, IInv, LocksKnown, GroupKnown, On
  <2> QED
    BY <2>1, <2>2
<1>12. LayoutsKnown'
  <2>1. CASE e.type = "state"
    <3>1. NoEvent("keyboard")' => NoEvent("keyboard")
      BY <1>15, <2>1
    <3> QED
      BY <1>3, <2>1, <3>1 DEF HandleEvent, IInv, LayoutsKnown, On
  <2>2. CASE e.type # "state"
    BY <1>3, <2>2 DEF HandleEvent, LayoutsKnown
  <2> QED
    BY <2>1, <2>2
<1> QED
  BY <1>6, <1>7, <1>8, <1>11, <1>12 DEF IInv

\* What the user does: an event says so, or the part is marked.
LEMMA UserSteps ==
    ASSUME IInv, KeyGroup \/ NewKeyboard \/ \E l \in Locks : KeyLock(l)
    PROVE  IInv'
<1>1. events \in Seq(Event) /\ Len(events) \in Nat
      /\ Len(keymap) \in Nat /\ Len(keymap) > 0 /\ group \in Nat
  BY KeymapLength DEF IInv, TypeOK, Event
<1>2. keys < MaxKeys => keys + 1 \in 0..MaxKeys
  BY KeyboardAssumption DEF IInv, TypeOK
<1>3. ASSUME NEW ls \in LockStates, NEW g \in Nat
      PROVE  /\ StateNotify(ls, g) \in Event
             /\ StateNotify(ls, g).type = "state"
             /\ StateNotify(ls, g).locks = ls
             /\ StateNotify(ls, g).group = g
  BY DEF StateNotify, Event
<1>4. ASSUME NEW l \in Locks, KeyLock(l) PROVE IInv'
  <2> USE <1>4 DEF KeyLock, Tell
  <2>1. locks' \in LockStates
    BY DEF IInv, TypeOK, LockStates
  <2> DEFINE e == StateNotify(locks', group)
  <2>2. e \in Event /\ e.type = "state" /\ e.locks = locks' /\ e.group = group
    BY <1>1, <1>3, <2>1
  <2> HIDE DEF e
  <2>3. CASE selected
    <3>1. /\ events' \in Seq(Event)
          /\ Len(events') = Len(events) + 1
          /\ \A i \in 1..Len(events) : events'[i] = events[i]
          /\ events'[Len(events) + 1] = e
      BY <1>1, <2>2, <2>3, Appended DEF e
    <3>2. TypeOK'
      BY <1>1, <1>2, <2>1, <3>1 DEF IInv, TypeOK, Event
    <3>3. Quiet'
      BY <2>3 DEF IInv, Quiet
    <3>6. LastIsNow'
      <4> SUFFICES ASSUME NEW i \in 1..Len(events'), events'[i].type = "state",
                          \A j \in (i + 1)..Len(events') : events'[j].type # "state"
                   PROVE  events'[i].locks = locks' /\ events'[i].group = group'
        BY DEF LastIsNow
      <4>1. i \in 1..Len(events) => Len(events) + 1 \in (i + 1)..Len(events')
        BY <1>1, <3>1
      <4>4. events'[Len(events) + 1].type = "state"
        BY ONLY <2>2, <3>1
      <4>3. Len(events) + 1 \notin (i + 1)..Len(events')
        BY ONLY <4>4, \A j \in (i + 1)..Len(events') : events'[j].type # "state"
      <4>2. i = Len(events) + 1
        BY <1>1, <3>1, <4>1, <4>3
      <4> QED
        BY <2>2, <3>1, <4>2
    <3>4. LocksKnown' /\ GroupKnown'
      BY <1>1, <2>2, <3>1 DEF LocksKnown, GroupKnown, NoEvent
    <3>5. LayoutsKnown'
      BY <1>1, <2>3, <3>1 DEF IInv, LayoutsKnown, NoEvent, On
    <3> QED
      BY <3>2, <3>3, <3>4, <3>5, <3>6 DEF IInv
  <2>4. CASE ~selected
    <3>1. TypeOK'
      BY <1>2, <2>1, <2>4 DEF IInv, TypeOK
    <3>2. Quiet' /\ LastIsNow'
      BY <2>4 DEF IInv, Quiet, LastIsNow
    <3>3. LocksKnown' /\ GroupKnown' /\ LayoutsKnown'
      BY <2>4 DEF IInv, LocksKnown, GroupKnown, LayoutsKnown, NoEvent, On
    <3> QED
      BY <3>1, <3>2, <3>3 DEF IInv
  <2> QED
    BY <2>3, <2>4
<1>5. CASE KeyGroup
  <2> USE <1>5 DEF KeyGroup, Tell
  <2>1. group' \in 0..(Len(keymap) - 1) /\ group' \in Nat
    BY <1>1, Remainder
  <2> DEFINE e == StateNotify(locks, group')
  <2>2. e \in Event /\ e.type = "state" /\ e.locks = locks /\ e.group = group'
    BY <1>3, <2>1 DEF IInv, TypeOK
  <2> HIDE DEF e
  <2>3. CASE selected
    <3>1. /\ events' \in Seq(Event)
          /\ Len(events') = Len(events) + 1
          /\ \A i \in 1..Len(events) : events'[i] = events[i]
          /\ events'[Len(events) + 1] = e
      BY <1>1, <2>2, <2>3, Appended DEF e
    <3>2. TypeOK'
      BY <1>1, <1>2, <2>1, <3>1 DEF IInv, TypeOK, Event
    <3>3. Quiet'
      BY <2>3 DEF IInv, Quiet
    <3>6. LastIsNow'
      <4> SUFFICES ASSUME NEW i \in 1..Len(events'), events'[i].type = "state",
                          \A j \in (i + 1)..Len(events') : events'[j].type # "state"
                   PROVE  events'[i].locks = locks' /\ events'[i].group = group'
        BY DEF LastIsNow
      <4>1. i \in 1..Len(events) => Len(events) + 1 \in (i + 1)..Len(events')
        BY <1>1, <3>1
      <4>4. events'[Len(events) + 1].type = "state"
        BY ONLY <2>2, <3>1
      <4>3. Len(events) + 1 \notin (i + 1)..Len(events')
        BY ONLY <4>4, \A j \in (i + 1)..Len(events') : events'[j].type # "state"
      <4>2. i = Len(events) + 1
        BY <1>1, <3>1, <4>1, <4>3
      <4> QED
        BY <2>2, <3>1, <4>2
    <3>4. LocksKnown' /\ GroupKnown'
      BY <1>1, <2>2, <3>1 DEF LocksKnown, GroupKnown, NoEvent
    <3>5. LayoutsKnown'
      BY <1>1, <2>3, <3>1 DEF IInv, LayoutsKnown, NoEvent, On
    <3> QED
      BY <3>2, <3>3, <3>4, <3>5, <3>6 DEF IInv
  <2>4. CASE ~selected
    <3>1. TypeOK'
      BY <1>2, <2>1, <2>4 DEF IInv, TypeOK
    <3>2. Quiet' /\ LastIsNow'
      BY <2>4 DEF IInv, Quiet, LastIsNow
    <3>3. LocksKnown' /\ GroupKnown' /\ LayoutsKnown'
      BY <2>4 DEF IInv, LocksKnown, GroupKnown, LayoutsKnown, NoEvent, On
    <3> QED
      BY <3>1, <3>2, <3>3 DEF IInv
  <2> QED
    BY <2>3, <2>4
<1>6. CASE NewKeyboard
  <2>0. PICK k \in Keymaps \ {keymap} :
         /\ keymap' = k
         /\ group' = group % Len(k)
         /\ Tell({"layouts"} \union (IF group' = group THEN {} ELSE {"group"}),
                 <<NewKeyboardNotify>> \o
                 (IF group' = group THEN <<>> ELSE <<StateNotify(locks, group')>>))
    BY <1>6 DEF NewKeyboard
  <2>1. /\ keymap' \in Keymaps
        /\ group' \in 0..(Len(keymap') - 1) /\ group' \in Nat
    BY <1>1, <2>0, KeymapLength, Remainder
  <2>8. /\ UNCHANGED <<locks, selected, read, enabled, masks, cached, layout_id,
                       layouts, backend, pc, asked, sets>>
        /\ keys' \in 0..MaxKeys
    BY <1>2, <1>6 DEF NewKeyboard, cache
  <2> DEFINE n == NewKeyboardNotify
             e == StateNotify(locks, group')
             one == Append(events, n)
  <2>2. e \in Event /\ e.type = "state" /\ e.locks = locks /\ e.group = group'
    BY <1>3, <2>1 DEF IInv, TypeOK
  <2>3. n \in Event /\ n.type = "keyboard"
    BY DEF NewKeyboardNotify, Event
  <2> HIDE DEF e, n
  <2>4. /\ one \in Seq(Event)
        /\ Len(one) = Len(events) + 1
        /\ \A i \in 1..Len(events) : one[i] = events[i]
        /\ one[Len(events) + 1] = n
    BY <1>1, <2>3, Appended
  <2> HIDE DEF one
  <2>5. CASE ~selected
    <3>0. UNCHANGED events /\ unsaid' = unsaid \union {"layouts"} \union
                            (IF group' = group THEN {} ELSE {"group"})
      BY <2>0, <2>5 DEF Tell
    <3>1. TypeOK'
      BY <2>1, <2>8, <3>0 DEF IInv, TypeOK
    <3>2. Quiet' /\ LastIsNow'
      BY <2>5, <2>8, <3>0 DEF IInv, Quiet, LastIsNow
    <3>3. LocksKnown' /\ GroupKnown' /\ LayoutsKnown'
      BY <2>8, <3>0 DEF IInv, LocksKnown, GroupKnown, LayoutsKnown, NoEvent, On
    <3> QED
      BY <3>1, <3>2, <3>3 DEF IInv
  <2>6. CASE selected /\ group' = group
    <3>0. events' = one /\ UNCHANGED unsaid
      BY <1>1, <2>0, <2>3, <2>6 DEF Tell, n, one
    <3>6. read' \in 0..Len(events')
      BY <1>1, <2>4, <2>8, <3>0 DEF IInv, TypeOK
    <3>1. TypeOK'
      BY <2>1, <2>4, <2>8, <3>0, <3>6 DEF IInv, TypeOK, Event
    <3>2. Quiet'
      BY <2>6, <2>8 DEF IInv, Quiet
    <3>5. LastIsNow'
      <4> SUFFICES ASSUME NEW i \in 1..Len(one), one[i].type = "state",
                          \A j \in (i + 1)..Len(one) : one[j].type # "state"
                   PROVE  one[i].locks = locks /\ one[i].group = group
        BY <2>6, <2>8, <3>0 DEF LastIsNow
      <4>1. i \in 1..Len(events) /\ one[i] = events[i]
        BY <1>1, <2>3, <2>4
      <4>2. \A j \in (i + 1)..Len(events) : events[j].type # "state"
        BY <1>1, <2>4
      <4> QED
        BY <4>1, <4>2 DEF IInv, LastIsNow
    <3>3. LocksKnown' /\ GroupKnown'
      <4>1. NoEvent("state")' => NoEvent("state")
        BY <1>1, <2>4, <3>0 DEF NoEvent
      <4> HIDE DEF NoEvent
      <4>2. LocksKnown'
        BY <2>8, <3>0, <4>1 DEF IInv, LocksKnown, On
      <4>3. GroupKnown'
        BY <2>6, <2>8, <3>0, <4>1 DEF IInv, GroupKnown, On
      <4> QED
        BY <4>2, <4>3
    <3>4. LayoutsKnown'
      BY <1>1, <2>3, <2>4, <3>0 DEF LayoutsKnown, NoEvent
    <3> QED
      BY <3>1, <3>2, <3>3, <3>4, <3>5 DEF IInv
  <2>7. CASE selected /\ group' # group
    <3>0. events' = Append(one, e) /\ UNCHANGED unsaid
      BY <1>1, <2>0, <2>2, <2>3, <2>7 DEF Tell, n, e, one
    <3>1. /\ events' \in Seq(Event)
          /\ Len(events') = Len(events) + 2
          /\ \A i \in 1..Len(events) : events'[i] = events[i]
          /\ events'[Len(events) + 1] = n
          /\ events'[Len(events) + 2] = e
      BY <1>1, <2>2, <2>4, <3>0, Appended
    <3>6. read' \in 0..Len(events')
      BY <1>1, <2>8, <3>1 DEF IInv, TypeOK
    <3>2. TypeOK'
      BY <2>1, <2>8, <3>0, <3>1, <3>6 DEF IInv, TypeOK, Event
    <3>3. Quiet'
      BY <2>7, <2>8 DEF IInv, Quiet
    <3>7. LastIsNow'
      BY <1>1, <2>2, <2>3, <2>8, <3>1 DEF LastIsNow
    <3>4. LocksKnown' /\ GroupKnown'
      BY <1>1, <2>2, <3>1 DEF LocksKnown, GroupKnown, NoEvent
    <3>5. LayoutsKnown'
      BY <1>1, <2>3, <3>1 DEF LayoutsKnown, NoEvent
    <3> QED
      BY <3>2, <3>3, <3>4, <3>5, <3>7 DEF IInv
  <2> QED
    BY <2>5, <2>6, <2>7
<1> QED
  BY <1>4, <1>5, <1>6

-----------------------------------------------------------------------------
\* Every step keeps the invariant.
LEMMA NextIInv == IInv /\ [Next]_vars => IInv'
<1> SUFFICES ASSUME IInv, [Next]_vars PROVE IInv'
  OBVIOUS
<1>1. CASE Next
  BY <1>1, StartSteps, SetterSteps, LatchStep, PollStep, UserSteps
     DEF Next, Greeter, Theme, User
<1>2. CASE UNCHANGED vars
  BY <1>2 DEF vars, IInv, TypeOK, Quiet, LastIsNow, LocksKnown, GroupKnown,
              LayoutsKnown, NoEvent, On
<1> QED
  BY <1>1, <1>2

\* Whatever changed is in the cache, announced, or changed without an event, for
\* any keymaps and bounds (KeyboardModel::dispatchEvents, init and sendChanges).
THEOREM Inductive == Spec => []IInv
  BY InitIInv, NextIInv, PTL DEF Spec

\* The variables have their types, for any keymaps and bounds.
THEOREM KeyboardTypes == Spec => []TypeOK
<1>1. IInv => TypeOK
  BY DEF IInv
<1> QED
  BY <1>1, Inductive, PTL

\* The theme shows what the server has, once no event is left (the code of
\* KeyboardModel::dispatchEvents and of the three parts of init()).
THEOREM KeyboardInStep == Spec => []InStep
<1>1. IInv => InStep
  BY DEF IInv, InStep, LocksKnown, GroupKnown, LayoutsKnown, On, NoEvent
<1> QED
  BY <1>1, Inductive, PTL

\* sendChanges writes all from the cache, but changes only what was asked for
\* when no change of the user's is on its way.
THEOREM KeyboardOnlyWhatWasAsked == Spec => OnlyWhatWasAsked
<1> DEFINE Changes ==
        pc = "send" /\ pc' = "check" /\ enabled /\ events = <<>> /\ unsaid = {} =>
         /\ \A l \in Locks \ {asked} : locks'[l] = locks[l]
         /\ asked # "layout" => group' = group
<1>1. IInv /\ [Next]_vars => [Changes]_vars
  <2> SUFFICES ASSUME IInv, Next, pc = "send", pc' = "check", enabled,
                      events = <<>>, unsaid = {}
               PROVE  /\ \A l \in Locks \ {asked} : locks'[l] = locks[l]
                      /\ asked # "layout" => group' = group
    OBVIOUS
  <2>1. LatchLockState
    BY DEF Next, Greeter, Theme, User, OtherPlatform, ConnectToDisplay,
           InitLedMap, InitLayouts, InitState, SelectEvents, EventsSelected,
           StartNumlock, ChangesSent, DispatchEvents, PollForEvent,
           NoMoreEvents, SetCurrentLayout, ThemeSetsLock, KeyGroup,
           NewKeyboard, KeyLock
  <2>2. On /\ NoEvent("state")
    BY DEF IInv, Quiet, On, NoEvent
  <2>3. \A l \in masks : asked = l \/ cached[l] = locks[l]
    BY <2>2 DEF IInv, LocksKnown
  <2>4. asked = "layout" \/ layout_id = group
    BY <2>2 DEF IInv, GroupKnown
  <2>5. group \in 0..(Len(keymap) - 1) /\ Len(keymap) \in Nat
    BY KeymapLength DEF IInv, TypeOK
  <2>6. group % Len(keymap) = group
    BY <2>5
  <2> QED
    BY <2>1, <2>3, <2>4, <2>6 DEF LatchLockState
<1>2. Spec => [][Changes]_vars
  BY <1>1, Inductive, PTL DEF Spec
<1> QED
  BY <1>2 DEF OnlyWhatWasAsked
=============================================================================
