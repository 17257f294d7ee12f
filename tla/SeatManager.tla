----------------------------- MODULE SeatManager -----------------------------
(***************************************************************************)
(* Which seats get displays: SeatManager with its LogindSeat objects       *)
(* (daemon/SeatManager.cpp), the list of seats that DisplayManager offers  *)
(* on D-Bus (daemon/DisplayManager.cpp), logind, and the bus between them. *)
(*                                                                         *)
(* The daemon first asks logind for its seats and then subscribes to their *)
(* coming and going; a LogindSeat subscribes to the properties of its seat *)
(* and then asks for one.  What the daemon sends is handled in order, but  *)
(* a subscription by the bus itself, so it may be there before logind has  *)
(* handled a call that was sent earlier.  What logind sends arrives in the *)
(* order it was sent.                                                      *)
(***************************************************************************)
EXTENDS Naturals, Sequences, FiniteSets, SequencesExt

CONSTANTS
    Seats,          \* the names that seats of logind may have
    MaxChanges      \* bound on the changes of logind's seats

ASSUME SeatManagerAssumption == IsFiniteSet(Seats) /\ MaxChanges \in Nat

VARIABLES
    \* logind
    present,        \* its seats
    graphical,      \* the ones with the property CanGraphical
    changes,        \* the number of changes so far
    \* the bus
    subscribed,     \* the daemon gets SeatNew and SeatRemoved
    watched,        \* seats whose PropertiesChanged the daemon gets
    calls,          \* sent by the daemon and not handled yet
    inbox,          \* sent to the daemon and not handled yet
    \* SeatManager
    logindSeats,    \* every LogindSeat made so far; it lives if "alive"
    systemSeats,    \* m_systemSeats: an index of logindSeats, 0 for none
    managed,        \* the keys of m_seats
    running,        \* how many Seat objects there are for a name
    \* DisplayManager
    exported,       \* m_seats: the name and the number of each object
    \* history
    raced,          \* a seat came or went while the daemon started to listen
    missed          \* the daemon missed that a seat lost its graphics

logindVars == <<present, graphical, changes>>
daemonVars == <<logindSeats, systemSeats, managed, running, exported>>
historyVars == <<raced, missed>>
vars == <<logindVars, subscribed, watched, calls, inbox, daemonVars, historyVars>>

\* The LogindSeats made so far.
Objects == 1 .. Len(logindSeats)

CallType == [op : {"ListSeats", "subscribe"}]
            \union [op : {"watch", "unwatch"}, seat : Seats]
            \union [op : {"Get"}, object : Objects]

\* The value of CanGraphical; "none" when there is no such seat.
Answer == {"yes", "no", "none"}

MessageType == [type : {"ListSeats"}, seats : SUBSET Seats]
               \union [type : {"SeatNew", "SeatRemoved"}, seat : Seats]
               \union [type : {"PropertiesChanged"}, seat : Seats, value : BOOLEAN]
               \union [type : {"Get"}, object : Objects, value : Answer]

LogindSeat == [seat : Seats, canGraphical : BOOLEAN, alive : BOOLEAN]

TypeOK ==
    /\ present \subseteq Seats /\ graphical \subseteq present
    /\ changes \in 0 .. MaxChanges
    /\ subscribed \in BOOLEAN /\ watched \subseteq Seats
    /\ calls \in Seq(CallType) /\ inbox \in Seq(MessageType)
    /\ logindSeats \in Seq(LogindSeat)
    /\ systemSeats \in [Seats -> {0} \union Objects]
    /\ managed \subseteq Seats
    /\ running \in [Seats -> Nat]
    /\ exported \in Seq([seat : Seats, object : Nat])
    /\ raced \in BOOLEAN /\ missed \in BOOLEAN

\* SeatManager::initialize with logind there: the list first.
Init ==
    /\ present \in SUBSET Seats /\ graphical \in SUBSET present
    /\ changes = 0
    /\ subscribed = FALSE /\ watched = {}
    /\ calls = <<[op |-> "ListSeats"], [op |-> "subscribe"]>>
    /\ inbox = <<>>
    /\ logindSeats = <<>>
    /\ systemSeats = [s \in Seats |-> 0]
    /\ managed = {} /\ running = [s \in Seats |-> 0]
    /\ exported = <<>>
    /\ raced = FALSE /\ missed = FALSE

-----------------------------------------------------------------------------
(***************************************************************************)
(* logind and the bus.                                                     *)
(***************************************************************************)
Starting == ~subscribed \/ \E i \in 1 .. Len(calls) : calls[i].op = "ListSeats"

\* The daemon has or will have heard that s is graphical, and is not listening:
\* it has dropped its subscription to the seat that s was before, and the new
\* one is still to come.
Unheard(s) ==
    /\ s \notin watched
    /\ \/ s \in managed
       \/ \E i \in 1 .. Len(inbox) :
             inbox[i] = [type |-> "PropertiesChanged", seat |-> s, value |-> TRUE]

Signal(hears, m) == inbox' = IF hears THEN Append(inbox, m) ELSE inbox

SeatAppears(s) ==
    /\ changes < MaxChanges /\ s \notin present
    /\ changes' = changes + 1
    /\ present' = present \union {s}
    /\ graphical' \in {graphical, graphical \union {s}}
    /\ Signal(subscribed, [type |-> "SeatNew", seat |-> s])
    /\ raced' = (raced \/ Starting)
    /\ UNCHANGED <<subscribed, watched, calls, daemonVars, missed>>

SeatVanishes(s) ==
    /\ changes < MaxChanges /\ s \in present
    /\ changes' = changes + 1
    /\ present' = present \ {s} /\ graphical' = graphical \ {s}
    /\ Signal(subscribed, [type |-> "SeatRemoved", seat |-> s])
    /\ raced' = (raced \/ Starting)
    /\ UNCHANGED <<subscribed, watched, calls, daemonVars, missed>>

\* The first graphics device of a seat comes, or its last one goes.
CanGraphicalChanges(s) ==
    /\ changes < MaxChanges /\ s \in present
    /\ changes' = changes + 1
    /\ graphical' = IF s \in graphical THEN graphical \ {s} ELSE graphical \union {s}
    /\ Signal(s \in watched, [type |-> "PropertiesChanged", seat |-> s,
                              value |-> s \in graphical'])
    /\ missed' = (missed \/ (s \in graphical /\ Unheard(s)))
    /\ UNCHANGED <<present, subscribed, watched, calls, daemonVars, raced>>

IsMatch(c) == c.op \in {"subscribe", "watch", "unwatch"}

\* The bus: subscriptions in their order, whatever calls are before them.
BusMatches ==
    \E i \in 1 .. Len(calls) :
        /\ IsMatch(calls[i])
        /\ \A j \in 1 .. i - 1 : ~IsMatch(calls[j])
        /\ calls' = RemoveAt(calls, i)
        /\ subscribed' = (subscribed \/ calls[i].op = "subscribe")
        /\ watched' = CASE calls[i].op = "watch" -> watched \union {calls[i].seat}
                        [] calls[i].op = "unwatch" -> watched \ {calls[i].seat}
                        [] OTHER -> watched
        /\ UNCHANGED <<logindVars, inbox, daemonVars, historyVars>>

CanGraphical(s) == IF s \notin present THEN "none"
                   ELSE IF s \in graphical THEN "yes" ELSE "no"

\* logind: calls in their order.
LogindAnswers ==
    /\ calls # <<>> /\ ~IsMatch(Head(calls))
    /\ calls' = Tail(calls)
    /\ inbox' = Append(inbox,
         IF Head(calls).op = "ListSeats"
         THEN [type |-> "ListSeats", seats |-> present]
         ELSE [type |-> "Get", object |-> Head(calls).object,
               value |-> CanGraphical(logindSeats[Head(calls).object].seat)])
    /\ UNCHANGED <<logindVars, subscribed, watched, daemonVars, historyVars>>

-----------------------------------------------------------------------------
(***************************************************************************)
(* The daemon.                                                             *)
(***************************************************************************)
Receive(type) == inbox # <<>> /\ Head(inbox).type = type /\ inbox' = Tail(inbox)

Alive(i, s) == logindSeats[i].alive /\ logindSeats[i].seat = s
AliveFor(s) == {i \in Objects : Alive(i, s)}

\* DisplayManager::RemoveSeat removes from the list it iterates over: the
\* loop goes on at the next place of the memory that the list had at first,
\* where the entries behind a removed one have moved down by one.
Erase(list, name) ==
    LET n == Len(list)
        Visit(l, i) ==
            IF l.mem[i].seat # name THEN l
            ELSE LET at == {k \in 1 .. l.len : l.mem[k] = l.mem[i]}
                 IN IF at = {} THEN l
                    ELSE [mem |-> [j \in 1 .. n |->
                                     IF j < l.len /\ \E k \in at : k <= j
                                     THEN l.mem[j + 1] ELSE l.mem[j]],
                          len |-> l.len - 1]
        after[i \in 0 .. n] ==
            IF i = 0 THEN [mem |-> list, len |-> n] ELSE Visit(after[i - 1], i)
    IN SubSeq(after[n].mem, 1, after[n].len)

\* SeatManager::createSeat, k times, and DisplayManager::AddSeat: a Seat that
\* is there already is forgotten, not removed.
CreateSeat(s, k) ==
    /\ running' = [running EXCEPT ![s] = @ + k]
    /\ managed' = IF k > 0 THEN managed \union {s} ELSE managed
    /\ exported' = exported \o
         [i \in 1 .. k |-> [seat |-> s, object |-> running[s] + i]]

\* Fault: m_seats is not looked at first.
RemoveSeatUnchecked(s) ==
    /\ running' = [running EXCEPT ![s] = @ - 1]
    /\ managed' = managed \ {s}
    /\ exported' = Erase(exported, s)

\* SeatManager::removeSeat and DisplayManager::RemoveSeat.
RemoveSeat(s) ==
    IF s \in managed
    THEN /\ running' = [running EXCEPT ![s] = @ - 1]
         /\ managed' = managed \ {s}
         /\ exported' = Erase(exported, s)
    ELSE UNCHANGED <<running, managed, exported>>

\* The constructors of the LogindSeats for a sequence of seats: each subscribes,
\* unless the connection has the subscription, and asks.
Asked(q) ==
    LET asked[i \in 0 .. Len(q)] ==
            IF i = 0 THEN <<>>
            ELSE asked[i - 1]
                 \o (IF AliveFor(q[i]) = {}
                     THEN <<[op |-> "watch", seat |-> q[i]]>> ELSE <<>>)
                 \o <<[op |-> "Get", object |-> Len(logindSeats) + i]>>
    IN asked[Len(q)]

\* Fault: a LogindSeat waits for its property to change.
LogindSeatsAddedSilently(q) ==
    LET n == Len(logindSeats) IN
    /\ logindSeats' = logindSeats \o
         [i \in 1 .. Len(q) |->
            [seat |-> q[i], canGraphical |-> FALSE, alive |-> TRUE]]
    /\ systemSeats' = [s \in Seats |->
         IF \E i \in 1 .. Len(q) : q[i] = s
         THEN n + CHOOSE i \in 1 .. Len(q) : q[i] = s ELSE systemSeats[s]]
    /\ calls' = calls \o [i \in 1 .. Len(q) |-> [op |-> "watch", seat |-> q[i]]]
    /\ UNCHANGED <<managed, running, exported>>

\* SeatManager::logindSeatAdded for the seats of a sequence.  A LogindSeat
\* that is there already stays alive.
LogindSeatsAdded(q) ==
    LET n == Len(logindSeats) IN
    /\ logindSeats' = logindSeats \o
         [i \in 1 .. Len(q) |->
            [seat |-> q[i], canGraphical |-> FALSE, alive |-> TRUE]]
    /\ systemSeats' = [s \in Seats |->
         IF \E i \in 1 .. Len(q) : q[i] = s
         THEN n + CHOOSE i \in 1 .. Len(q) : q[i] = s ELSE systemSeats[s]]
    /\ calls' = calls \o Asked(q)
    /\ UNCHANGED <<managed, running, exported>>

ReceiveList ==
    /\ Receive("ListSeats")
    /\ LogindSeatsAdded(SetToSeq(Head(inbox).seats))

ReceiveSeatNew ==
    /\ Receive("SeatNew")
    /\ LogindSeatsAdded(<<Head(inbox).seat>>)

\* Fault: the displays of the seat stay.
ReceiveSeatRemovedKeeps ==
    /\ Receive("SeatRemoved")
    /\ LET s == Head(inbox).seat
           i == systemSeats[s]
       IN /\ systemSeats' = [systemSeats EXCEPT ![s] = 0]
          /\ logindSeats' = IF i = 0 THEN logindSeats
                            ELSE [logindSeats EXCEPT ![i].alive = FALSE]
          /\ calls' = Append(calls, [op |-> "unwatch", seat |-> s])
    /\ UNCHANGED <<managed, running, exported>>

\* SeatManager::logindSeatRemoved.
ReceiveSeatRemoved ==
    /\ Receive("SeatRemoved")
    /\ LET s == Head(inbox).seat
           i == systemSeats[s]
       IN /\ systemSeats' = [systemSeats EXCEPT ![s] = 0]
          /\ logindSeats' = IF i = 0 THEN logindSeats
                            ELSE [logindSeats EXCEPT ![i].alive = FALSE]
          /\ calls' = IF AliveFor(s) \ {i} = {} /\ i # 0
                      THEN Append(calls, [op |-> "unwatch", seat |-> s])
                      ELSE calls
          /\ RemoveSeat(s)

\* LogindSeat::propertiesChanged of every LogindSeat with this path, and the
\* slot that logindSeatAdded connects to canGraphicalChanged.
ReceivePropertiesChanged ==
    /\ Receive("PropertiesChanged")
    /\ LET s == Head(inbox).seat
           v == Head(inbox).value
       IN /\ logindSeats' = [i \in Objects |->
               IF Alive(i, s) THEN [logindSeats[i] EXCEPT !.canGraphical = v]
                              ELSE logindSeats[i]]
          /\ IF v THEN CreateSeat(s, Cardinality(AliveFor(s)))
             ELSE IF AliveFor(s) # {} THEN RemoveSeat(s)
             ELSE UNCHANGED <<running, managed, exported>>
    /\ UNCHANGED <<systemSeats, calls>>

\* Fault: the answer is taken for a change.
ReceiveGetAlways ==
    /\ Receive("Get")
    /\ LET i == Head(inbox).object
           v == Head(inbox).value
       IN IF v # "none" /\ logindSeats[i].alive
          THEN /\ logindSeats' = [logindSeats EXCEPT ![i].canGraphical = (v = "yes")]
               /\ IF v = "yes" THEN CreateSeat(logindSeats[i].seat, 1)
                               ELSE RemoveSeat(logindSeats[i].seat)
          ELSE UNCHANGED <<logindSeats, running, managed, exported>>
    /\ UNCHANGED <<systemSeats, calls>>

\* The answer to the question that the constructor of LogindSeat asked.
ReceiveGet ==
    /\ Receive("Get")
    /\ LET i == Head(inbox).object
           v == Head(inbox).value
       IN IF v # "none" /\ logindSeats[i].alive
             /\ logindSeats[i].canGraphical # (v = "yes")
          THEN /\ logindSeats' = [logindSeats EXCEPT ![i].canGraphical = (v = "yes")]
               /\ IF v = "yes" THEN CreateSeat(logindSeats[i].seat, 1)
                               ELSE RemoveSeat(logindSeats[i].seat)
          ELSE UNCHANGED <<logindSeats, running, managed, exported>>
    /\ UNCHANGED <<systemSeats, calls>>

Daemon ==
    /\ \/ ReceiveList \/ ReceiveSeatNew \/ ReceiveSeatRemoved
       \/ ReceivePropertiesChanged \/ ReceiveGet
    /\ UNCHANGED <<logindVars, subscribed, watched, historyVars>>

Next ==
    \/ \E s \in Seats : SeatAppears(s) \/ SeatVanishes(s) \/ CanGraphicalChanges(s)
    \/ BusMatches \/ LogindAnswers \/ Daemon

Spec == Init /\ [][Next]_vars

\* The bus, logind and the daemon handle what they are sent.
FairSpec == Spec /\ WF_vars(BusMatches) /\ WF_vars(LogindAnswers) /\ WF_vars(Daemon)
-----------------------------------------------------------------------------
(***************************************************************************)
(* Properties.                                                             *)
(***************************************************************************)
Known == {s \in Seats : systemSeats[s] # 0}

Quiet == calls = <<>> /\ inbox = <<>>

\* Unless a seat came or went while the daemon started to listen, or lost its
\* graphics unheard, there is never a second Seat (and a second set of displays)
\* for a seat, and the objects on D-Bus are those of the seats in m_seats, once
\* each.  canGraphicalChanged is emitted for every PropertiesChanged, changed or
\* not (SeatManager.cpp:92), so it takes logind to alternate.
OneSeatEach ==
    ~raced /\ ~missed =>
        /\ \A s \in Seats : running[s] = IF s \in managed THEN 1 ELSE 0
        /\ {exported[i].seat : i \in 1 .. Len(exported)} = managed
        /\ Len(exported) = Cardinality(managed)

\* Unless a seat came or went while the daemon started to listen, it ends up
\* with displays on the graphical seats and on no other, whatever order the
\* list, the signals and the answers of logind had, also for a seat that went
\* and came back under its name.
GraphicalSeatsOnly ==
    Quiet /\ ~raced => managed = graphical /\ Known = present

\* With seats that come and go while logind answers and signals, the displays
\* catch up with the graphical seats in the end.
CatchesUp == [](~raced) => <>[](managed = graphical)

\* daemon/SeatManager.h, m_systemSeats: "these will exist for all seats".
AllSeatsKnown == Quiet => present \subseteq Known
=============================================================================
