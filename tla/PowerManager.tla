---------------------------- MODULE PowerManager ----------------------------
(***************************************************************************)
(* PowerManager of the daemon (daemon/PowerManager.cpp) with its back      *)
(* ends: systemd-logind and ConsoleKit2, which are asked for everything,   *)
(* and UPower, with the commands of the configuration.                     *)
(*                                                                         *)
(* The capabilities are asked for anew every time, so that what the        *)
(* greeter was offered may be refused, or done by another service.         *)
(***************************************************************************)
EXTENDS Naturals, Sequences, FiniteSets, SequencesExt, FiniteSetsExt

CONSTANTS
    Backends,       \* the services that were on the bus when the daemon
                    \* started: a sequence of "login1", "ck2" and "upower"
    Operations      \* the operations in use, as numbers of GreeterMessages

\* GreeterMessages: PowerOff, Reboot, Suspend, Hibernate, HybridSleep.
PowerOff == 2
Reboot == 3
Suspend == 4
Hibernate == 5
HybridSleep == 6

ASSUME PowerAssumption ==
    /\ Backends \in Seq({"login1", "ck2", "upower"})
    /\ Operations \subseteq PowerOff..HybridSleep

VARIABLE
    acts            \* what was done: a sequence of operations and back ends

\* What each service may answer: everything or nothing, anew every time.
\* Inhibitors, policies and hardware decide.
Answers == [1..Len(Backends) -> {Operations, {}}]

\* Capabilities of a back end.  UPower's can power off and reboot whatever the
\* service says, and knows no hybrid sleep.
BackendCapabilities(i, allowed) ==
    IF Backends[i] = "upower"
    THEN ({PowerOff, Reboot} \intersect Operations)
         \union (allowed[i] \intersect {Suspend, Hibernate})
    ELSE allowed[i]

\* PowerManager::capabilities.
Capabilities(allowed) == UNION {BackendCapabilities(i, allowed) : i \in 1..Len(Backends)}

\* The back ends that have the operation.
Able(op, allowed) == {i \in 1..Len(Backends) : op \in BackendCapabilities(i, allowed)}

\* Fault: the loop goes on after a back end has done it.
PerformByAll(op, allowed) ==
    acts' = acts \o SetToSeq({[operation |-> op, backend |-> Backends[i]] :
                                 i \in Able(op, allowed)})

\* PowerManager::powerOff, reboot, suspend, hibernate and hybridSleep: the first
\* back end that has it does it.
Perform(op, allowed) ==
    acts' = IF Able(op, allowed) = {} THEN acts
            ELSE Append(acts, [operation |-> op, backend |-> Backends[Min(Able(op, allowed))]])
=============================================================================
