----------------------------- MODULE Lifecycle ------------------------------
(***************************************************************************)
(* The life of the VFd process: main() starts the ports one after the      *)
(* other, sets its signal handlers, initialises, loops until a signal has  *)
(* set terminated, and closes the ports.  A handler that is entered for a  *)
(* fault closes them itself and aborts.  A process that ends with ports    *)
(* open "seems to crash (all? most?) physical hosts" (main.c:1185).        *)
(***************************************************************************)
EXTENDS Naturals

CONSTANTS
  NPorts,     \* ports that VFd starts
  MaxStarts   \* bound: starts of VFd

ASSUME LifeAssumption == NPorts \in Nat \ {0} /\ MaxStarts \in Nat

VARIABLES
  vfd,        \* "down", "starting", "booting", "running", "ending" or "ended"
  up,         \* ports that DPDK has started and not closed
  caught,     \* set_signals was called
  terminated, \* the flag that sig_int sets
  killed,     \* the process got a signal that cannot be caught
  toClose,    \* close_ports: what main and the handler of a fault have left to close
  nstarts

lifeVars == <<vfd, up, caught, terminated, killed, toClose, nstarts>>

Ports   == 1 .. NPorts
Closers == {"main", "handler"}
Over    == vfd \in {"down", "ended"}
NoClose == [t \in Closers |-> {}]

LifeInit ==
  /\ vfd = "down" /\ up = {} /\ caught = FALSE /\ terminated = FALSE /\ killed = FALSE
  /\ toClose = NoClose /\ nstarts = 0

\* A new process resets the devices when DPDK probes them.
StartUp ==
  /\ Over /\ nstarts < MaxStarts
  /\ nstarts' = nstarts + 1
  /\ vfd' = "starting" /\ up' = {} /\ caught' = FALSE /\ terminated' = FALSE /\ killed' = FALSE
  /\ UNCHANGED toClose

First(P) == {p \in P : \A q \in P : p <= q}

\* port_init or dcb_port_init
StartPort ==
  /\ vfd = "starting"
  /\ \E p \in First(Ports \ up) : up' = up \cup {p}
  /\ UNCHANGED <<vfd, caught, terminated, killed, toClose, nstarts>>

Ended(how) ==
  /\ vfd' = how /\ toClose' = NoClose
  /\ UNCHANGED <<caught, terminated, nstarts>>

\* rte_exit, whatever was started before.
PortFails == vfd = "starting" /\ up # Ports /\ Ended("down") /\ UNCHANGED <<up, killed>>

SetSignals ==
  /\ vfd = "starting" /\ up = Ports
  /\ vfd' = "booting" /\ caught' = TRUE
  /\ UNCHANGED <<up, terminated, killed, toClose, nstarts>>

EnterLoop ==
  /\ vfd = "booting"
  /\ vfd' = "running"
  /\ UNCHANGED <<up, caught, terminated, killed, toClose, nstarts>>

CloseAll(t) == toClose' = [toClose EXCEPT ![t] = Ports]

LeaveLoop ==
  /\ vfd = "running" /\ terminated
  /\ vfd' = "ending" /\ CloseAll("main")
  /\ UNCHANGED <<up, caught, terminated, killed, nstarts>>

\* close_ports; both of its callers may be in it at once.
ClosePort(t) ==
  /\ \E p \in First(toClose[t]) :
       up' = up \ {p} /\ toClose' = [toClose EXCEPT ![t] = @ \ {p}]
  /\ UNCHANGED <<vfd, caught, terminated, killed, nstarts>>

Return == vfd = "ending" /\ toClose["main"] = {} /\ Ended("ended") /\ UNCHANGED <<up, killed>>

\* A signal from outside; a second one is ignored.
Signal ==
  /\ ~Over /\ caught /\ ~terminated
  /\ terminated' = TRUE
  /\ UNCHANGED <<vfd, up, caught, killed, toClose, nstarts>>

\* Before set_signals it ends the process.
SignalEarly == ~Over /\ ~caught /\ Ended("down") /\ UNCHANGED <<up, killed>>

Kill == ~Over /\ Ended("down") /\ killed' = TRUE /\ UNCHANGED up

\* SIGSEGV in a thread that is not main.
FaultNoClose ==                             \* mutant: core dump without closing
  /\ caught /\ ~terminated
  /\ terminated' = TRUE
  /\ UNCHANGED <<vfd, up, caught, killed, toClose, nstarts>>

Fault ==
  /\ caught /\ ~terminated
  /\ terminated' = TRUE /\ CloseAll("handler")
  /\ UNCHANGED <<vfd, up, caught, killed, nstarts>>

Abort == toClose["handler"] = {} /\ Ended("down") /\ UNCHANGED <<up, killed>>
=============================================================================
