-------------------------- MODULE ServiceLifecycle --------------------------
(***************************************************************************)
(* Managed services (services.py, inspect.py): Docker holds the containers, *)
(* the store holds one record per service, and a handler of a Core keeps    *)
(* its own copy of a record while it talks to Docker, then writes the whole *)
(* copy back.  Handlers of other Cores do so at the same time.  Containers  *)
(* crash, become ready and are restarted by hand behind the Cores' backs,   *)
(* the port of a container that has ended may go to anybody, and a          *)
(* cancellation, a time limit or the death of the Core ends a handler       *)
(* between any two steps.                                                   *)
(***************************************************************************)
EXTENDS Naturals

CONSTANTS
    Cores,          \* Core processes on one store, one handler each at a time
    Services,       \* service identifiers, one container each (uuid4)
    Ports,          \* host ports Docker publishes containers on
    MaxPolls,       \* readiness polls that fit in ready_timeout_seconds
    None            \* no port, no service, no inspection

ASSUME ConstantsAssumption ==
    /\ None \notin Ports \cup Services
    /\ MaxPolls \in Nat

VARIABLES
    cont,      \* [Services -> Containers]           what Docker knows
    row,       \* [Services -> Records \cup {NoRow}] the stored record
    pc,        \* [Cores -> Steps]
    svc,       \* [Cores -> Services \cup {None}]    the handler's service
    copy,      \* [Cores -> Records \cup {NoRow}]    its copy of the record
    seen,      \* [Cores -> Observations \cup {None}] what _stop inspected last
    polls,     \* [Cores -> 0..MaxPolls]             readiness polls done
    \* history
    tried,     \* SUBSET Services: its container has answered, or has exited
    restarted, \* SUBSET Services: started by hand since a _stop last saw it exited
    confirmed, \* SUBSET Services: a caller was told that it is stopped
    lost,      \* SUBSET Services: interrupted before the record was written
    overtaken  \* SUBSET Cores: another Core has written the record since the
               \* handler read it

handler == <<pc, svc, copy, seen, polls>>
claims == <<restarted, confirmed, lost>>
vars == <<cont, tried, row, overtaken, handler, claims>>

ContainerStates == {"absent", "created", "running", "exited"}
Containers == [state : ContainerStates, port : Ports \cup {None}, up : BOOLEAN]
Observations == {"created", "running", "exited", "inspect_failed", "ready"}
Records == [desired : {"running", "stopped"}, observed : Observations,
            port : Ports \cup {None}]
NoRow == [desired |-> "none", observed |-> "none", port |-> None]
Steps == {"idle", "run", "record", "observe", "wait", "probe",
          "stop", "stopped", "write", "reply", "recover", "get"}

Busy(c) == pc[c] # "idle"
Recorded(s) == row[s] # NoRow
Running(s) == cont[s].state = "running"

\* Whether HTTP on the recorded port of a service may be answered.  While its
\* own container holds the port nobody else answers; once it does not, Docker or
\* the host may have given the port to anybody.
MayAnswer(s, p) == Running(s) /\ cont[s].port = p => cont[s].up

\* Docker publishes 127.0.0.1::8000 on a port no running container holds.
FreePorts == {p \in Ports : \A k \in Services : Running(k) => cont[k].port # p}

TypeOK ==
    /\ cont \in [Services -> Containers]
    /\ row \in [Services -> Records \cup {NoRow}]
    /\ pc \in [Cores -> Steps]
    /\ svc \in [Cores -> Services \cup {None}]
    /\ copy \in [Cores -> Records \cup {NoRow}]
    /\ seen \in [Cores -> Observations \cup {"absent", None}]
    /\ polls \in [Cores -> 0..MaxPolls]
    /\ tried \subseteq Services
    /\ restarted \subseteq Services
    /\ confirmed \subseteq Services
    /\ lost \subseteq Services
    /\ overtaken \subseteq Cores

Init ==
    /\ cont = [s \in Services |-> [state |-> "absent", port |-> None, up |-> FALSE]]
    /\ row = [s \in Services |-> NoRow]
    /\ pc = [c \in Cores |-> "idle"]
    /\ svc = [c \in Cores |-> None]
    /\ copy = [c \in Cores |-> NoRow]
    /\ seen = [c \in Cores |-> None]
    /\ polls = [c \in Cores |-> 0]
    /\ tried = {} /\ restarted = {} /\ confirmed = {} /\ lost = {}
    /\ overtaken = {}

-----------------------------------------------------------------------------
\* Steps of a handler.
Goto(c, step) == pc' = [pc EXCEPT ![c] = step]

\* The handler returns or raises, and its copy of the record is gone.
Return(c) ==
    /\ Goto(c, "idle")
    /\ svc' = [svc EXCEPT ![c] = None]
    /\ copy' = [copy EXCEPT ![c] = NoRow]
    /\ seen' = [seen EXCEPT ![c] = None]
    /\ polls' = [polls EXCEPT ![c] = 0]

\* store.put_service_instance: the whole payload replaces the stored one,
\* whatever another Core has stored since it was read.
Store(c, record) ==
    /\ row' = [row EXCEPT ![svc[c]] = record]
    /\ overtaken' = (overtaken \ {c}) \cup {d \in Cores \ {c} : svc[d] = svc[c]}

Put(c, record) ==
    /\ Store(c, record)
    /\ copy' = [copy EXCEPT ![c] = record]

PutAndReturn(c, record) ==
    /\ Store(c, record)
    /\ Return(c)

\* The handler ends without a word in the store.
Leave(c) ==
    /\ Return(c)
    /\ overtaken' = overtaken \ {c}
    /\ UNCHANGED row

\* The record with what was observed of the container and its endpoint.
Observed(record, state, port) ==
    [desired |-> record.desired, observed |-> state, port |-> port]

\* What docker container inspect reports: the state, or a failed call.
Inspected(s) == {cont[s].state, "inspect_failed"}

Started(s, p) ==
    /\ cont' = [cont EXCEPT ![s] = [state |-> "running", port |-> p, up |-> FALSE]]
    /\ UNCHANGED tried

Halted(s) ==
    /\ cont' = [cont EXCEPT ![s] =
                                [state |-> "exited", port |-> cont[s].port, up |-> FALSE]]
    /\ tried' = tried \cup {s}

\* _start up to docker run: the frozen plan has been replayed and the image,
\* the model and the command line are in order; the service id is new.
BeginStart(c, s) ==
    /\ pc[c] = "idle"
    /\ cont[s].state = "absent"
    /\ \A d \in Cores : svc[d] # s
    /\ Goto(c, "run")
    /\ svc' = [svc EXCEPT ![c] = s]
    /\ UNCHANGED <<cont, tried, row, overtaken, copy, seen, polls, claims>>

\* docker run -d succeeds and prints the container id.
RunContainer(c) ==
    /\ pc[c] = "run"
    /\ \E p \in FreePorts : Started(svc[c], p)
    /\ Goto(c, "record")
    /\ UNCHANGED <<row, overtaken, svc, copy, seen, polls, claims>>

\* docker run exits with an error: no container, or one that never ran.
RunFails(c) ==
    /\ pc[c] = "run"
    /\ \/ UNCHANGED cont
       \/ cont' = [cont EXCEPT ![svc[c]] =
                                    [state |-> "created", port |-> None, up |-> FALSE]]
    /\ Leave(c)
    /\ UNCHANGED <<tried, claims>>

Created == [desired |-> "running", observed |-> "created", port |-> None]

RecordLate(c) ==                  \* the record waits for the first inspection
    /\ pc[c] = "record"
    /\ copy' = [copy EXCEPT ![c] = Created]
    /\ Goto(c, "observe")
    /\ UNCHANGED <<cont, tried, row, overtaken, svc, seen, polls, claims>>

\* The managed record is stored before any state is derived from Docker.
Record(c) ==
    /\ pc[c] = "record"
    /\ Put(c, Created)
    /\ Goto(c, "observe")
    /\ UNCHANGED <<cont, tried, svc, seen, polls, claims>>

\* First inspection: a running container's port and state are stored, then
\* the handler waits for readiness, or returns at once (ready_timeout 0).
ObserveRunning(c) ==
    /\ pc[c] = "observe"
    /\ Running(svc[c])
    /\ LET found == Observed(copy[c], "running", cont[svc[c]].port)
       IN  \/ /\ Put(c, found)
              /\ Goto(c, "wait")
              /\ UNCHANGED <<svc, seen, polls>>
           \/ PutAndReturn(c, found)
    /\ UNCHANGED <<cont, tried, claims>>

\* First inspection: not running or not readable, container_start_failed.
ObserveNotRunning(c) ==
    /\ pc[c] = "observe"
    /\ \E state \in Inspected(svc[c]) \ {"running"} :
           PutAndReturn(c, Observed(copy[c], state, copy[c].port))
    /\ UNCHANGED <<cont, tried, claims>>

PollUncounted(c) ==               \* the deadline moves with every poll
    /\ pc[c] = "wait"
    /\ polls[c] < MaxPolls
    /\ Goto(c, "probe")
    /\ UNCHANGED <<cont, tried, row, overtaken, svc, copy, seen, polls, claims>>

\* _wait_ready, top of the loop: before the deadline, the container is not
\* seen to have exited (a failed inspection counts as not exited).
Poll(c) ==
    /\ pc[c] = "wait"
    /\ polls[c] < MaxPolls
    /\ Goto(c, "probe")
    /\ polls' = [polls EXCEPT ![c] = @ + 1]
    /\ UNCHANGED <<cont, tried, row, overtaken, svc, copy, seen, claims>>

\* _wait_ready: the container has exited; its state is stored, and
\* runtime_not_ready raised.
PollExited(c) ==
    /\ pc[c] = "wait"
    /\ polls[c] < MaxPolls
    /\ cont[svc[c]].state = "exited"
    /\ PutAndReturn(c, Observed(copy[c], "exited", copy[c].port))
    /\ UNCHANGED <<cont, tried, claims>>

\* _wait_ready: GET /v1/models on the endpoint answers 200.
ProbeReady(c) ==
    /\ pc[c] = "probe"
    /\ MayAnswer(svc[c], copy[c].port)
    /\ PutAndReturn(c, Observed(copy[c], "ready", copy[c].port))
    /\ UNCHANGED <<cont, tried, claims>>

\* _wait_ready: no answer, wait and poll again.
ProbeFails(c) ==
    /\ pc[c] = "probe"
    /\ Goto(c, "wait")
    /\ UNCHANGED <<cont, tried, row, overtaken, svc, copy, seen, polls, claims>>

\* Variant: the deadline does not look at whether an answer came.
NotReadyForgotten(c) ==
    /\ pc[c] = "wait"
    /\ polls[c] = MaxPolls
    /\ PutAndReturn(c, Observed(copy[c], "ready", copy[c].port))
    /\ UNCHANGED <<cont, tried, claims>>

\* The deadline: the record keeps its state, the container keeps running.
NotReady(c) ==
    /\ pc[c] = "wait"
    /\ polls[c] = MaxPolls
    /\ PutAndReturn(c, copy[c])
    /\ UNCHANGED <<cont, tried, claims>>

-----------------------------------------------------------------------------
\* _stop and _recover read the record first; both inspect the container
\* before they act, and raise provider_error when that fails.
Read(c, s, step) ==
    /\ pc[c] = "idle"
    /\ Recorded(s)
    /\ Goto(c, step)
    /\ svc' = [svc EXCEPT ![c] = s]
    /\ copy' = [copy EXCEPT ![c] = row[s]]
    /\ UNCHANGED <<cont, tried, row, overtaken, seen, polls, claims>>

BeginStop(c, s) == Read(c, s, "stop")
BeginRecover(c, s) == Read(c, s, "recover")
BeginGet(c, s) == Read(c, s, "get")

\* docker container stop: the container exits, or was not running.
StopContainer(c) ==
    /\ pc[c] = "stop"
    /\ IF Running(svc[c]) THEN Halted(svc[c]) ELSE UNCHANGED <<cont, tried>>
    /\ Goto(c, "stopped")
    /\ UNCHANGED <<row, overtaken, svc, copy, seen, polls, claims>>

InspectNothing(c) ==              \* docker stop is taken at its word
    /\ pc[c] = "stopped"
    /\ seen' = [seen EXCEPT ![c] = "exited"]
    /\ restarted' = restarted \ {svc[c]}
    /\ Goto(c, "write")
    /\ UNCHANGED <<cont, tried, row, overtaken, svc, copy, polls, confirmed, lost>>

\* _stop inspects the container again, and keeps what it saw as an artifact ...
InspectStopped(c) ==
    /\ pc[c] = "stopped"
    /\ \E state \in Inspected(svc[c]) :
           /\ seen' = [seen EXCEPT ![c] = state]
           /\ restarted' = IF state = "exited" THEN restarted \ {svc[c]} ELSE restarted
    /\ Goto(c, "write")
    /\ UNCHANGED <<cont, tried, row, overtaken, svc, copy, polls, confirmed, lost>>

\* ... writes the record with it ...
RecordStop(c) ==
    /\ pc[c] = "write"
    /\ Put(c, [desired |-> "stopped", observed |-> seen[c], port |-> copy[c].port])
    /\ Goto(c, "reply")
    /\ UNCHANGED <<cont, tried, svc, seen, polls, claims>>

\* ... and replies: only what it saw exited is reported as a confirmed stop.
ReplyStop(c) ==
    /\ pc[c] = "reply"
    /\ confirmed' = confirmed \cup IF seen[c] = "exited" THEN {svc[c]} ELSE {}
    /\ Leave(c)
    /\ UNCHANGED <<cont, tried, restarted, lost>>

RecoverRunning(c) ==              \* recover restores what the caller wanted
    /\ pc[c] = "recover"
    /\ LET s == svc[c]
       IN  PutAndReturn(c, [desired |-> "running", observed |-> cont[s].state,
                            port |-> IF Running(s) THEN cont[s].port ELSE copy[c].port])
    /\ UNCHANGED <<cont, tried, claims>>

\* _recover: the record takes the container's state, and its port when it
\* runs; desired is left alone, and ready is never observed this way.
Recover(c) ==
    /\ pc[c] = "recover"
    /\ LET s == svc[c]
       IN  PutAndReturn(c, Observed(copy[c], cont[s].state,
                            IF Running(s) THEN cont[s].port ELSE copy[c].port))
    /\ UNCHANGED <<cont, tried, claims>>

\* inspect_service get: the copy is written back with a new last_observed_at.
GetRecorded(c) ==
    /\ pc[c] = "get"
    /\ PutAndReturn(c, copy[c])
    /\ UNCHANGED <<cont, tried, claims>>

\* A check of the handler fails (docker not readable, docker stop failed, no
\* loopback port): it raises and nothing is written.
Refused(c) ==
    /\ pc[c] \in {"observe", "stop", "recover"}
    /\ Leave(c)
    /\ UNCHANGED <<cont, tried, claims>>

\* The request is cancelled, a command times out or the Core dies.  It may
\* come after docker run or docker stop took effect: run_command checks for a
\* cancellation once more after the command, and the result is lost with it.
Interrupt(c) ==
    /\ Busy(c)
    /\ Leave(c)
    /\ lost' = IF pc[c] = "record" THEN lost \cup {svc[c]} ELSE lost
    /\ UNCHANGED <<cont, tried, restarted, confirmed>>

HandlerStep(c) ==
    \/ RunContainer(c) \/ RunFails(c) \/ Record(c)
    \/ ObserveRunning(c) \/ ObserveNotRunning(c)
    \/ Poll(c) \/ PollExited(c) \/ ProbeReady(c) \/ ProbeFails(c) \/ NotReady(c)
    \/ StopContainer(c) \/ InspectStopped(c) \/ RecordStop(c) \/ ReplyStop(c)
    \/ Recover(c) \/ GetRecorded(c) \/ Refused(c)

-----------------------------------------------------------------------------
\* Docker and the user, outside the Core.
ServerUp(s) ==                    \* the engine has loaded the model
    /\ Running(s) /\ ~cont[s].up
    /\ cont' = [cont EXCEPT ![s] = [state |-> "running", port |-> cont[s].port, up |-> TRUE]]
    /\ tried' = tried \cup {s}
    /\ UNCHANGED <<row, overtaken, handler, claims>>

Crash(s) ==                       \* out of memory, host reboot, docker stop
    /\ Running(s)
    /\ Halted(s)
    /\ UNCHANGED <<row, overtaken, handler, claims>>

Restart(s) ==                     \* docker start by hand, on a new port
    /\ cont[s].state = "exited"
    /\ \E p \in FreePorts : Started(s, p)
    /\ restarted' = restarted \cup {s}
    /\ UNCHANGED <<row, overtaken, handler, confirmed, lost>>

Next ==
    \/ \E c \in Cores :
        \/ HandlerStep(c)
        \/ Interrupt(c)
        \/ \E s \in Services :
            \/ BeginStart(c, s) \/ BeginStop(c, s)
            \/ BeginRecover(c, s) \/ BeginGet(c, s)
    \/ \E s \in Services : ServerUp(s) \/ Crash(s) \/ Restart(s)

Spec == Init /\ [][Next]_vars

\* run_command bounds every Docker call and _wait_ready the polling, so a
\* handler that can take a step takes one.
FairSpec == Spec /\ \A c \in Cores : WF_vars(HandlerStep(c))

-----------------------------------------------------------------------------
\* A running container has a record that stop can name, or a handler about to
\* write one; a container is lost only if its handler is interrupted between
\* docker run and the record, never later and never by a failed observation
\* (_start records before it observes).
RunningIsRecorded ==
    \A s \in Services :
        Running(s) => \/ Recorded(s)
                      \/ s \in lost
                      \/ \E c \in Cores : svc[c] = s /\ pc[c] = "record"

\* A record says ready only of a service whose own container has answered, or
\* whose container has exited behind the record's back: then its port may have
\* been given to somebody else, who has answered (_wait_ready is the one writer
\* of ready, and it probes the recorded endpoint).
ReadyIsEarned == \A s \in Services : row[s].observed = "ready" => s \in tried

\* A stop reported as confirmed is true: the container does not run, unless
\* somebody has started it by hand since _stop saw it exited,
\* be it before the reply or after it.
ConfirmedStopHolds == \A s \in confirmed : Running(s) => s \in restarted

\* Only a handler that another Core has overtaken makes a stopped service wanted
\* again: recover, get and the waits of start write whole copies back, and none
\* of them decides by itself to undo a stop.
StopUndone(s) == row[s].desired = "stopped" /\ row'[s].desired # "stopped"
StopsAreUndoneByOldCopies ==
    [][\A s \in Services : StopUndone(s) => \E c \in overtaken : svc[c] = s]_vars

\* inspect_service changes neither what a record wants nor what it says was
\* observed (inspect.py: read-only, only last_observed_at is refreshed).
GetKeepsRows == \A c \in Cores : GetRecorded(c) => row' = row
InspectIsReadOnly == [][GetKeepsRows]_vars

\* Every handler returns: docker calls and readiness polls are bounded.
HandlersReturn == \A c \in Cores : Busy(c) ~> ~Busy(c)
=============================================================================
