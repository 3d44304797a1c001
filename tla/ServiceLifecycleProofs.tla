----------------------- MODULE ServiceLifecycleProofs -----------------------
(***************************************************************************)
(* Machine-checked theorems about ServiceLifecycle, for any number of Cores *)
(* whose handlers interrupt each other anywhere: no container runs          *)
(* unaccounted for, ready is earned, a confirmed stop is true, and only an  *)
(* overtaken handler undoes a stop.  The first part is the invariant all of *)
(* them rest on, the second says how a step moves one container and one     *)
(* record, and each theorem adds its own conjuncts after it.                *)
(***************************************************************************)
EXTENDS ServiceLifecycle, TLAPS

\* The handler works on a record that is stored.
Holds(c) == pc[c] \notin {"idle", "run", "record"}

\* A handler at work knows its service, a holder has a real record of it, and
\* what _stop saw can be recorded.
HandlersHold ==
    \A c \in Cores :
        /\ Busy(c) => svc[c] \in Services
        /\ Holds(c) => copy[c] \in Records /\ Recorded(svc[c])
        /\ pc[c] \in {"write", "reply"} => seen[c] \in Observations \ {"ready"}

\* Records, stored or about to be, are of containers that were created.
RecordsAreReal ==
    /\ \A s \in Services : Recorded(s) => cont[s].state # "absent"
    /\ \A c \in Cores : pc[c] = "record" => cont[svc[c]].state # "absent"

\* A service that is being started belongs to its handler alone.
StartsAlone ==
    \A c \in Cores :
        /\ pc[c] = "run" => cont[svc[c]].state = "absent"
        /\ pc[c] \in {"run", "record"} =>
              /\ ~Recorded(svc[c])
              /\ \A d \in Cores \ {c} : svc[d] # svc[c]

\* A container that ran is accounted for, also while it is exited, since it
\* may be started again by hand.
Accounted(s) ==
    \/ Recorded(s)
    \/ s \in lost
    \/ \E c \in Cores : svc[c] = s /\ pc[c] = "record"
RanIsAccounted ==
    \A s \in Services : cont[s].state \in {"running", "exited"} => Accounted(s)

ServiceInv ==
    /\ TypeOK
    /\ HandlersHold
    /\ RecordsAreReal
    /\ StartsAlone
    /\ RanIsAccounted

-----------------------------------------------------------------------------
LEMMA NoRowIsNoRecord == NoRow \notin Records
    BY DEF NoRow, Records

LEMMA InitEstablishes == Init => ServiceInv
<1> SUFFICES ASSUME Init PROVE ServiceInv
    OBVIOUS
<1>1. TypeOK
    BY ConstantsAssumption DEF Init, TypeOK, Containers, ContainerStates, Steps
<1>2. HandlersHold /\ RecordsAreReal /\ StartsAlone
    BY DEF Init, HandlersHold, RecordsAreReal, StartsAlone, Busy, Holds, Recorded
<1>3. RanIsAccounted
    BY DEF Init, RanIsAccounted
<1>4. QED
    BY <1>1, <1>2, <1>3 DEF ServiceInv

\* A new handler takes a service or a stored record, and nothing else moves.
LEMMA BeginPreserves ==
    ASSUME ServiceInv, NEW c \in Cores, NEW s \in Services,
           \/ BeginStart(c, s)
           \/ \E step \in {"stop", "recover", "get"} : Read(c, s, step)
    PROVE  ServiceInv'
<1> USE DEF ServiceInv, TypeOK, claims, Goto
<1>1. ASSUME BeginStart(c, s)
      PROVE  ServiceInv'
  <2> USE <1>1 DEF BeginStart
  <2>1. TypeOK'
      BY DEF Steps
  <2>2. HandlersHold'
      BY DEF HandlersHold, Busy, Holds, Recorded
  <2>3. RecordsAreReal'
      BY DEF RecordsAreReal, Recorded
  <2>4. StartsAlone'
    <3>1. ~Recorded(s) /\ \A d \in Cores : pc[d] = "record" => svc[d] # s
        BY DEF RecordsAreReal
    <3>2. QED
        BY <3>1 DEF StartsAlone, Recorded
  <2>5. RanIsAccounted'
      BY DEF RanIsAccounted, Accounted, Recorded
  <2>6. QED
      BY <2>1, <2>4, <2>2, <2>3, <2>5
<1>2. ASSUME NEW step \in {"stop", "recover", "get"}, Read(c, s, step)
      PROVE  ServiceInv'
  <2> USE <1>2 DEF Read
  <2>1. row[s] \in Records
      BY DEF Recorded
  <2>2. TypeOK'
      BY <2>1 DEF Steps
  <2>3. HandlersHold'
      BY <2>1 DEF HandlersHold, Busy, Holds, Recorded
  <2>4. RecordsAreReal'
      BY DEF RecordsAreReal, Recorded
  <2>5. StartsAlone'
      BY DEF StartsAlone, Recorded
  <2>6. RanIsAccounted'
      BY DEF RanIsAccounted, Accounted, Recorded
  <2>7. QED
      BY <2>2, <2>3, <2>4, <2>5, <2>6
<1>3. QED
    BY <1>1, <1>2

\* docker run: the container that runs is the one about to be recorded.
LEMMA RunPreserves ==
    ASSUME ServiceInv, NEW c \in Cores, RunContainer(c) \/ RunFails(c)
    PROVE  ServiceInv'
<1> USE DEF ServiceInv, TypeOK, claims, Goto
<1>1. /\ svc[c] \in Services
      /\ ~Recorded(svc[c])
      /\ \A d \in Cores \ {c} : svc[d] # svc[c]
    BY DEF HandlersHold, Busy, StartsAlone, RunContainer, RunFails
<1>2. ASSUME RunContainer(c)
      PROVE  ServiceInv'
  <2>1. PICK p \in FreePorts : Started(svc[c], p)
      BY <1>2 DEF RunContainer
  <2>2. p \in Ports
      BY DEF FreePorts
  <2> USE <1>1, <1>2, <2>1, <2>2 DEF RunContainer, Started
  <2>3. TypeOK'
      BY DEF Steps, Containers, ContainerStates
  <2>4. HandlersHold'
      BY DEF HandlersHold, Busy, Holds, Recorded
  <2>5. RecordsAreReal'
      BY DEF RecordsAreReal, Recorded
  <2>6. StartsAlone'
      BY DEF StartsAlone, Recorded, HandlersHold, Busy
  <2>7. RanIsAccounted'
      BY DEF RanIsAccounted, Accounted, Recorded
  <2>8. QED
      BY <2>3, <2>4, <2>5, <2>6, <2>7
<1>3. ASSUME RunFails(c)
      PROVE  ServiceInv'
  <2>1. /\ UNCHANGED <<tried, row, restarted, confirmed, lost>>
        /\ overtaken' \subseteq overtaken
        /\ Return(c)
        /\ pc[c] = "run"
      BY <1>3 DEF RunFails, Leave
  <2>2. \/ UNCHANGED cont
        \/ \E k \in Containers : /\ k.state = "created"
                                 /\ cont' = [cont EXCEPT ![svc[c]] = k]
      BY <1>3 DEF RunFails, Containers, ContainerStates
  <2> USE <1>1, <2>1, <2>2 DEF Return
  <2>3. TypeOK'
      BY ConstantsAssumption DEF Steps
  <2>4. HandlersHold'
      BY DEF HandlersHold, Busy, Holds, Recorded
  <2>5. RecordsAreReal'
      BY DEF RecordsAreReal, Recorded, HandlersHold, Busy
  <2>6. StartsAlone'
      BY ConstantsAssumption DEF StartsAlone, Recorded, HandlersHold, Busy
  <2>7. RanIsAccounted'
      BY DEF RanIsAccounted, Accounted, Recorded
  <2>8. QED
      BY <2>3, <2>4, <2>5, <2>6, <2>7
<1>4. QED
    BY <1>2, <1>3

\* The record is stored while the handler still accounts for the container.
LEMMA RecordPreserves ==
    ASSUME ServiceInv, NEW c \in Cores, Record(c)
    PROVE  ServiceInv'
<1> USE DEF ServiceInv, TypeOK, claims, Goto, Record, Put, Store
<1>1. /\ svc[c] \in Services
      /\ \A d \in Cores \ {c} : svc[d] # svc[c]
    BY DEF HandlersHold, Busy, StartsAlone
<1>2. Created \in Records /\ Created # NoRow
    BY NoRowIsNoRecord DEF Created, Records, Observations
<1>3. TypeOK'
    BY <1>1, <1>2 DEF Steps
<1>4. HandlersHold'
    BY <1>1, <1>2 DEF HandlersHold, Busy, Holds, Recorded
<1>5. RecordsAreReal'
    BY <1>1 DEF RecordsAreReal, Recorded
<1>6. StartsAlone'
    BY <1>1 DEF StartsAlone, Recorded, HandlersHold, Busy
<1>7. RanIsAccounted'
    BY <1>1, <1>2 DEF RanIsAccounted, Accounted, Recorded
<1>8. QED
    BY <1>3, <1>4, <1>5, <1>6, <1>7

\* A holder writes a record, and goes on or returns; Docker is not touched.
Writes(c, r) ==
    /\ \/ PutAndReturn(c, r)
       \/ /\ Put(c, r)
          /\ \E step \in {"wait", "reply"} :
                 Goto(c, step) /\ (step = "reply" => pc[c] = "write")
          /\ UNCHANGED <<svc, seen, polls>>
    /\ UNCHANGED <<cont, tried, claims>>

\* What is written comes from the copy and the container; only a probe that
\* was answered makes a record ready.
Derived(c, r) ==
    /\ r.desired \in {copy[c].desired, "stopped"}
    /\ r.observed = "ready" => copy[c].observed = "ready" \/ ProbeReady(c)

Writer(c) ==
    \/ ObserveRunning(c) \/ ObserveNotRunning(c) \/ PollExited(c)
    \/ ProbeReady(c) \/ NotReady(c) \/ RecordStop(c)
    \/ Recover(c) \/ GetRecorded(c)

LEMMA WritersWrite ==
    ASSUME ServiceInv, NEW c \in Cores, Writer(c)
    PROVE  Holds(c) /\ \E r \in Records : Writes(c, r) /\ Derived(c, r)
<1> USE DEF ServiceInv
<1>1. Holds(c)
    BY DEF Writer, Holds, ObserveRunning, ObserveNotRunning, PollExited, ProbeReady,
           NotReady, RecordStop, Recover, GetRecorded
<1>2. svc[c] \in Services /\ copy[c] \in Records
    BY <1>1 DEF HandlersHold, Busy, Holds
<1>3. /\ cont[svc[c]].state \in Observations \ {"ready"}
      /\ cont[svc[c]].port \in Ports \cup {None}
      /\ copy[c].port \in Ports \cup {None}
      /\ Inspected(svc[c]) \subseteq Observations \ {"ready"}
    BY <1>1, <1>2 DEF TypeOK, Containers, ContainerStates, Records, Observations,
                      HandlersHold, RecordsAreReal, Inspected
<1>4. "running" \in Observations /\ "exited" \in Observations /\ "ready" \in Observations
    BY DEF Observations
<1> USE <1>2, <1>3, <1>4 DEF Derived
<1>5. CASE ObserveRunning(c)
  <2> DEFINE r == Observed(copy[c], "running", cont[svc[c]].port)
  <2>1. r \in Records /\ Derived(c, r)
      BY DEF Observed, Records
  <2>2. Writes(c, r)
      BY <1>5 DEF ObserveRunning, Writes
  <2> HIDE DEF r
  <2>3. QED
      BY <1>1, <2>1, <2>2
<1>6. CASE ObserveNotRunning(c)
  <2>1. PICK state \in Inspected(svc[c]) :
            PutAndReturn(c, Observed(copy[c], state, copy[c].port))
      BY <1>6 DEF ObserveNotRunning
  <2> DEFINE r == Observed(copy[c], state, copy[c].port)
  <2>2. r \in Records /\ Derived(c, r)
      BY DEF Observed, Records
  <2>3. Writes(c, r)
      BY <1>6, <2>1 DEF ObserveNotRunning, Writes
  <2> HIDE DEF r
  <2>4. QED
      BY <1>1, <2>2, <2>3
<1>7. CASE PollExited(c)
  <2> DEFINE r == Observed(copy[c], "exited", copy[c].port)
  <2>1. r \in Records /\ Derived(c, r)
      BY DEF Observed, Records
  <2>2. Writes(c, r)
      BY <1>7 DEF PollExited, Writes
  <2> HIDE DEF r
  <2>3. QED
      BY <1>1, <2>1, <2>2
<1>8. CASE ProbeReady(c)
  <2> DEFINE r == Observed(copy[c], "ready", copy[c].port)
  <2>1. r \in Records /\ Derived(c, r)
      BY <1>8 DEF Observed, Records
  <2>2. Writes(c, r)
      BY <1>8 DEF ProbeReady, Writes
  <2> HIDE DEF r
  <2>3. QED
      BY <1>1, <2>1, <2>2
<1>9. CASE NotReady(c) \/ GetRecorded(c)
  <2>1. Writes(c, copy[c])
      BY <1>9 DEF NotReady, GetRecorded, Writes
  <2>2. QED
      BY <1>1, <2>1
<1>10. CASE RecordStop(c)
  <2> DEFINE r == [desired |-> "stopped", observed |-> seen[c], port |-> copy[c].port]
  <2>1. seen[c] \in Observations \ {"ready"}
      BY <1>10 DEF RecordStop, HandlersHold
  <2>2. r \in Records /\ Derived(c, r)
      BY <2>1 DEF Records
  <2>3. Writes(c, r)
      BY <1>10 DEF RecordStop, Writes
  <2> HIDE DEF r
  <2>4. QED
      BY <1>1, <2>2, <2>3
<1>11. CASE Recover(c)
  <2> DEFINE q == IF Running(svc[c]) THEN cont[svc[c]].port ELSE copy[c].port
             r == Observed(copy[c], cont[svc[c]].state, q)
  <2>1. q \in Ports \cup {None}
      OBVIOUS
  <2>2. Writes(c, r)
      BY <1>11 DEF Recover, Writes
  <2> HIDE DEF q
  <2>3. r \in Records /\ Derived(c, r)
      BY <2>1 DEF Observed, Records
  <2> HIDE DEF r
  <2>4. QED
      BY <1>1, <2>2, <2>3
<1>12. QED
    BY <1>5, <1>6, <1>7, <1>8, <1>9, <1>10, <1>11 DEF Writer

\* A write keeps the written service recorded.
LEMMA WritePreserves ==
    ASSUME ServiceInv, NEW c \in Cores, Holds(c), NEW r \in Records, Writes(c, r)
    PROVE  ServiceInv'
<1> USE DEF ServiceInv, TypeOK, claims, Goto, Store, Put, PutAndReturn, Return, Writes
<1>1. svc[c] \in Services /\ Recorded(svc[c]) /\ r # NoRow
    BY NoRowIsNoRecord DEF HandlersHold, Busy, Holds
<1>2. row' = [row EXCEPT ![svc[c]] = r]
    OBVIOUS
<1>3. TypeOK'
    BY <1>1, <1>2, ConstantsAssumption DEF Steps
<1>4. \A s \in Services : Recorded(s)' <=> Recorded(s)
    BY <1>1, <1>2 DEF Recorded
<1>5. HandlersHold'
    BY <1>1, <1>4 DEF HandlersHold, Busy, Holds
<1>6. RecordsAreReal'
    BY <1>4 DEF RecordsAreReal, Holds
<1>7. StartsAlone'
  <2>1. \A d \in Cores : pc'[d] \in {"run", "record"} =>
            d # c /\ pc[d] = pc'[d] /\ svc'[d] = svc[d] /\ svc[d] \in Services
      BY DEF HandlersHold, Busy
  <2>2. \A d \in Cores : svc'[d] \in {svc[d], None}
      OBVIOUS
  <2>3. QED
      BY <1>4, <2>1, <2>2, ConstantsAssumption DEF StartsAlone
<1>8. RanIsAccounted'
    BY <1>4 DEF RanIsAccounted, Accounted, Holds
<1>9. QED
    BY <1>3, <1>5, <1>6, <1>7, <1>8

\* Steps that move a holder on and write nothing: polling and inspecting read
\* Docker, docker stop only ever takes a container down.
LEMMA MovePreserves ==
    ASSUME ServiceInv, NEW c \in Cores,
           Poll(c) \/ ProbeFails(c) \/ StopContainer(c) \/ InspectStopped(c)
    PROVE  ServiceInv'
<1> USE DEF ServiceInv, TypeOK, claims, Goto
<1>1. svc[c] \in Services /\ Holds(c) /\ cont[svc[c]].state # "absent"
    BY DEF HandlersHold, RecordsAreReal, Busy, Holds, Poll, ProbeFails, StopContainer,
           InspectStopped
<1>2. CASE Poll(c) \/ ProbeFails(c)
  <2> USE <1>1, <1>2 DEF Poll, ProbeFails
  <2>1. TypeOK'
      BY ConstantsAssumption DEF Steps
  <2>2. HandlersHold'
      BY DEF HandlersHold, Busy, Holds, Recorded
  <2>3. RecordsAreReal' /\ StartsAlone'
      BY DEF RecordsAreReal, StartsAlone, Recorded
  <2>4. RanIsAccounted'
      BY DEF RanIsAccounted, Accounted, Recorded, Holds
  <2>5. QED
      BY <2>1, <2>2, <2>3, <2>4
<1>3. CASE StopContainer(c)
  <2>1. /\ pc[c] = "stop"
        /\ UNCHANGED <<row, overtaken, svc, copy, seen, polls, restarted, confirmed, lost>>
        /\ pc' = [pc EXCEPT ![c] = "stopped"]
        /\ tried' \subseteq Services
      BY <1>1, <1>3 DEF StopContainer, Halted
  <2>2. \/ UNCHANGED cont
        \/ \E k \in Containers : /\ k.state = "exited"
                                 /\ cont[svc[c]].state = "running"
                                 /\ cont' = [cont EXCEPT ![svc[c]] = k]
      BY <1>1, <1>3 DEF StopContainer, Halted, Running, Containers, ContainerStates
  <2> USE <1>1, <2>1, <2>2
  <2>3. TypeOK'
      BY DEF Steps
  <2>4. HandlersHold'
      BY DEF HandlersHold, Busy, Holds, Recorded
  <2>5. RecordsAreReal'
      BY DEF RecordsAreReal, Recorded, HandlersHold, Busy
  <2>6. StartsAlone'
      BY DEF StartsAlone, Recorded, HandlersHold, Busy
  <2>7. RanIsAccounted'
      BY DEF RanIsAccounted, Accounted, Recorded, Holds
  <2>8. QED
      BY <2>3, <2>4, <2>5, <2>6, <2>7
<1>4. CASE InspectStopped(c)
  <2>1. PICK state \in Inspected(svc[c]) :
            /\ seen' = [seen EXCEPT ![c] = state]
            /\ restarted' = IF state = "exited" THEN restarted \ {svc[c]} ELSE restarted
      BY <1>4 DEF InspectStopped
  <2>2. state \in Observations \ {"ready"}
      BY <1>1 DEF Inspected, Observations, Containers, ContainerStates
  <2> USE <1>1, <1>4, <2>1, <2>2 DEF InspectStopped
  <2>3. TypeOK'
      BY DEF Steps
  <2>4. HandlersHold'
      BY DEF HandlersHold, Busy, Holds, Recorded
  <2>5. RecordsAreReal' /\ StartsAlone'
      BY DEF RecordsAreReal, StartsAlone, Recorded
  <2>6. RanIsAccounted'
      BY DEF RanIsAccounted, Accounted, Recorded, Holds
  <2>7. QED
      BY <2>3, <2>4, <2>5, <2>6
<1>5. QED
    BY <1>2, <1>3, <1>4

\* A handler that gives up before its container is recorded loses it.
LEMMA LeavePreserves ==
    ASSUME ServiceInv, NEW c \in Cores, Refused(c) \/ ReplyStop(c) \/ Interrupt(c)
    PROVE  ServiceInv'
<1> USE DEF ServiceInv, TypeOK, claims, Leave, Return, Goto
<1>1. Busy(c) /\ Leave(c) /\ UNCHANGED <<cont, tried, restarted>>
    BY DEF Refused, ReplyStop, Interrupt, Busy
<1>2. svc[c] \in Services
    BY <1>1 DEF HandlersHold
<1>3. /\ confirmed' \subseteq Services
      /\ lost' = IF pc[c] = "record" THEN lost \cup {svc[c]} ELSE lost
    BY <1>2 DEF Refused, ReplyStop, Interrupt
<1>4. TypeOK'
    BY <1>1, <1>2, <1>3, ConstantsAssumption DEF Steps
<1>5. HandlersHold' /\ RecordsAreReal'
    BY <1>1 DEF HandlersHold, RecordsAreReal, Busy, Holds, Recorded
<1>6. StartsAlone'
    BY <1>1, ConstantsAssumption DEF StartsAlone, Recorded, HandlersHold, Busy
<1>7. RanIsAccounted'
    BY <1>1, <1>2, <1>3 DEF RanIsAccounted, Accounted, Recorded
<1>8. QED
    BY <1>4, <1>5, <1>6, <1>7

\* Behind the Cores' backs containers only move between running and exited.
LEMMA DockerPreserves ==
    ASSUME ServiceInv, NEW s \in Services, ServerUp(s) \/ Crash(s) \/ Restart(s)
    PROVE  ServiceInv'
<1> USE DEF ServiceInv, TypeOK, handler, claims
<1>1. /\ cont[s].state \in {"running", "exited"}
      /\ \E k \in Containers : /\ k.state \in {"running", "exited"}
                               /\ cont' = [cont EXCEPT ![s] = k]
    BY DEF ServerUp, Crash, Restart, Running, Halted, Started, FreePorts,
           Containers, ContainerStates
<1>2. tried' \subseteq Services /\ restarted' \subseteq Services
    BY DEF ServerUp, Crash, Restart, Halted, Started
<1>3. UNCHANGED <<row, overtaken, pc, svc, copy, seen, polls, confirmed, lost>>
    BY DEF ServerUp, Crash, Restart
<1>4. TypeOK'
    BY <1>1, <1>2, <1>3
<1>5. HandlersHold' /\ RecordsAreReal'
    BY <1>1, <1>3 DEF HandlersHold, RecordsAreReal, Busy, Holds, Recorded
<1>6. StartsAlone'
    BY <1>1, <1>3 DEF StartsAlone, Recorded
<1>7. RanIsAccounted'
    BY <1>1, <1>3 DEF RanIsAccounted, Accounted, Recorded
<1>8. QED
    BY <1>4, <1>5, <1>6, <1>7

LEMMA StepPreserves == ServiceInv /\ [Next]_vars => ServiceInv'
<1> SUFFICES ASSUME ServiceInv, [Next]_vars PROVE ServiceInv'
    OBVIOUS
<1>1. ASSUME NEW c \in Cores, HandlerStep(c)
      PROVE  ServiceInv'
    BY <1>1, RunPreserves, RecordPreserves, WritersWrite, WritePreserves,
       MovePreserves, LeavePreserves DEF HandlerStep, Writer
<1>2. ASSUME NEW c \in Cores, NEW s \in Services,
             \/ BeginStart(c, s) \/ BeginStop(c, s)
             \/ BeginRecover(c, s) \/ BeginGet(c, s)
      PROVE  ServiceInv'
    BY <1>2, BeginPreserves DEF BeginStop, BeginRecover, BeginGet
<1>3. CASE UNCHANGED vars
    BY <1>3 DEF vars, handler, claims, ServiceInv, TypeOK, HandlersHold, RecordsAreReal,
                StartsAlone, RanIsAccounted, Accounted, Busy, Holds, Recorded
<1>4. QED
    BY <1>1, <1>2, <1>3, LeavePreserves, DockerPreserves DEF Next

\* ServiceInv holds for any number of Cores, containers and ports.
THEOREM ServiceInvariant == Spec => []ServiceInv
    BY InitEstablishes, StepPreserves, PTL DEF Spec

\* Every variable of ServiceLifecycle keeps its type.
THEOREM TypeCorrect == Spec => []TypeOK
<1>1. ServiceInv => TypeOK
    BY DEF ServiceInv
<1>2. QED
    BY <1>1, ServiceInvariant, PTL

\* _start: a container is lost only in the window between docker run and the
\* record, however many Cores start, stop and recover services.
THEOREM ContainersAreRecorded == Spec => []RunningIsRecorded
<1>1. ServiceInv => RunningIsRecorded
    BY DEF ServiceInv, RanIsAccounted, Accounted, RunningIsRecorded, Running
<1>2. QED
    BY <1>1, ServiceInvariant, PTL

-----------------------------------------------------------------------------
(* How a step moves one container, one record and one handler's copy.        *)

\* A container starts once, answers, ends, and is started again by hand; what
\* has been tried stays tried.
Moves(s) ==
    \/ cont'[s] = cont[s]
    \/ cont[s].state = "absent" /\ ~cont'[s].up
    \/ Running(s) /\ cont'[s].port = cont[s].port /\ s \in tried'
                  /\ cont'[s].state \in {"running", "exited"}
    \/ cont[s].state = "exited" /\ ~cont'[s].up /\ s \in restarted'

LEMMA ContainerSteps ==
    ASSUME ServiceInv, [Next]_vars, NEW s \in Services
    PROVE  /\ Moves(s)
           /\ s \in tried => s \in tried'
           /\ s \in restarted => s \in restarted' \/ ~Running(s)'
<1> USE DEF ServiceInv, TypeOK, Moves
<1>1. ASSUME NEW c \in Cores, RunContainer(c) \/ RunFails(c)
      PROVE  Moves(s) /\ UNCHANGED <<tried, restarted>>
  <2>1. svc[c] \in Services /\ cont[svc[c]].state = "absent"
      BY <1>1 DEF RunContainer, RunFails, HandlersHold, StartsAlone, Busy
  <2>2. UNCHANGED <<tried, restarted>>
      BY <1>1 DEF RunContainer, RunFails, Started, claims
  <2>3. cont'[s] # cont[s] => s = svc[c] /\ ~cont'[s].up
      BY <1>1, <2>1 DEF RunContainer, RunFails, Started
  <2>4. QED
      BY <2>1, <2>2, <2>3
<1>2. ASSUME NEW c \in Cores, StopContainer(c)
      PROVE  Moves(s) /\ tried \subseteq tried' /\ UNCHANGED restarted
  <2>1. svc[c] \in Services
      BY <1>2 DEF StopContainer, HandlersHold, Busy
  <2>2. QED
      BY <1>2, <2>1 DEF StopContainer, Halted, Running, claims
<1>3. ASSUME NEW c \in Cores, InspectStopped(c)
      PROVE  /\ UNCHANGED <<cont, tried>>
             /\ s \in restarted => s \in restarted' \/ ~Running(s)
    BY <1>3 DEF InspectStopped, Inspected, Running
<1>4. ASSUME NEW k \in Services, ServerUp(k) \/ Crash(k) \/ Restart(k)
      PROVE  Moves(s) /\ tried \subseteq tried' /\ restarted \subseteq restarted'
    BY <1>4 DEF ServerUp, Crash, Restart, Started, Halted, Running, claims
<1>5. ASSUME NEW c \in Cores, Writer(c) \/ Record(c)
      PROVE  UNCHANGED <<cont, tried, restarted>>
    BY <1>5 DEF Writer, Record, ObserveRunning, ObserveNotRunning, PollExited, ProbeReady,
                NotReady, RecordStop, Recover, GetRecorded, claims
<1>6. ASSUME NEW c \in Cores,
             \/ Poll(c) \/ ProbeFails(c) \/ ReplyStop(c) \/ Refused(c) \/ Interrupt(c)
             \/ \E k \in Services : \/ BeginStart(c, k) \/ BeginStop(c, k)
                                    \/ BeginRecover(c, k) \/ BeginGet(c, k)
      PROVE  UNCHANGED <<cont, tried, restarted>>
    BY <1>6 DEF Poll, ProbeFails, ReplyStop, Refused, Interrupt, BeginStart, BeginStop,
                BeginRecover, BeginGet, Read, claims
<1>7. CASE UNCHANGED <<cont, tried, restarted>>
    BY <1>7
<1>8. CASE UNCHANGED vars
    BY <1>7, <1>8 DEF vars, claims
<1>9. QED
    BY <1>1, <1>2, <1>3, <1>4, <1>5, <1>6, <1>7, <1>8 DEF Next, HandlerStep, Writer, Running

\* What a handler that waits for readiness watches is the container's port.
Watches(c) == pc[c] \in {"wait", "probe"}

\* How a handler comes to hold a copy: it kept it, read it, or wrote it.
Keeps(c) ==
    /\ Holds(c)
    /\ UNCHANGED <<svc[c], copy[c]>>
    /\ Watches(c)' => Watches(c)
    /\ pc'[c] \in {"write", "reply"} =>
          \/ pc[c] \in {"write", "reply"} /\ UNCHANGED seen[c]
          \/ InspectStopped(c)
Reads(c) == /\ svc'[c] \in Services
            /\ copy'[c] = row[svc'[c]]
            /\ pc'[c] \in {"stop", "recover", "get"}
            /\ UNCHANGED row
Wrote(c) == /\ Holds(c)
            /\ \E r \in Records : Writes(c, r) /\ Derived(c, r) /\ copy'[c] = r
            /\ UNCHANGED <<svc[c], seen[c]>>
            /\ Watches(c)' => ObserveRunning(c)
            /\ pc'[c] \in {"write", "reply"} => pc[c] = "write"

LEMMA HolderSteps ==
    ASSUME ServiceInv, [Next]_vars, NEW c \in Cores, Holds(c)'
    PROVE  Keeps(c) \/ Reads(c) \/ Wrote(c) \/ Record(c)
<1> USE DEF ServiceInv, TypeOK
<1>1. ASSUME UNCHANGED <<pc[c], svc[c], copy[c], seen[c]>>
      PROVE  Keeps(c)
    BY <1>1 DEF Keeps, Holds, Watches
<1>2. ASSUME NEW d \in Cores, HandlerStep(d) \/ Interrupt(d), d # c
      PROVE  UNCHANGED <<pc[c], svc[c], copy[c], seen[c]>>
  <2>1. CASE Writer(d)
    <3>1. PICK r \in Records : Writes(d, r)
        BY <2>1, WritersWrite
    <3>2. QED
        BY <1>2, <3>1 DEF Writes, PutAndReturn, Put, Return, Goto
  <2>2. CASE RunFails(d) \/ ReplyStop(d) \/ Refused(d) \/ Interrupt(d)
      BY <1>2, <2>2 DEF RunFails, ReplyStop, Refused, Interrupt, Leave, Return, Goto
  <2>3. CASE \/ RunContainer(d) \/ Record(d) \/ Poll(d) \/ ProbeFails(d)
             \/ StopContainer(d) \/ InspectStopped(d)
      BY <1>2, <2>3 DEF RunContainer, Record, Poll, ProbeFails, StopContainer,
                        InspectStopped, Put, Goto
  <2>4. QED
      BY <1>2, <2>1, <2>2, <2>3 DEF HandlerStep, Writer
<1>3. ASSUME NEW d \in Cores, NEW s \in Services, d # c,
             \/ BeginStart(d, s) \/ BeginStop(d, s)
             \/ BeginRecover(d, s) \/ BeginGet(d, s)
      PROVE  UNCHANGED <<pc[c], svc[c], copy[c], seen[c]>>
    BY <1>3 DEF BeginStart, BeginStop, BeginRecover, BeginGet, Read, Goto
<1>4. ASSUME NEW s \in Services, ServerUp(s) \/ Crash(s) \/ Restart(s) \/ UNCHANGED vars
      PROVE  UNCHANGED <<pc[c], svc[c], copy[c], seen[c]>>
    BY <1>4 DEF ServerUp, Crash, Restart, handler, vars
<1>5. CASE Writer(c)
  <2>1. Holds(c) /\ \E r \in Records : Writes(c, r) /\ Derived(c, r)
      BY <1>5, WritersWrite
  <2>2. PICK r \in Records : Writes(c, r) /\ Derived(c, r)
      BY <2>1
  <2>3. ~PutAndReturn(c, r)
      BY DEF PutAndReturn, Return, Goto, Holds
  <2>4. copy'[c] = r /\ UNCHANGED <<svc[c], seen[c]>>
      BY <2>2, <2>3 DEF Writes, Put
  <2>5. pc'[c] \in {"write", "reply"} => pc[c] = "write"
      BY <2>2, <2>3 DEF Writes, Goto
  <2>6. Watches(c)' => ObserveRunning(c)
    <3>1. ASSUME ObserveNotRunning(c) \/ PollExited(c) \/ ProbeReady(c) \/ NotReady(c)
                 \/ Recover(c) \/ GetRecorded(c)
          PROVE  ~Watches(c)'
        BY <3>1 DEF ObserveNotRunning, PollExited, ProbeReady, NotReady, Recover,
                    GetRecorded, PutAndReturn, Return, Goto, Watches
    <3>2. RecordStop(c) => ~Watches(c)'
        BY DEF RecordStop, Goto, Watches
    <3>3. QED
        BY <1>5, <3>1, <3>2 DEF Writer
  <2>7. QED
      BY <2>1, <2>2, <2>4, <2>5, <2>6 DEF Wrote
<1>6. CASE RunFails(c) \/ ReplyStop(c) \/ Refused(c) \/ Interrupt(c) \/ RunContainer(c)
    BY <1>6 DEF RunFails, ReplyStop, Refused, Interrupt, RunContainer, Leave, Return, Goto,
                Holds
<1>7. CASE Poll(c) \/ ProbeFails(c) \/ StopContainer(c) \/ InspectStopped(c)
    BY <1>7 DEF Poll, ProbeFails, StopContainer, InspectStopped, Goto, Keeps, Holds, Watches
<1>8. ASSUME NEW s \in Services,
             \/ BeginStart(c, s) \/ BeginStop(c, s)
             \/ BeginRecover(c, s) \/ BeginGet(c, s)
      PROVE  Reads(c)
    BY <1>8 DEF BeginStart, BeginStop, BeginRecover, BeginGet, Read, Goto, Holds, Reads
<1>9. ASSUME NEW d \in Cores, HandlerStep(d) \/ Interrupt(d)
       PROVE  Keeps(c) \/ Wrote(c) \/ Record(c) \/ Reads(c)
    BY <1>1, <1>2, <1>5, <1>6, <1>7, <1>9 DEF HandlerStep, Writer
<1>10. CASE UNCHANGED vars
    BY <1>1, <1>10 DEF vars, handler
<1>11. QED
    BY <1>1, <1>3, <1>4, <1>8, <1>9, <1>10 DEF Next

\* A record changes by the first record of a start, or by a holder's write.
LEMMA RowSteps ==
    ASSUME ServiceInv, [Next]_vars
    PROVE  \/ UNCHANGED <<row, overtaken>>
           \/ \E c \in Cores : Leave(c)
           \/ \E c \in Cores : Record(c)
           \/ \E c \in Cores : Holds(c) /\ \E r \in Records : Writes(c, r) /\ Derived(c, r)
<1>1. ASSUME NEW c \in Cores, Writer(c)
      PROVE  Holds(c) /\ \E r \in Records : Writes(c, r) /\ Derived(c, r)
    BY <1>1, WritersWrite
<1>2. ASSUME NEW c \in Cores, RunFails(c) \/ ReplyStop(c) \/ Refused(c) \/ Interrupt(c)
      PROVE  Leave(c)
    BY <1>2 DEF RunFails, ReplyStop, Refused, Interrupt
<1>3. ASSUME NEW c \in Cores,
             \/ RunContainer(c) \/ Poll(c) \/ ProbeFails(c) \/ StopContainer(c)
             \/ InspectStopped(c)
             \/ \E s \in Services : \/ BeginStart(c, s) \/ BeginStop(c, s)
                                    \/ BeginRecover(c, s) \/ BeginGet(c, s)
      PROVE  UNCHANGED <<row, overtaken>>
    BY <1>3 DEF RunContainer, Poll, ProbeFails, StopContainer, InspectStopped, BeginStart,
                BeginStop, BeginRecover, BeginGet, Read
<1>4. ASSUME NEW s \in Services, ServerUp(s) \/ Crash(s) \/ Restart(s)
      PROVE  UNCHANGED <<row, overtaken>>
    BY <1>4 DEF ServerUp, Crash, Restart
<1>5. CASE UNCHANGED vars
    BY <1>5 DEF vars
<1>6. QED
    BY <1>1, <1>2, <1>3, <1>4, <1>5 DEF Next, HandlerStep, Writer

-----------------------------------------------------------------------------
(* Ready is earned.                                                          *)

\* A service answers only if it has been tried; so say the records and their
\* copies, and a handler waits on the port of a container that still runs, or
\* has been tried.
ReadyInv ==
    /\ \A s \in Services : cont[s].up => s \in tried
    /\ ReadyIsEarned
    /\ \A c \in Cores :
          /\ Holds(c) => (copy[c].observed = "ready" => svc[c] \in tried)
          /\ Watches(c) => \/ svc[c] \in tried
                           \/ Running(svc[c]) /\ cont[svc[c]].port = copy[c].port

LEMMA InitIsUntried == Init => ReadyInv
    BY DEF Init, ReadyInv, ReadyIsEarned, Holds, Watches, NoRow

\* A probe is answered by the service's own container, or after it has ended.
LEMMA AnswersAreEarned ==
    ASSUME ServiceInv, ReadyInv, NEW c \in Cores, Holds(c), NEW r, Derived(c, r),
           r.observed = "ready"
    PROVE  svc[c] \in tried
<1>1. CASE copy[c].observed = "ready"
    BY <1>1 DEF ReadyInv
<1>2. CASE ProbeReady(c)
  <2>1. svc[c] \in Services
      BY DEF ServiceInv, HandlersHold, Holds, Busy
  <2>2. QED
      BY <1>2, <2>1 DEF ProbeReady, MayAnswer, ReadyInv, Watches
<1>3. QED
    BY <1>1, <1>2 DEF Derived

LEMMA ReadyStep == ServiceInv /\ ReadyInv /\ [Next]_vars => ReadyInv'
<1> SUFFICES ASSUME ServiceInv, ReadyInv, [Next]_vars PROVE ReadyInv'
    OBVIOUS
<1>1. \A s \in Services : Moves(s) /\ (s \in tried => s \in tried')
    BY ContainerSteps
<1>2. \A c \in Cores : Holds(c) => svc[c] \in Services
    BY DEF ServiceInv, HandlersHold, Holds, Busy
<1>3. \A s \in Services : cont'[s].up => s \in tried'
    BY <1>1 DEF Moves, ReadyInv
<1>4. ReadyIsEarned'
  <2>1. ASSUME NEW c \in Cores, Record(c)
        PROVE  ReadyIsEarned'
      BY <1>1, <2>1 DEF Record, Put, Store, Created, ReadyInv, ReadyIsEarned, ServiceInv,
                        TypeOK
  <2>2. ASSUME NEW c \in Cores, Holds(c), NEW r \in Records, Writes(c, r), Derived(c, r)
        PROVE  ReadyIsEarned'
    <3>1. row' = [row EXCEPT ![svc[c]] = r]
        BY <2>2 DEF Writes, PutAndReturn, Put, Store
    <3>2. r.observed = "ready" => svc[c] \in tried
        BY <2>2, AnswersAreEarned
    <3>3. QED
        BY <1>1, <1>2, <2>2, <3>1, <3>2 DEF ReadyInv, ReadyIsEarned, ServiceInv, TypeOK
  <2>3. CASE UNCHANGED row
      BY <1>1, <2>3 DEF ReadyInv, ReadyIsEarned
  <2>4. QED
      BY <2>1, <2>2, <2>3, RowSteps DEF Leave
<1>5. ASSUME NEW c \in Cores, Holds(c)', copy'[c].observed = "ready"
      PROVE  svc'[c] \in tried'
  <2>1. CASE Keeps(c)
      BY <1>1, <1>2, <1>5, <2>1 DEF Keeps, ReadyInv
  <2>2. CASE Reads(c)
      BY <1>1, <1>5, <2>2 DEF Reads, ReadyInv, ReadyIsEarned
  <2>3. CASE Wrote(c)
      BY <1>1, <1>2, <1>5, <2>3, AnswersAreEarned DEF Wrote
  <2>4. CASE Record(c)
      BY <1>5, <2>4 DEF Record, Put, Created, ServiceInv, TypeOK
  <2>5. QED
      BY <1>5, <2>1, <2>2, <2>3, <2>4, HolderSteps
<1>6. ASSUME NEW c \in Cores, Watches(c)'
      PROVE  \/ svc'[c] \in tried'
             \/ Running(svc[c])' /\ cont'[svc'[c]].port = copy'[c].port
  <2>1. Holds(c)'
      BY <1>6 DEF Watches, Holds
  <2>2. CASE Keeps(c)
    <3>1. Holds(c) /\ Watches(c) /\ svc'[c] = svc[c] /\ copy'[c] = copy[c]
        BY <1>6, <2>2 DEF Keeps
    <3>2. svc[c] \in Services
        BY <1>2, <3>1
    <3>3. CASE svc[c] \in tried
        BY <1>1, <3>1, <3>2, <3>3
    <3>4. CASE Running(svc[c]) /\ cont[svc[c]].port = copy[c].port
        BY <1>1, <3>1, <3>2, <3>4 DEF Moves, Running
    <3>5. QED
        BY <3>1, <3>3, <3>4 DEF ReadyInv
  <2>3. CASE Wrote(c)
    <3>1. ObserveRunning(c) /\ svc'[c] = svc[c] /\ svc[c] \in Services
        BY <1>2, <1>6, <2>3 DEF Wrote
    <3>2. /\ copy'[c] = Observed(copy[c], "running", cont[svc[c]].port)
          /\ UNCHANGED cont /\ Running(svc[c])
        BY <1>6, <3>1 DEF ObserveRunning, PutAndReturn, Put, Return, Goto, Watches,
                          ServiceInv, TypeOK
    <3>3. QED
        BY <3>1, <3>2 DEF Observed, Running
  <2>4. CASE Reads(c) \/ Record(c)
      BY <1>6, <2>4 DEF Reads, Record, Goto, Watches, ServiceInv, TypeOK
  <2>5. QED
      BY <2>1, <2>2, <2>3, <2>4, HolderSteps
<1>7. QED
    BY <1>3, <1>4, <1>5, <1>6 DEF ReadyInv

\* _wait_ready: no deadline and no failed probe makes a service ready; what is
\* recorded as ready has answered, or its container has ended since.
THEOREM ReadyHolds == Spec => []ReadyIsEarned
<1>1. ReadyInv => ReadyIsEarned
    BY DEF ReadyInv
<1>2. QED
    BY <1>1, InitIsUntried, ReadyStep, ServiceInvariant, PTL DEF Spec

-----------------------------------------------------------------------------
(* Confirmed stops.                                                          *)

\* If it runs, somebody has started it by hand since a _stop saw it exited.
Excused(s) == Running(s) => s \in restarted

StopInv ==
    /\ \A s \in confirmed : Recorded(s) /\ Excused(s)
    /\ \A c \in Cores :
          pc[c] \in {"write", "reply"} /\ seen[c] = "exited" => Excused(svc[c])

\* Only docker run and a start by hand make a container run.
LEMMA ExcusedIsStable ==
    ASSUME ServiceInv, [Next]_vars, NEW s \in Services, Recorded(s), Excused(s)
    PROVE  Excused(s)'
<1>1. cont[s].state # "absent"
    BY DEF ServiceInv, RecordsAreReal
<1>2. QED
    BY <1>1, ContainerSteps DEF Excused, Moves, Running

\* Records are never deleted.
LEMMA RecordedIsStable ==
    ASSUME ServiceInv, [Next]_vars, NEW s \in Services, Recorded(s)
    PROVE  Recorded(s)'
<1>1. ASSUME NEW c \in Cores, Record(c)
      PROVE  Recorded(s)'
    BY <1>1 DEF Record, Put, Store, Created, NoRow, Recorded, ServiceInv, TypeOK
<1>2. ASSUME NEW c \in Cores, NEW r \in Records, Writes(c, r)
      PROVE  Recorded(s)'
    BY <1>2, NoRowIsNoRecord DEF Writes, PutAndReturn, Put, Store, Recorded, ServiceInv,
                                 TypeOK
<1>3. QED
    BY <1>1, <1>2, RowSteps DEF Leave, Recorded

LEMMA StopStep == ServiceInv /\ StopInv /\ [Next]_vars => StopInv'
<1> SUFFICES ASSUME ServiceInv, StopInv, [Next]_vars PROVE StopInv'
    OBVIOUS
<1>1. \A c \in Cores : Holds(c) => svc[c] \in Services /\ Recorded(svc[c])
    BY DEF ServiceInv, HandlersHold, Holds, Busy
<1>2. ASSUME NEW s \in confirmed'
      PROVE  (Recorded(s) /\ Excused(s))'
  <2>1. s \in Services
      BY StepPreserves DEF ServiceInv, TypeOK
  <2>2. \/ s \in confirmed
        \/ \E c \in Cores : ReplyStop(c) /\ s = svc[c] /\ seen[c] = "exited"
    <3>1. ASSUME NEW c \in Cores, HandlerStep(c), ~ReplyStop(c)
          PROVE  UNCHANGED confirmed
      <4>1. CASE Writer(c)
          BY <4>1 DEF Writer, ObserveRunning, ObserveNotRunning, PollExited, ProbeReady,
                      NotReady, RecordStop, Recover, GetRecorded, claims
      <4>2. CASE ~Writer(c)
          BY <3>1, <4>2 DEF HandlerStep, Writer, RunContainer, RunFails, Record, Poll,
                            ProbeFails, StopContainer, InspectStopped, Refused, claims
      <4>3. QED
          BY <4>1, <4>2
    <3>2. ASSUME NEW c \in Cores, NEW k \in Services,
                 BeginStart(c, k) \/ BeginStop(c, k) \/ BeginRecover(c, k) \/ BeginGet(c, k)
          PROVE  UNCHANGED confirmed
        BY <3>2 DEF BeginStart, BeginStop, BeginRecover, BeginGet, Read, claims
    <3>3. ASSUME NEW k \in Services, ServerUp(k) \/ Crash(k) \/ Restart(k)
          PROVE  UNCHANGED confirmed
        BY <3>3 DEF ServerUp, Crash, Restart, claims
    <3>4. ASSUME NEW c \in Cores, Interrupt(c)
          PROVE  UNCHANGED confirmed
        BY <3>4 DEF Interrupt
    <3>5. UNCHANGED vars => UNCHANGED confirmed
        BY DEF vars, claims
    <3>6. \/ UNCHANGED confirmed
          \/ \E c \in Cores : ReplyStop(c)
        BY <3>1, <3>2, <3>3, <3>4, <3>5 DEF Next
    <3>7. QED
        BY <3>6 DEF ReplyStop
  <2>3. Recorded(s) /\ Excused(s)
      BY <1>1, <2>2 DEF StopInv, ReplyStop, Holds
  <2>4. QED
      BY <2>1, <2>3, ExcusedIsStable, RecordedIsStable
<1>3. ASSUME NEW c \in Cores, pc'[c] \in {"write", "reply"}, seen'[c] = "exited"
      PROVE  Excused(svc[c])'
  <2>1. Holds(c)'
      BY <1>3 DEF Holds
  <2>2. CASE InspectStopped(c)
    <3>1. svc[c] \in Services /\ cont[svc[c]].state = "exited" /\ UNCHANGED <<svc, cont>>
        BY <1>1, <1>3, <2>2 DEF InspectStopped, Inspected, Holds, ServiceInv, TypeOK
    <3>2. QED
        BY <3>1 DEF Excused, Running
  <2>3. CASE \/ Keeps(c) /\ ~InspectStopped(c)
             \/ Wrote(c)
    <3>1. /\ Holds(c) /\ svc'[c] = svc[c]
          /\ pc[c] \in {"write", "reply"} /\ seen[c] = "exited"
        BY <1>3, <2>3 DEF Keeps, Wrote
    <3>2. svc[c] \in Services /\ Recorded(svc[c]) /\ Excused(svc[c])
        BY <1>1, <3>1 DEF StopInv
    <3>3. PICK s \in Services : s = svc[c]
        BY <3>2
    <3>4. Excused(s)'
        BY <3>2, <3>3, ExcusedIsStable
    <3>5. QED
        BY <3>1, <3>3, <3>4 DEF Excused, Running
  <2>4. CASE Reads(c) \/ Record(c)
      BY <1>3, <2>4 DEF Reads, Record, Goto, ServiceInv, TypeOK
  <2>5. QED
      BY <2>1, <2>2, <2>3, <2>4, HolderSteps
<1>4. QED
    BY <1>2, <1>3 DEF StopInv

\* _stop inspects again before it reports: a stop reported as confirmed is true
\* until somebody starts the container by hand, even while the reply is made.
THEOREM StopIsTrue == Spec => []ConfirmedStopHolds
<1>1. Init => StopInv
    BY DEF Init, StopInv
<1>2. StopInv => ConfirmedStopHolds
    BY DEF StopInv, Excused, ConfirmedStopHolds
<1>3. QED
    BY <1>1, <1>2, StopStep, ServiceInvariant, PTL DEF Spec

-----------------------------------------------------------------------------
(* Stops that are undone.                                                    *)

\* A handler nobody has overtaken holds what is stored.
CopiesAreStored ==
    \A c \in Cores \ overtaken : Holds(c) => copy[c] = row[svc[c]]

LEMMA StoredStep == ServiceInv /\ CopiesAreStored /\ [Next]_vars => CopiesAreStored'
<1> SUFFICES ASSUME ServiceInv, CopiesAreStored, [Next]_vars,
                    NEW d \in Cores, d \notin overtaken', Holds(d)'
             PROVE  copy'[d] = row'[svc'[d]]
    BY DEF CopiesAreStored
<1> USE DEF ServiceInv, TypeOK
<1>1. \A c \in Cores : Busy(c) => svc[c] \in Services
    BY DEF HandlersHold
<1>2. CASE Reads(d)
    BY <1>2 DEF Reads
<1>3. CASE Wrote(d)
  <2>1. PICK r \in Records : Writes(d, r) /\ copy'[d] = r
      BY <1>3 DEF Wrote
  <2>2. row' = [row EXCEPT ![svc[d]] = r] /\ svc[d] \in Services /\ svc'[d] = svc[d]
      BY <1>1, <1>3, <2>1 DEF Wrote, Writes, PutAndReturn, Put, Store, Holds, Busy
  <2>3. QED
      BY <2>1, <2>2
<1>4. CASE Record(d)
    BY <1>1, <1>4 DEF Record, Put, Store, Busy
<1>5. CASE Keeps(d)
  <2>1. Holds(d) /\ svc'[d] = svc[d] /\ copy'[d] = copy[d] /\ svc[d] \in Services
      BY <1>1, <1>5 DEF Keeps, Holds, Busy
  <2>2. ASSUME NEW c \in Cores, Leave(c)
        PROVE  copy'[d] = row'[svc'[d]]
      BY <2>1, <2>2 DEF Leave, Return, Goto, Holds, CopiesAreStored
  <2>3. ASSUME NEW c \in Cores \ {d}, NEW r, Store(c, r), svc[c] \in Services
        PROVE  copy'[d] = row'[svc'[d]]
      BY <2>1, <2>3 DEF Store, CopiesAreStored
  <2>4. ASSUME NEW c \in Cores, Record(c)
        PROVE  copy'[d] = row'[svc'[d]]
    <3>1. c # d /\ Store(c, Created) /\ svc[c] \in Services
        BY <1>1, <2>1, <2>4 DEF Record, Put, Holds, Busy
    <3>2. QED
        BY <2>3, <3>1
  <2>5. ASSUME NEW c \in Cores, Holds(c), NEW r \in Records, Writes(c, r)
        PROVE  copy'[d] = row'[svc'[d]]
    <3>1. Store(c, r) /\ svc[c] \in Services
        BY <1>1, <2>5 DEF Writes, PutAndReturn, Put, Holds, Busy
    <3>2. CASE c # d
        BY <2>3, <3>1, <3>2
    <3>3. CASE c = d
      <4>1. Put(d, r)
          BY <2>5, <3>3 DEF Writes, PutAndReturn, Return, Goto, Holds
      <4>2. QED
          BY <2>1, <4>1 DEF Put, Store
    <3>4. QED
        BY <3>2, <3>3
  <2>6. CASE UNCHANGED <<row, overtaken>>
      BY <2>1, <2>6 DEF CopiesAreStored
  <2>7. QED
      BY <2>2, <2>4, <2>5, <2>6, RowSteps
<1>6. QED
    BY <1>2, <1>3, <1>4, <1>5, HolderSteps

\* No write makes a stopped service wanted again unless its copy is old.
LEMMA UndoneByOldCopies ==
    ASSUME ServiceInv, CopiesAreStored, [Next]_vars, NEW s \in Services, StopUndone(s)
    PROVE  \E c \in overtaken : svc[c] = s
<1>1. ~UNCHANGED row
    BY DEF StopUndone
<1>2. ASSUME NEW c \in Cores, Record(c)
      PROVE  FALSE
  <2>1. row[svc[c]] = NoRow /\ row' = [row EXCEPT ![svc[c]] = Created]
      BY <1>2 DEF Record, Put, Store, ServiceInv, StartsAlone, Recorded
  <2>2. QED
      BY <2>1 DEF StopUndone, NoRow, ServiceInv, TypeOK
<1>3. ASSUME NEW c \in Cores, Holds(c), NEW r \in Records, Writes(c, r), Derived(c, r)
      PROVE  c \in overtaken /\ svc[c] = s
  <2>1. row' = [row EXCEPT ![svc[c]] = r]
      BY <1>3 DEF Writes, PutAndReturn, Put, Store
  <2>2. svc[c] = s /\ r.desired # "stopped"
      BY <2>1 DEF StopUndone, ServiceInv, TypeOK
  <2>3. copy[c].desired # "stopped" /\ row[svc[c]].desired = "stopped"
      BY <1>3, <2>2 DEF Derived, StopUndone
  <2>4. QED
      BY <1>3, <2>2, <2>3 DEF CopiesAreStored
<1>4. QED
    BY <1>1, <1>2, <1>3, RowSteps DEF Leave

\* recover, get and the waits of start write whole copies back: none of them
\* undoes a stop unless another Core has written the record since it was read.
THEOREM UndoneOnlyByOldCopies == Spec => StopsAreUndoneByOldCopies
<1>1. Init => CopiesAreStored
    BY DEF Init, CopiesAreStored, Holds
<1>2. ServiceInv /\ CopiesAreStored /\ [Next]_vars =>
        [\A s \in Services : StopUndone(s) => \E c \in overtaken : svc[c] = s]_vars
    BY UndoneByOldCopies
<1>3. QED
    BY <1>1, <1>2, StoredStep, ServiceInvariant, PTL DEF Spec, StopsAreUndoneByOldCopies
=============================================================================
