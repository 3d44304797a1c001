------------------------- MODULE CoreSessionProofs --------------------------
(***************************************************************************)
(* Machine-checked theorems about CoreSession, for any number of tool calls *)
(* and evidence files and any number of crashes.  The argument has four     *)
(* layers: what the variables hold (TypeInv), what the intake promises the  *)
(* evidence (IntakeInv), that at most one request is in flight between the  *)
(* two processes until the cancel guard goes off (FlightInv), and how the   *)
(* Run of a call stands while its request travels (PromiseInv).             *)
(***************************************************************************)
EXTENDS CoreSession, SequenceTheorems, TLAPS

\* The pending request is one that waits for its answer.
PendingIsPending == pending # None => phase[pending] = "pending"

\* ingestTails: only the head of the intake queue is past its turn.
Active(e) == phase[e] \in {"waiting", "ready", "pending"}
IntakeIsSerial ==
    \A e \in Evidence : Active(e) => tail # <<>> /\ Head(tail) = e

\* A request line carries the name of its call.
RequestsNamed ==
    \A i \in 1..Len(toCore) : toCore[i].type = "request" => toCore[i].id \in Calls

\* The server is in _serve_request exactly while it has a request, and a
\* handler thread lives exactly then.
ServerShape ==
    /\ serving # None <=> server \in {"serving", "joining"}
    /\ serving # None <=> handler # "none"

TypeInv ==
    /\ TypeOK
    /\ PendingIsPending
    /\ IntakeIsSerial
    /\ RequestsNamed
    /\ ServerShape

-----------------------------------------------------------------------------
LEMMA CallsAreNamed ==
    /\ None \notin Calls
    /\ Tools \subseteq Managed /\ Checks \subseteq Managed
    /\ Managed \subseteq Calls /\ Evidence \subseteq Calls
    /\ Tools \cap Checks = {} /\ Managed \cap Evidence = {}
    /\ \A c \in Scoped : Check(c) \in Checks
    BY DisjointCalls DEF DisjointCalls, Calls, Managed, Checks

LEMMA InitEstablishes == Init => TypeInv
<1> SUFFICES ASSUME Init PROVE TypeInv
    OBVIOUS
<1>1. toCore \in Seq(Lines) /\ toNode \in Seq(Replies) /\ tail \in Seq(Evidence)
    BY EmptySeq DEF Init
<1>2. crashes \in 0..MaxCrashes
    BY CrashesAreBounded DEF CrashesAreBounded, Init
<1>3. TypeOK
    BY <1>1, <1>2 DEF Init, TypeOK, Phases, Answers, Handlers, Outcomes, Ends, RunValues
<1>4. PendingIsPending /\ IntakeIsSerial /\ ServerShape
    BY CallsAreNamed DEF Init, PendingIsPending, IntakeIsSerial, Active, ServerShape
<1>5. RequestsNamed
    BY EmptySeq DEF Init, RequestsNamed
<1>6. QED
    BY <1>3, <1>4, <1>5 DEF TypeInv

(* Lines *)

\* A line that is sent is the last one, or it is lost.
LEMMA SendKeeps ==
    ASSUME TypeInv, NEW line \in Lines, Send(line),
           line.type = "request" => line.id \in Calls
    PROVE  /\ toCore' \in Seq(Lines)
           /\ RequestsNamed'
<1>1. toCore \in Seq(Lines)
    BY DEF TypeInv, TypeOK
<1>2. CASE toCore' = toCore
    BY <1>1, <1>2 DEF TypeInv, RequestsNamed
<1>3. CASE toCore' = Append(toCore, line)
  <2>1. /\ toCore' \in Seq(Lines) /\ Len(toCore') = Len(toCore) + 1
        /\ \A i \in 1..Len(toCore) : toCore'[i] = toCore[i]
        /\ toCore'[Len(toCore) + 1] = line /\ Len(toCore) \in Nat
      BY <1>1, <1>3, AppendProperties, LenProperties
  <2>2. ASSUME NEW i \in 1..Len(toCore'), toCore'[i].type = "request"
        PROVE  toCore'[i].id \in Calls
    <3>1. CASE i = Len(toCore) + 1
        BY <2>1, <2>2, <3>1
    <3>2. CASE i \in 1..Len(toCore)
        BY <2>1, <2>2, <3>2 DEF TypeInv, RequestsNamed
    <3>3. QED
        BY <2>1, <3>1, <3>2
  <2>3. QED
      BY <2>1, <2>2 DEF RequestsNamed
<1>4. QED
    BY <1>2, <1>3 DEF Send

\* A line that is received is the first one.
LEMMA ReceiveKeeps ==
    ASSUME TypeInv, Receive
    PROVE  /\ toCore' \in Seq(Lines) /\ RequestsNamed'
           /\ Head(toCore) \in Lines
           /\ Head(toCore).type = "request" => Head(toCore).id \in Calls
<1>1. toCore \in Seq(Lines) /\ toCore # <<>> /\ toCore' = Tail(toCore)
    BY DEF TypeInv, TypeOK, Receive
<1>2. /\ Head(toCore) \in Lines /\ toCore' \in Seq(Lines)
      /\ Len(toCore') = Len(toCore) - 1 /\ Len(toCore) \in Nat \ {0}
      /\ \A i \in 1..Len(toCore') : toCore'[i] = toCore[i + 1]
    BY <1>1, HeadTailProperties, EmptySeq
<1>3. Head(toCore) = toCore[1]
    BY <1>1
<1>4. RequestsNamed'
    BY <1>2 DEF TypeInv, RequestsNamed
<1>5. QED
    BY <1>2, <1>3, <1>4 DEF TypeInv, RequestsNamed

LEMMA EmitKeeps ==
    ASSUME TypeInv, NEW c \in Calls, NEW result \in Results, Emit(c, result)
    PROVE  toNode' \in Seq(Replies)
<1>1. [id |-> c, result |-> result] \in Replies /\ toNode \in Seq(Replies)
    BY DEF TypeInv, TypeOK, Replies
<1>2. QED
    BY <1>1, AppendProperties DEF Emit

(* Promises *)

\* A call that leaves the intake is its head, and then nobody is past his
\* turn; waking the waiters moves nobody past his turn.
LEMMA SettleKeeps ==
    ASSUME TypeInv, NEW c \in Calls, NEW ph \in [Calls -> Phases],
           ph = phase \/ ph = Woken(phase),
           c \in Evidence => Active(c),
           phase' = Settled(ph, c), Dequeue(c)
    PROVE  /\ phase' \in [Calls -> Phases]
           /\ tail' \in Seq(Evidence)
           /\ IntakeIsSerial'
<1> USE DEF TypeInv, TypeOK
<1>1. phase' = [ph EXCEPT ![c] = "settled"] /\ phase' \in [Calls -> Phases]
    BY DEF Settled, Phases
<1>2. \A e \in Calls : phase'[e] = IF e = c THEN "settled" ELSE ph[e]
    BY <1>1
<1>3. \A e \in Evidence : Active(e)' => Active(e) /\ e # c
    BY <1>2, CallsAreNamed DEF Active, Woken
<1>4. CASE c \in Evidence
  <2>1. tail # <<>> /\ Head(tail) = c /\ tail' = Tail(tail)
      BY <1>4 DEF IntakeIsSerial, Dequeue
  <2>2. tail' \in Seq(Evidence)
      BY <2>1, HeadTailProperties
  <2>3. QED
      BY <1>1, <1>3, <2>1, <2>2 DEF IntakeIsSerial
<1>5. CASE c \notin Evidence
    BY <1>1, <1>3, <1>5 DEF IntakeIsSerial, Dequeue
<1>6. QED
    BY <1>4, <1>5

\* failPending and onLine: the pending promise settles, the waiters are woken.
PendingSettles ==
    /\ pending' = None
    /\ cancelled' = FALSE
    /\ IF pending = None
       THEN phase' = Woken(phase) /\ UNCHANGED <<answer, tail>>
       ELSE /\ phase' = Settled(Woken(phase), pending)
            /\ \E result \in Results, from \in Calls : AnswerTo(pending, result, from)
            /\ Dequeue(pending)

LEMMA PendingSettlesKeeps ==
    ASSUME TypeInv, PendingSettles
    PROVE  /\ phase' \in [Calls -> Phases] /\ answer' \in [Calls -> Answers]
           /\ tail' \in Seq(Evidence)
           /\ pending' \in Calls \cup {None} /\ cancelled' \in BOOLEAN
           /\ PendingIsPending' /\ IntakeIsSerial'
<1> USE DEF TypeInv, TypeOK, PendingSettles
<1>1. Woken(phase) \in [Calls -> Phases]
    BY DEF Woken, Phases
<1>2. CASE pending = None
  <2>1. \A e \in Evidence : Active(e)' => Active(e)
      BY <1>2, CallsAreNamed DEF Active, Woken
  <2>2. QED
      BY <1>1, <1>2, <2>1 DEF PendingIsPending, IntakeIsSerial
<1>3. CASE pending # None
  <2>1. pending \in Calls /\ (pending \in Evidence => Active(pending))
      BY <1>3 DEF PendingIsPending, Active
  <2>2. /\ phase' \in [Calls -> Phases] /\ tail' \in Seq(Evidence) /\ IntakeIsSerial'
      BY <1>1, <1>3, <2>1, SettleKeeps
  <2>3. PICK result \in Results, from \in Calls : AnswerTo(pending, result, from)
      BY <1>3
  <2>4. [result |-> result, from |-> from] \in Answers
      BY DEF Answers
  <2>5. answer' \in [Calls -> Answers]
      BY <2>1, <2>3, <2>4 DEF AnswerTo
  <2>6. QED
      BY <2>2, <2>5 DEF PendingIsPending
<1>4. QED
    BY <1>2, <1>3

\* request(), for a tool call or a check that has not been sent, or for evidence
\* whose turn it is.
LEMMA RequestKeeps ==
    ASSUME TypeInv, NEW c \in Calls, Request(c),
           \/ c \in Managed /\ phase[c] \in {"idle", "confirming"}
           \/ c \in Evidence /\ phase[c] = "ready"
    PROVE  /\ phase' \in [Calls -> Phases] /\ answer' \in [Calls -> Answers]
           /\ tail' \in Seq(Evidence)
           /\ pending' \in Calls \cup {None} /\ cancelled' \in BOOLEAN
           /\ toCore' \in Seq(Lines)
           /\ PendingIsPending' /\ IntakeIsSerial' /\ RequestsNamed'
<1> USE DEF TypeInv, TypeOK
<1>1. c \in Evidence => Active(c)
    BY CallsAreNamed DEF Active
<1>2. pending # c
    BY CallsAreNamed DEF PendingIsPending
<1>3. ASSUME NEW result \in Results,
             phase' = Settled(phase, c), AnswerTo(c, result, c), Dequeue(c),
             UNCHANGED <<pending, cancelled, toCore>>
      PROVE  /\ phase' \in [Calls -> Phases] /\ answer' \in [Calls -> Answers]
             /\ tail' \in Seq(Evidence)
             /\ PendingIsPending' /\ IntakeIsSerial' /\ RequestsNamed'
  <2>1. phase' \in [Calls -> Phases] /\ tail' \in Seq(Evidence) /\ IntakeIsSerial'
      BY <1>1, <1>3, SettleKeeps
  <2>2. [result |-> result, from |-> c] \in Answers
      BY DEF Answers
  <2>3. answer' \in [Calls -> Answers]
      BY <1>3, <2>2 DEF AnswerTo
  <2>4. PendingIsPending' /\ RequestsNamed'
      BY <1>2, <1>3 DEF PendingIsPending, RequestsNamed, Settled
  <2>5. QED
      BY <2>1, <2>3, <2>4
<1>4. CASE dead
    BY <1>3, <1>4 DEF Request, Results
<1>5. CASE ~dead /\ pending # None /\ c \in Evidence
  <2>1. phase' = [phase EXCEPT ![c] = "queued"] /\ UNCHANGED <<answer, tail, pending, cancelled, toCore>>
      BY <1>5 DEF Request
  <2>2. phase' \in [Calls -> Phases]
      BY <2>1 DEF Phases
  <2>3. \A e \in Evidence : Active(e)' => Active(e)
      BY <2>1, CallsAreNamed DEF Active
  <2>4. PendingIsPending' /\ IntakeIsSerial' /\ RequestsNamed'
      BY <1>2, <2>1, <2>3 DEF PendingIsPending, IntakeIsSerial, RequestsNamed
  <2>5. QED
      BY <2>1, <2>2, <2>4
<1>6. CASE ~dead /\ pending # None /\ c \notin Evidence
  <2>1. /\ phase' = Settled(phase, c) /\ AnswerTo(c, "core_busy", c)
        /\ UNCHANGED <<tail, pending, cancelled, toCore>>
      BY <1>6 DEF Request
  <2>2. Dequeue(c)
      BY <1>6, <2>1 DEF Dequeue
  <2>3. QED
      BY <1>3, <2>1, <2>2 DEF Results
<1>7. CASE ~dead /\ pending = None
  <2>1. /\ pending' = c /\ cancelled' = FALSE
        /\ phase' = [phase EXCEPT ![c] = "pending"]
        /\ Send([type |-> "request", id |-> c])
        /\ UNCHANGED <<answer, tail>>
      BY <1>7 DEF Request
  <2>2. toCore' \in Seq(Lines) /\ RequestsNamed'
    <3>1. [type |-> "request", id |-> c] \in Lines
        BY DEF Lines
    <3>2. QED
        BY <2>1, <3>1, SendKeeps
  <2>3. phase' \in [Calls -> Phases] /\ PendingIsPending'
      BY <2>1 DEF Phases, PendingIsPending
  <2>4. \A e \in Evidence : Active(e)' => Active(e)
      BY <1>1, <2>1, CallsAreNamed DEF Active
  <2>5. IntakeIsSerial'
      BY <2>1, <2>4 DEF IntakeIsSerial
  <2>6. QED
      BY <2>1, <2>2, <2>3, <2>5
<1>8. QED
    BY <1>4, <1>5, <1>6, <1>7

(* Types *)

LEMMA ToolKeepsTypes ==
    ASSUME TypeInv, NEW c \in Tools, ToolStep(c)
    PROVE  TypeInv'
<1> USE DEF TypeInv, TypeOK
<1>1. c \in Calls /\ c \in Managed /\ c \notin Evidence /\ c # None
    BY CallsAreNamed
<1>2. CASE StartTool(c)
  <2>1. phase' \in [Calls -> Phases]
      BY <1>2 DEF StartTool, Phases
  <2>2. \A e \in Evidence : Active(e)' => Active(e)
      BY <1>1, <1>2 DEF StartTool, Active
  <2>3. TypeOK'
      BY <1>2, <2>1 DEF StartTool, client, pipes, core, disk
  <2>4. PendingIsPending' /\ IntakeIsSerial' /\ RequestsNamed' /\ ServerShape'
      BY <1>1, <1>2, <2>2 DEF StartTool, client, pipes, core, disk, PendingIsPending,
                              IntakeIsSerial, RequestsNamed, ServerShape
  <2>5. QED
      BY <2>3, <2>4
<1>3. ASSUME NEW k \in Managed, Request(k), phase[k] \in {"idle", "confirming"},
             UNCHANGED <<aborted, dead, stopping, guardFired, toNode, core, disk>>
      PROVE  TypeInv'
  <2>1. /\ phase' \in [Calls -> Phases] /\ answer' \in [Calls -> Answers]
        /\ tail' \in Seq(Evidence)
        /\ pending' \in Calls \cup {None} /\ cancelled' \in BOOLEAN
        /\ toCore' \in Seq(Lines)
        /\ PendingIsPending' /\ IntakeIsSerial' /\ RequestsNamed'
      BY <1>3, CallsAreNamed, RequestKeeps
  <2>2. TypeOK'
      BY <1>3, <2>1 DEF core, disk
  <2>3. ServerShape'
      BY <1>3 DEF core, ServerShape
  <2>4. QED
      BY <2>1, <2>2, <2>3
<1>4. CASE Abort(c)
  <2>1. /\ aborted' = aborted \cup {c} /\ cancelled' \in BOOLEAN
        /\ Send([type |-> "cancel", id |-> pending]) \/ UNCHANGED toCore
        /\ UNCHANGED <<phase, answer, tail, pending, dead, stopping, guardFired,
                       toNode, core, disk>>
      BY <1>4 DEF Abort
  <2>2. toCore' \in Seq(Lines) /\ RequestsNamed'
    <3>1. [type |-> "cancel", id |-> pending] \in Lines
        BY DEF Lines
    <3>2. CASE Send([type |-> "cancel", id |-> pending])
        BY <3>1, <3>2, SendKeeps
    <3>3. CASE UNCHANGED toCore
        BY <3>3 DEF RequestsNamed
    <3>4. QED
        BY <2>1, <3>2, <3>3
  <2>3. TypeOK'
      BY <2>1, <2>2 DEF core, disk
  <2>4. PendingIsPending' /\ IntakeIsSerial' /\ ServerShape'
      BY <2>1 DEF core, PendingIsPending, IntakeIsSerial, Active, ServerShape
  <2>5. QED
      BY <2>2, <2>3, <2>4
<1>5. CASE Decline(c)
  <2>1. Dequeue(c)
      BY <1>1, <1>5 DEF Decline, Dequeue
  <2>2. phase' \in [Calls -> Phases] /\ IntakeIsSerial'
      BY <1>1, <1>5, <2>1, SettleKeeps DEF Decline
  <2>3. [result |-> "user_declined", from |-> c] \in Answers
      BY <1>1 DEF Answers, Results
  <2>4. answer' \in [Calls -> Answers]
      BY <1>1, <1>5, <2>3 DEF Decline, AnswerTo
  <2>5. TypeOK'
      BY <1>5, <2>2, <2>4 DEF Decline, client, pipes, core, disk
  <2>6. PendingIsPending' /\ RequestsNamed' /\ ServerShape'
      BY <1>1, <1>5 DEF Decline, Settled, client, pipes, core, PendingIsPending,
                        RequestsNamed, ServerShape
  <2>7. QED
      BY <2>2, <2>5, <2>6
<1>6. CASE SendCheck(c)
    BY <1>3, <1>6, CallsAreNamed DEF SendCheck
<1>7. CASE SendTool(c)
    BY <1>1, <1>3, <1>7 DEF SendTool
<1>8. QED
    BY <1>2, <1>4, <1>5, <1>6, <1>7 DEF ToolStep

LEMMA EvidenceKeepsTypes ==
    ASSUME TypeInv, NEW e \in Evidence, Stage(e) \/ IntakeStep(e)
    PROVE  TypeInv'
<1> USE DEF TypeInv, TypeOK
<1>1. e \in Calls /\ e # None
    BY CallsAreNamed
<1>2. CASE Stage(e)
  <2>1. phase' \in [Calls -> Phases] /\ staged' \subseteq Evidence
      BY <1>2 DEF Stage, Phases
  <2>2. tail' \in Seq(Evidence) /\ tail' = Append(tail, e)
      BY <1>2, AppendProperties DEF Stage
  <2>3. TypeOK'
      BY <1>2, <2>1, <2>2 DEF Stage, client, pipes, core
  <2>4. \A f \in Evidence : Active(f)' => Active(f)
      BY <1>1, <1>2, CallsAreNamed DEF Stage, Active
  <2>5. tail # <<>> => tail' # <<>> /\ Head(tail') = Head(tail)
    <3>1. ASSUME tail # <<>>
          PROVE  tail' # <<>> /\ Head(tail') = Head(tail)
      <4>1. /\ tail' # <<>> /\ Len(tail) \in Nat \ {0}
            /\ tail'[1] = tail[1]
          BY <2>2, <3>1, AppendProperties, EmptySeq
      <4>2. Head(tail') = tail'[1] /\ Head(tail) = tail[1]
          BY <2>2, <3>1, <4>1
      <4>3. QED
          BY <4>1, <4>2
    <3>2. QED
        BY <3>1
  <2>6. IntakeIsSerial'
      BY <2>4, <2>5 DEF IntakeIsSerial
  <2>7. PendingIsPending' /\ RequestsNamed' /\ ServerShape'
      BY <1>1, <1>2 DEF Stage, client, pipes, core, PendingIsPending, RequestsNamed, ServerShape
  <2>8. QED
      BY <2>3, <2>6, <2>7
<1>3. CASE AwaitIdle(e)
  <2>1. phase' \in [Calls -> Phases]
      BY <1>3 DEF AwaitIdle, Phases
  <2>2. TypeOK'
      BY <1>3, <2>1 DEF AwaitIdle, client, pipes, core, disk
  <2>3. \A f \in Evidence : Active(f)' => Active(f) \/ f = e
      BY <1>1, <1>3, CallsAreNamed DEF AwaitIdle, Active
  <2>4. IntakeIsSerial'
      BY <1>3, <2>3 DEF AwaitIdle, IntakeIsSerial
  <2>5. PendingIsPending' /\ RequestsNamed' /\ ServerShape'
      BY <1>1, <1>3 DEF AwaitIdle, client, pipes, core, PendingIsPending, RequestsNamed, ServerShape
  <2>6. QED
      BY <2>2, <2>4, <2>5
<1>4. CASE Ingest(e)
  <2>1. /\ phase' \in [Calls -> Phases] /\ answer' \in [Calls -> Answers]
        /\ tail' \in Seq(Evidence)
        /\ pending' \in Calls \cup {None} /\ cancelled' \in BOOLEAN
        /\ toCore' \in Seq(Lines)
        /\ PendingIsPending' /\ IntakeIsSerial' /\ RequestsNamed'
      BY <1>1, <1>4, RequestKeeps DEF Ingest
  <2>2. TypeOK'
      BY <1>4, <2>1 DEF Ingest, core, disk
  <2>3. ServerShape'
      BY <1>4 DEF Ingest, core, ServerShape
  <2>4. QED
      BY <2>1, <2>2, <2>3
<1>5. QED
    BY <1>2, <1>3, <1>4 DEF IntakeStep

\* A callback of the client that settles the pending promise.
LEMMA ClientKeepsTypes ==
    ASSUME TypeInv, CancelGuard \/ ClientStep \/ Stop \/ StopKill
    PROVE  TypeInv'
<1> USE DEF TypeInv, TypeOK
<1>1. CASE Stop
  <2>1. /\ Send([type |-> "eof", id |-> None]) /\ stopping' = "grace"
        /\ UNCHANGED <<callers, pending, cancelled, dead, guardFired, toNode, core, disk>>
      BY <1>1 DEF Stop
  <2>2. [type |-> "eof", id |-> None] \in Lines
      BY DEF Lines
  <2>3. toCore' \in Seq(Lines) /\ RequestsNamed'
      BY <2>1, <2>2, SendKeeps
  <2>4. TypeOK'
      BY <2>1, <2>3 DEF callers, core, disk
  <2>5. PendingIsPending' /\ IntakeIsSerial' /\ ServerShape'
      BY <2>1 DEF callers, core, PendingIsPending, IntakeIsSerial, Active, ServerShape
  <2>6. QED
      BY <2>3, <2>4, <2>5
<1>2. CASE StopKill
  <2>1. TypeOK'
      BY <1>2 DEF StopKill, Gone, callers, pipes, disk, Handlers
  <2>2. PendingIsPending' /\ IntakeIsSerial' /\ RequestsNamed' /\ ServerShape'
      BY <1>2 DEF StopKill, Gone, callers, pipes, PendingIsPending, IntakeIsSerial,
                  Active, RequestsNamed, ServerShape
  <2>3. QED
      BY <2>1, <2>2
<1>3. CASE CancelGuard
  <2>1. PendingSettles
    <3>1. FailPending("core_unavailable")
        BY <1>3 DEF CancelGuard
    <3>2. QED
        BY <3>1 DEF FailPending, PendingSettles, Results
  <2>2. /\ phase' \in [Calls -> Phases] /\ answer' \in [Calls -> Answers]
        /\ tail' \in Seq(Evidence)
        /\ pending' \in Calls \cup {None} /\ cancelled' \in BOOLEAN
        /\ PendingIsPending' /\ IntakeIsSerial'
      BY <2>1, PendingSettlesKeeps
  <2>3. TypeOK'
      BY <1>3, <2>2 DEF CancelGuard, Gone, pipes, disk, Handlers
  <2>4. RequestsNamed' /\ ServerShape'
      BY <1>3 DEF CancelGuard, Gone, pipes, RequestsNamed, ServerShape
  <2>5. QED
      BY <2>2, <2>3, <2>4
<1>4. CASE OnExit
  <2>1. PendingSettles
    <3>1. FailPending("core_exited")
        BY <1>4 DEF OnExit
    <3>2. QED
        BY <3>1 DEF FailPending, PendingSettles, Results
  <2>2. /\ phase' \in [Calls -> Phases] /\ answer' \in [Calls -> Answers]
        /\ tail' \in Seq(Evidence)
        /\ pending' \in Calls \cup {None} /\ cancelled' \in BOOLEAN
        /\ PendingIsPending' /\ IntakeIsSerial'
      BY <2>1, PendingSettlesKeeps
  <2>3. toNode' \in Seq(Replies)
      BY <1>4, EmptySeq DEF OnExit
  <2>4. TypeOK'
      BY <1>4, <2>2, <2>3 DEF OnExit, core, disk
  <2>5. RequestsNamed' /\ ServerShape'
      BY <1>4 DEF OnExit, core, RequestsNamed, ServerShape
  <2>6. QED
      BY <2>2, <2>4, <2>5
<1>5. CASE OnLine
  <2>1. /\ toNode' \in Seq(Replies) /\ Head(toNode) \in Replies
      BY <1>5, HeadTailProperties DEF OnLine
  <2>2. PendingSettles
      BY <1>5, <2>1 DEF OnLine, PendingSettles, Replies
  <2>3. /\ phase' \in [Calls -> Phases] /\ answer' \in [Calls -> Answers]
        /\ tail' \in Seq(Evidence)
        /\ pending' \in Calls \cup {None} /\ cancelled' \in BOOLEAN
        /\ PendingIsPending' /\ IntakeIsSerial'
      BY <2>2, PendingSettlesKeeps
  <2>4. TypeOK'
      BY <1>5, <2>1, <2>3 DEF OnLine, core, disk
  <2>5. RequestsNamed' /\ ServerShape'
      BY <1>5 DEF OnLine, core, RequestsNamed, ServerShape
  <2>6. QED
      BY <2>3, <2>4, <2>5
<1>6. QED
    BY <1>1, <1>2, <1>3, <1>4, <1>5 DEF ClientStep

LEMMA ServerKeepsTypes ==
    ASSUME TypeInv, ServerStep
    PROVE  TypeInv'
<1> USE DEF TypeInv, TypeOK
<1>1. CASE ReceiveIdle \/ Serve \/ Pump
  <2>1. Receive /\ UNCHANGED <<callers, client, disk>> /\ crashes' = crashes
      BY <1>1 DEF ReceiveIdle, Serve, Pump
  <2>2. /\ toCore' \in Seq(Lines) /\ RequestsNamed'
        /\ Head(toCore) \in Lines
        /\ Head(toCore).type = "request" => Head(toCore).id \in Calls
      BY <2>1, ReceiveKeeps
  <2>3. PendingIsPending' /\ IntakeIsSerial'
      BY <2>1 DEF callers, client, PendingIsPending, IntakeIsSerial, Active
  <2>4. CASE ReceiveIdle
    <3>1. TypeOK'
        BY <2>1, <2>2, <2>4 DEF ReceiveIdle, callers, client, disk
    <3>2. ServerShape'
        BY <2>4 DEF ReceiveIdle, ServerShape
    <3>3. QED
        BY <2>2, <2>3, <3>1, <3>2
  <2>5. CASE Serve
    <3>1. TypeOK'
        BY <2>1, <2>2, <2>5 DEF Serve, callers, client, disk, Handlers
    <3>2. ServerShape'
        BY <2>2, <2>5, CallsAreNamed DEF Serve, ServerShape
    <3>3. QED
        BY <2>2, <2>3, <3>1, <3>2
  <2>6. CASE Pump
    <3>1. /\ cancelFlag' \in BOOLEAN /\ server' \in {"serving", "joining"}
          /\ server = "serving"
          /\ UNCHANGED <<serving, handler, outcome>>
          /\ UNCHANGED toNode \/ /\ Emit(Head(toCore).id, "protocol_busy")
                                 /\ Head(toCore).type = "request"
        BY <2>6 DEF Pump
    <3>2. toNode' \in Seq(Replies)
        BY <2>2, <3>1, EmitKeeps DEF Results
    <3>3. TypeOK'
        BY <2>1, <2>2, <3>1, <3>2 DEF callers, client, disk
    <3>4. ServerShape'
        BY <3>1 DEF ServerShape
    <3>5. QED
        BY <2>2, <2>3, <3>3, <3>4
  <2>7. QED
      BY <1>1, <2>4, <2>5, <2>6
<1>2. CASE EmitResult \/ JoinTimeout
  <2>1. /\ serving \in Calls
        /\ Emit(serving, outcome) \/ Emit(serving, "core_unavailable")
        /\ server' \in {"idle", "gone"} /\ serving' = None /\ handler' = "none"
        /\ UNCHANGED <<callers, client, toCore, cancelFlag, outcome, crashes, disk>>
      BY <1>2 DEF EmitResult, JoinTimeout, ServerShape
  <2>2. toNode' \in Seq(Replies)
      BY <2>1, EmitKeeps DEF Results
  <2>3. TypeOK'
      BY <2>1, <2>2 DEF callers, client, disk, Handlers
  <2>4. PendingIsPending' /\ IntakeIsSerial' /\ RequestsNamed' /\ ServerShape'
      BY <2>1 DEF callers, client, PendingIsPending, IntakeIsSerial, Active,
                  RequestsNamed, ServerShape
  <2>5. QED
      BY <2>3, <2>4
<1>3. QED
    BY <1>1, <1>2 DEF ServerStep

LEMMA HandlerKeepsTypes ==
    ASSUME TypeInv, HandlerStep \/ CoreDies \/ UNCHANGED vars
    PROVE  TypeInv'
<1> USE DEF TypeInv, TypeOK
<1>1. CASE HandlerStep
  <2>1. /\ UNCHANGED <<callers, client, pipes, server, serving, cancelFlag, crashes>>
        /\ handler # "none" /\ handler' \in Handlers \ {"none"} /\ outcome' \in Outcomes
      BY <1>1 DEF HandlerStep, Refuse, Allow, OpenRun, CommitRun, Raise, Return, Handlers, Outcomes, Ends
  <2>2. serving \in Calls
      BY <2>1 DEF ServerShape
  <2>3. run' \in [Calls -> RunValues] /\ staged' \subseteq Evidence
    <3>1. CASE Refuse \/ Allow \/ OpenRun \/ Raise \/ Return
        BY <2>2, <3>1 DEF Refuse, Allow, OpenRun, Raise, Return, disk, RunValues
    <3>2. CASE CommitRun
        BY <2>2, <3>2 DEF CommitRun, Ends, RunValues
    <3>3. QED
        BY <1>1, <3>1, <3>2 DEF HandlerStep
  <2>4. TypeOK'
      BY <2>1, <2>3 DEF callers, client, pipes
  <2>5. PendingIsPending' /\ IntakeIsSerial' /\ RequestsNamed' /\ ServerShape'
      BY <2>1 DEF callers, client, pipes, PendingIsPending, IntakeIsSerial, Active,
                  RequestsNamed, ServerShape
  <2>6. QED
      BY <2>4, <2>5
<1>2. CASE CoreDies
  <2>1. crashes' \in 0..MaxCrashes
      BY <1>2, CrashesAreBounded DEF CoreDies, CrashesAreBounded
  <2>2. TypeOK'
      BY <1>2, <2>1 DEF CoreDies, Gone, callers, client, pipes, disk, Handlers
  <2>3. PendingIsPending' /\ IntakeIsSerial' /\ RequestsNamed' /\ ServerShape'
      BY <1>2 DEF CoreDies, Gone, callers, client, pipes, PendingIsPending,
                  IntakeIsSerial, Active, RequestsNamed, ServerShape
  <2>4. QED
      BY <2>2, <2>3
<1>3. CASE UNCHANGED vars
  <2>1. TypeOK'
      BY <1>3 DEF vars, callers, client, pipes, core, disk
  <2>2. PendingIsPending' /\ IntakeIsSerial' /\ RequestsNamed' /\ ServerShape'
      BY <1>3 DEF vars, callers, client, pipes, core, PendingIsPending,
                  IntakeIsSerial, Active, RequestsNamed, ServerShape
  <2>3. QED
      BY <2>1, <2>2
<1>4. QED
    BY <1>1, <1>2, <1>3

LEMMA TypeStep == TypeInv /\ [Next]_vars => TypeInv'
<1> SUFFICES ASSUME TypeInv, [Next]_vars PROVE TypeInv'
    OBVIOUS
<1>1. \/ \E c \in Tools : ToolStep(c)
      \/ \E e \in Evidence : Stage(e) \/ IntakeStep(e)
      \/ CancelGuard \/ ClientStep \/ Stop \/ StopKill
      \/ ServerStep \/ HandlerStep \/ CoreDies \/ UNCHANGED vars
    BY DEF Next, Done
<1>2. QED
    BY <1>1, ToolKeepsTypes, EvidenceKeepsTypes, ClientKeepsTypes, ServerKeepsTypes,
       HandlerKeepsTypes

\* Every variable of CoreSession keeps its type, for any set of calls.
THEOREM TypeCorrect == Spec => []TypeOK
<1>1. TypeInv => TypeOK
    BY DEF TypeInv
<1>2. QED
    BY <1>1, InitEstablishes, TypeStep, PTL DEF Spec

-----------------------------------------------------------------------------
(* What the intake promises *)

\* The staged file is there while its handler works, the Run of a handler that
\* has succeeded is committed, and only a check is answered without a Run.
StagedAtWork ==
    /\ handler = "running" /\ serving \in Evidence => serving \in staged
    /\ handler \in {"committed", "done"} /\ outcome = "ok" => run[serving] = "completed"
    /\ handler \in {"committed", "done"} /\ outcome = "in_scope" => serving \in Checks

IntakeInv ==
    /\ TypeInv
    /\ StagedAtWork
    /\ EvidenceKept
    /\ NoLostWakeup

\* A settled request leaves nobody parked in whenIdle.
LEMMA SettlingWakes ==
    ASSUME IntakeInv, PendingSettles
    PROVE  /\ NoLostWakeup'
           /\ \A e \in Evidence : phase'[e] # "idle" => phase[e] # "idle"
<1>1. phase \in [Calls -> Phases] /\ pending \in Calls \cup {None}
    BY DEF IntakeInv, TypeInv, TypeOK
<1>2. \A c \in Calls : phase'[c] = IF c = pending THEN "settled"
                                   ELSE IF phase[c] = "waiting" THEN "ready" ELSE phase[c]
    BY <1>1, CallsAreNamed DEF PendingSettles, Settled, Woken
<1>3. NoLostWakeup'
    BY <1>2, CallsAreNamed DEF NoLostWakeup
<1>4. pending # None => phase[pending] # "idle"
    BY DEF IntakeInv, TypeInv, PendingIsPending
<1>5. QED
    BY <1>1, <1>2, <1>3, <1>4, CallsAreNamed

LEMMA ClientKeepsIntake ==
    ASSUME IntakeInv, CancelGuard \/ ClientStep \/ Stop \/ StopKill
    PROVE  StagedAtWork' /\ EvidenceKept' /\ NoLostWakeup'
<1> USE DEF IntakeInv
<1>1. CASE Stop \/ StopKill
    BY <1>1 DEF Stop, StopKill, Gone, callers, core, disk, StagedAtWork,
                EvidenceKept, NoLostWakeup
<1>2. CASE CancelGuard \/ OnExit \/ OnLine
  <2>1. PendingSettles
    <3>1. CASE CancelGuard \/ OnExit
        BY <3>1 DEF CancelGuard, OnExit, FailPending, PendingSettles, Results,
                    TypeInv, TypeOK
    <3>2. CASE OnLine
      <4>1. Head(toNode) \in Replies
          BY <3>2, HeadTailProperties DEF OnLine, TypeInv, TypeOK
      <4>2. QED
          BY <3>2, <4>1 DEF OnLine, PendingSettles, Replies
    <3>3. QED
        BY <1>2, <3>1, <3>2
  <2>2. /\ NoLostWakeup'
        /\ \A e \in Evidence : phase'[e] # "idle" => phase[e] # "idle"
      BY <2>1, SettlingWakes
  <2>3. UNCHANGED <<run, staged, outcome>> /\ (handler' = "none" \/ UNCHANGED <<handler, serving>>)
      BY <1>2 DEF CancelGuard, OnExit, OnLine, Gone, core, disk
  <2>4. StagedAtWork' /\ EvidenceKept'
      BY <2>2, <2>3 DEF StagedAtWork, EvidenceKept
  <2>5. QED
      BY <2>2, <2>4
<1>3. QED
    BY <1>1, <1>2 DEF ClientStep

\* request() parks nobody, and clears no request in flight.
LEMMA RequestKeepsIntake ==
    ASSUME IntakeInv, NEW c \in Calls, Request(c), UNCHANGED dead
    PROVE  /\ NoLostWakeup'
           /\ \A e \in Evidence : phase'[e] # "idle" => e = c \/ phase[e] # "idle"
<1>1. phase \in [Calls -> Phases]
    BY DEF IntakeInv, TypeInv, TypeOK
<1>2. \E p \in {"settled", "queued", "pending"} : phase' = [phase EXCEPT ![c] = p]
    BY DEF Request, Settled
<1>3. pending # None => pending' = pending
    BY DEF Request
<1>4. QED
    BY <1>1, <1>2, <1>3, CallsAreNamed DEF IntakeInv, NoLostWakeup

LEMMA CallerKeepsIntake ==
    ASSUME IntakeInv, \/ \E c \in Tools : ToolStep(c)
                      \/ \E e \in Evidence : Stage(e) \/ IntakeStep(e)
    PROVE  StagedAtWork' /\ EvidenceKept' /\ NoLostWakeup'
<1> USE DEF IntakeInv
<1>1. phase \in [Calls -> Phases] /\ staged \subseteq Evidence
    BY DEF TypeInv, TypeOK
<1>2. ASSUME NEW c \in Tools, StartTool(c) \/ Decline(c) \/ Abort(c)
      PROVE  StagedAtWork' /\ EvidenceKept' /\ NoLostWakeup'
  <2>1. \A e \in Evidence : phase'[e] = phase[e]
      BY <1>1, <1>2, CallsAreNamed DEF StartTool, Decline, Settled, Abort
  <2>2. UNCHANGED <<pending, dead, handler, serving, outcome, run, staged>>
      BY <1>2 DEF StartTool, Decline, Abort, client, core, disk
  <2>3. QED
      BY <2>1, <2>2 DEF StagedAtWork, EvidenceKept, NoLostWakeup
<1>3. ASSUME NEW c \in Calls, Request(c), c \in Evidence => phase[c] # "idle",
             UNCHANGED <<dead, core, disk>>
      PROVE  StagedAtWork' /\ EvidenceKept' /\ NoLostWakeup'
    BY <1>3, RequestKeepsIntake DEF core, disk, StagedAtWork, EvidenceKept
<1>4. ASSUME NEW e \in Evidence, Stage(e) \/ AwaitIdle(e)
      PROVE  StagedAtWork' /\ EvidenceKept' /\ NoLostWakeup'
  <2>1. CASE Stage(e)
      BY <1>1, <2>1, CallsAreNamed DEF Stage, client, core, StagedAtWork, EvidenceKept, NoLostWakeup
  <2>2. CASE AwaitIdle(e)
      BY <1>1, <2>2, CallsAreNamed DEF AwaitIdle, client, core, disk, StagedAtWork,
                                       EvidenceKept, NoLostWakeup
  <2>3. QED
      BY <1>4, <2>1, <2>2
<1>5. QED
  <2>1. CASE \E c \in Tools : SendCheck(c)
      BY <1>3, <2>1, CallsAreNamed DEF SendCheck
  <2>2. CASE \E c \in Tools : SendTool(c)
      BY <1>3, <2>2, CallsAreNamed DEF SendTool
  <2>3. QED
      BY <1>2, <1>3, <1>4, <2>1, <2>2, CallsAreNamed DEF ToolStep, IntakeStep, Ingest

LEMMA CoreKeepsIntake ==
    ASSUME IntakeInv, ServerStep \/ HandlerStep \/ CoreDies \/ UNCHANGED vars
    PROVE  StagedAtWork' /\ EvidenceKept' /\ NoLostWakeup'
<1> USE DEF IntakeInv
<1>1. UNCHANGED <<callers, client>>
    BY DEF ServerStep, ReceiveIdle, Serve, Pump, EmitResult, JoinTimeout, HandlerStep,
           Refuse, Allow, OpenRun, CommitRun, Raise, Return, CoreDies, vars
<1>2. NoLostWakeup'
    BY <1>1 DEF callers, client, NoLostWakeup
<1>3. handler # "none" => serving \in Calls
    BY DEF TypeInv, TypeOK, ServerShape
<1>4. run \in [Calls -> RunValues]
    BY DEF TypeInv, TypeOK
<1>5. CASE ServerStep \/ CoreDies \/ UNCHANGED vars
  <2>1. /\ UNCHANGED disk
        /\ \/ UNCHANGED <<handler, serving, outcome>>
           \/ handler' \in {"none", "entered"}
      BY <1>5 DEF ServerStep, ReceiveIdle, Serve, Pump, EmitResult, JoinTimeout,
                  CoreDies, Gone, vars, core
  <2>2. QED
      BY <1>1, <1>2, <2>1 DEF callers, disk, StagedAtWork, EvidenceKept
<1>6. CASE Refuse \/ Allow \/ Raise \/ Return
    BY <1>1, <1>2, <1>6 DEF Refuse, Allow, Raise, Return, callers, disk, StagedAtWork, EvidenceKept
<1>7. CASE OpenRun
    BY <1>1, <1>2, <1>3, <1>4, <1>7, CallsAreNamed
       DEF OpenRun, callers, StagedAtWork, EvidenceKept
<1>8. CASE CommitRun
    BY <1>1, <1>2, <1>3, <1>4, <1>8, CallsAreNamed
       DEF CommitRun, Ends, callers, StagedAtWork, EvidenceKept
<1>9. QED
    BY <1>5, <1>6, <1>7, <1>8 DEF HandlerStep

LEMMA IntakeStepPreserves == IntakeInv /\ [Next]_vars => IntakeInv'
<1> SUFFICES ASSUME IntakeInv, [Next]_vars PROVE IntakeInv'
    OBVIOUS
<1>1. TypeInv'
    BY TypeStep DEF IntakeInv
<1>2. StagedAtWork' /\ EvidenceKept' /\ NoLostWakeup'
    BY ClientKeepsIntake, CallerKeepsIntake, CoreKeepsIntake DEF Next, Done
<1>3. QED
    BY <1>1, <1>2 DEF IntakeInv

LEMMA IntakeInvariant == Spec => []IntakeInv
<1>1. Init => IntakeInv
  <2>1. Init => StagedAtWork /\ EvidenceKept /\ NoLostWakeup
      BY CallsAreNamed DEF Init, StagedAtWork, EvidenceKept, NoLostWakeup
  <2>2. QED
      BY <2>1, InitEstablishes DEF IntakeInv
<1>2. QED
    BY <1>1, IntakeStepPreserves, PTL DEF Spec

\* ingest_evidence: through every crash, kill and refusal, staged evidence is
\* on disk until its Run is committed.
THEOREM EvidenceIsKept == Spec => []EvidenceKept
<1>1. IntakeInv => EvidenceKept
    BY DEF IntakeInv
<1>2. QED
    BY <1>1, IntakeInvariant, PTL

\* whenIdle: who waits for the client to be idle waits for a request in flight.
THEOREM WakeupsAreNotLost == Spec => []NoLostWakeup
<1>1. IntakeInv => NoLostWakeup
    BY DEF IntakeInv
<1>2. QED
    BY <1>1, IntakeInvariant, PTL

-----------------------------------------------------------------------------
(* One request in flight *)

\* What has an answer is settled, and so not in flight.
AnsweredIsSettled == \A c \in Calls : answer[c] # None => phase[c] = "settled"

DeadIsGone == dead => server = "gone"

\* Between the two processes there is at most one of: a request line not yet
\* received, a request being served, a reply not yet read; and that one is of
\* the pending call.
OneInFlight ==
    ~dead =>
        /\ \A i \in 1..Len(toCore) : toCore[i].type = "request" =>
              /\ toCore[i].id = pending /\ serving = None /\ toNode = <<>>
              /\ \A j \in 1..Len(toCore) : toCore[j].type = "request" => j = i
        /\ serving # None => serving = pending /\ toNode = <<>>
        /\ Len(toNode) <= 1
        /\ \A i \in 1..Len(toNode) : toNode[i].id = pending

\* A result says that a call succeeded only when its Run is committed, or when it
\* is a check and has none.
Earned(c, result) ==
    /\ result = "ok" => run[c] = "completed"
    /\ result = "in_scope" => c \in Checks

\* That holds for a reply on its way.
RepliesAreTrue ==
    \A i \in 1..Len(toNode) : Earned(toNode[i].id, toNode[i].result)

\* The parts that hold until the cancel guard goes off.
InFlight ==
    /\ OneInFlight
    /\ RepliesAreTrue
    /\ \A c \in Calls : answer[c] # None =>
          /\ answer[c].from = c
          /\ Earned(c, answer[c].result)

FlightInv ==
    /\ IntakeInv
    /\ AnsweredIsSettled
    /\ DeadIsGone
    /\ ~guardFired => InFlight

\* None of the answers so far is touched but that of the pending call.
LEMMA SettlingAnswers ==
    ASSUME FlightInv, PendingSettles
    PROVE  AnsweredIsSettled'
<1>1. /\ phase \in [Calls -> Phases] /\ answer \in [Calls -> Answers]
      /\ pending \in Calls \cup {None}
    BY DEF FlightInv, IntakeInv, TypeInv, TypeOK
<1>2. \A c \in Calls : phase[c] = "settled" => phase'[c] = "settled"
    BY <1>1 DEF PendingSettles, Settled, Woken
<1>3. \A c \in Calls : c # pending => answer'[c] = answer[c]
    BY <1>1 DEF PendingSettles, AnswerTo
<1>4. pending # None => phase'[pending] = "settled"
    BY <1>1 DEF PendingSettles, Settled, Woken
<1>5. QED
    BY <1>1, <1>2, <1>3, <1>4, CallsAreNamed DEF FlightInv, AnsweredIsSettled

\* The elements of the pipes after a line was sent or received.
LEMMA SendElements ==
    ASSUME TypeInv, NEW line \in Lines, Send(line)
    PROVE  \/ toCore' = toCore
           \/ /\ Len(toCore') = Len(toCore) + 1 /\ Len(toCore) \in Nat
              /\ toCore'[Len(toCore) + 1] = line
              /\ \A i \in 1..Len(toCore) : toCore'[i] = toCore[i]
<1>1. toCore \in Seq(Lines)
    BY DEF TypeInv, TypeOK
<1>2. QED
    BY <1>1, AppendProperties, LenProperties DEF Send

LEMMA ReceiveElements ==
    ASSUME TypeInv, Receive
    PROVE  /\ Len(toCore') = Len(toCore) - 1 /\ Len(toCore) \in Nat \ {0}
           /\ Head(toCore) = toCore[1]
           /\ \A i \in 1..Len(toCore') : toCore'[i] = toCore[i + 1]
<1>1. toCore \in Seq(Lines) /\ toCore # <<>> /\ toCore' = Tail(toCore)
    BY DEF TypeInv, TypeOK, Receive
<1>2. QED
    BY <1>1, HeadTailProperties, EmptySeq

\* A line that is not a request takes nothing into flight.
LEMMA SendKeepsFlight ==
    ASSUME TypeInv, OneInFlight, NEW line \in Lines, line.type # "request", Send(line),
           UNCHANGED <<pending, dead, serving, toNode>>
    PROVE  OneInFlight'
<1>1. CASE toCore' = toCore
    BY <1>1 DEF OneInFlight
<1>2. CASE /\ Len(toCore') = Len(toCore) + 1 /\ Len(toCore) \in Nat
           /\ toCore'[Len(toCore) + 1] = line
           /\ \A i \in 1..Len(toCore) : toCore'[i] = toCore[i]
  <2>1. \A i \in 1..Len(toCore') : toCore'[i].type = "request" =>
            i \in 1..Len(toCore) /\ toCore'[i] = toCore[i]
      BY <1>2
  <2>2. QED
      BY <2>1 DEF OneInFlight
<1>3. QED
    BY <1>1, <1>2, SendElements

\* Nothing is in flight while no request is pending.
LEMMA NothingInFlight ==
    ASSUME TypeInv, OneInFlight, ~dead, pending = None
    PROVE  /\ \A i \in 1..Len(toCore) : toCore[i].type # "request"
           /\ serving = None /\ toNode = <<>>
<1>1. \A i \in 1..Len(toCore) : toCore[i].type # "request"
    BY CallsAreNamed DEF TypeInv, RequestsNamed, OneInFlight
<1>2. toNode = <<>>
  <2>1. toNode \in Seq(Replies)
      BY DEF TypeInv, TypeOK
  <2>2. \A i \in 1..Len(toNode) : toNode[i].id # None
    <3>1. \A i \in 1..Len(toNode) : toNode[i] \in Replies
        BY <2>1, ElementOfSeq
    <3>2. QED
        BY <3>1, CallsAreNamed DEF Replies
  <2>3. ~(1 \in 1..Len(toNode))
      BY <2>2 DEF OneInFlight
  <2>4. QED
      BY <2>1, <2>3, EmptySeq
<1>3. QED
    BY <1>1, <1>2 DEF OneInFlight

LEMMA RequestKeepsFlight ==
    ASSUME FlightInv, NEW c \in Calls, Request(c), phase[c] \in {"idle", "confirming", "ready"},
           UNCHANGED <<dead, guardFired, serving, run, toNode, server>>
    PROVE  AnsweredIsSettled' /\ DeadIsGone' /\ (~guardFired' => InFlight')
<1> USE DEF FlightInv, IntakeInv
<1>1. /\ phase \in [Calls -> Phases] /\ answer \in [Calls -> Answers]
      /\ answer[c] = None /\ c # None
    BY CallsAreNamed DEF TypeInv, TypeOK, AnsweredIsSettled
<1>2. DeadIsGone'
    BY DEF DeadIsGone
<1>3. ASSUME NEW result \in {"core_unavailable", "core_busy"},
             phase' = Settled(phase, c), AnswerTo(c, result, c), UNCHANGED <<pending, toCore>>
      PROVE  AnsweredIsSettled' /\ (~guardFired' => InFlight')
  <2>1. \A d \in Calls : d # c => answer'[d] = answer[d] /\ phase'[d] = phase[d]
      BY <1>1, <1>3 DEF Settled, AnswerTo
  <2>2. phase'[c] = "settled" /\ answer'[c] = [result |-> result, from |-> c]
      BY <1>1, <1>3 DEF Settled, AnswerTo
  <2>3. AnsweredIsSettled'
      BY <2>1, <2>2 DEF AnsweredIsSettled
  <2>4. OneInFlight' <=> OneInFlight
      BY <1>3 DEF OneInFlight
  <2>5. RepliesAreTrue' <=> RepliesAreTrue
      BY DEF RepliesAreTrue, Earned
  <2>6. QED
      BY <2>3, <2>1, <2>2, <2>5, <2>4 DEF InFlight, Earned
<1>4. ASSUME ~dead, pending = None, pending' = c, phase' = [phase EXCEPT ![c] = "pending"],
             Send([type |-> "request", id |-> c]), UNCHANGED answer
      PROVE  AnsweredIsSettled' /\ (~guardFired' => InFlight')
  <2>1. AnsweredIsSettled'
      BY <1>1, <1>4 DEF AnsweredIsSettled
  <2> SUFFICES ASSUME ~guardFired PROVE InFlight'
      BY <2>1
  <2>2. /\ \A i \in 1..Len(toCore) : toCore[i].type # "request"
        /\ serving = None /\ toNode = <<>>
      BY <1>4, NothingInFlight DEF InFlight
  <2>3. [type |-> "request", id |-> c] \in Lines
      BY DEF Lines
  <2>4. \/ toCore' = toCore
        \/ /\ Len(toCore') = Len(toCore) + 1 /\ Len(toCore) \in Nat
           /\ toCore'[Len(toCore) + 1] = [type |-> "request", id |-> c]
           /\ \A i \in 1..Len(toCore) : toCore'[i] = toCore[i]
      BY <1>4, <2>3, SendElements
  <2>5. \A i \in 1..Len(toCore') : toCore'[i].type = "request" =>
            /\ toCore'[i].id = c
            /\ \A j \in 1..Len(toCore') : toCore'[j].type = "request" => j = i
    <3>1. CASE toCore' = toCore
        BY <2>2, <3>1
    <3>2. CASE /\ Len(toCore') = Len(toCore) + 1 /\ Len(toCore) \in Nat
               /\ toCore'[Len(toCore) + 1] = [type |-> "request", id |-> c]
               /\ \A i \in 1..Len(toCore) : toCore'[i] = toCore[i]
      <4>1. \A i \in 1..Len(toCore') : toCore'[i].type = "request" => i = Len(toCore) + 1
          BY <2>2, <3>2
      <4>2. QED
          BY <3>2, <4>1
    <3>3. QED
        BY <2>4, <3>1, <3>2
  <2>6. toNode' = <<>> /\ Len(toNode') = 0
      BY <2>2
  <2>7. OneInFlight'
      BY <1>4, <2>2, <2>5, <2>6 DEF OneInFlight
  <2>8. RepliesAreTrue'
      BY <2>6 DEF RepliesAreTrue
  <2>9. QED
      BY <1>4, <2>7, <2>8 DEF InFlight, Earned
<1>5. ASSUME UNCHANGED <<pending, toCore, answer>>, phase' = [phase EXCEPT ![c] = "queued"]
      PROVE  AnsweredIsSettled' /\ (~guardFired' => InFlight')
  <2>1. AnsweredIsSettled'
      BY <1>1, <1>5 DEF AnsweredIsSettled
  <2>2. InFlight' <=> InFlight
      BY <1>5 DEF InFlight, OneInFlight, RepliesAreTrue, Earned
  <2>3. QED
      BY <2>1, <2>2
<1>6. QED
    BY <1>2, <1>3, <1>4, <1>5 DEF Request

LEMMA CallerKeepsFlight ==
    ASSUME FlightInv, \/ \E c \in Tools : ToolStep(c)
                      \/ \E e \in Evidence : Stage(e) \/ IntakeStep(e)
    PROVE  AnsweredIsSettled' /\ DeadIsGone' /\ (~guardFired' => InFlight')
<1> USE DEF FlightInv, IntakeInv
<1>1. phase \in [Calls -> Phases]
    BY DEF TypeInv, TypeOK
<1>2. ASSUME NEW c \in Calls, phase[c] # "settled", NEW p, phase' = [phase EXCEPT ![c] = p],
             UNCHANGED <<answer, client, pipes, server, serving, run>>
      PROVE  AnsweredIsSettled' /\ DeadIsGone' /\ (~guardFired' => InFlight')
    BY <1>1, <1>2 DEF client, pipes, AnsweredIsSettled, DeadIsGone, InFlight,
                      OneInFlight, RepliesAreTrue, Earned
<1>3. ASSUME NEW c \in Tools, Abort(c)
      PROVE  AnsweredIsSettled' /\ DeadIsGone' /\ (~guardFired' => InFlight')
  <2>1. UNCHANGED <<phase, answer, pending, dead, guardFired, toNode, server, serving, run>>
      BY <1>3 DEF Abort, core, disk
  <2>2. OneInFlight => OneInFlight'
    <3>1. CASE UNCHANGED toCore
        BY <2>1, <3>1 DEF OneInFlight
    <3>2. CASE Send([type |-> "cancel", id |-> pending])
      <4>1. [type |-> "cancel", id |-> pending] \in Lines
          BY DEF Lines, TypeInv, TypeOK
      <4>2. QED
          BY <2>1, <3>2, <4>1, SendKeepsFlight
    <3>3. QED
        BY <1>3, <3>1, <3>2 DEF Abort
  <2>3. QED
      BY <2>1, <2>2 DEF AnsweredIsSettled, DeadIsGone, InFlight, RepliesAreTrue, Earned
<1>4. ASSUME NEW c \in Tools, SendCheck(c) \/ SendTool(c)
      PROVE  AnsweredIsSettled' /\ DeadIsGone' /\ (~guardFired' => InFlight')
    BY <1>4, CallsAreNamed, RequestKeepsFlight DEF SendCheck, SendTool, core, disk
<1>5. ASSUME NEW e \in Evidence, Ingest(e)
      PROVE  AnsweredIsSettled' /\ DeadIsGone' /\ (~guardFired' => InFlight')
    BY <1>5, CallsAreNamed, RequestKeepsFlight DEF Ingest, core, disk
<1>6. ASSUME NEW c \in Tools, StartTool(c)
      PROVE  AnsweredIsSettled' /\ DeadIsGone' /\ (~guardFired' => InFlight')
    BY <1>2, <1>6, CallsAreNamed DEF StartTool, core, disk
<1>7. ASSUME NEW e \in Evidence, Stage(e) \/ AwaitIdle(e)
      PROVE  AnsweredIsSettled' /\ DeadIsGone' /\ (~guardFired' => InFlight')
    BY <1>2, <1>7, CallsAreNamed DEF Stage, AwaitIdle, core, disk
<1>8. ASSUME NEW c \in Tools, Decline(c)
      PROVE  AnsweredIsSettled' /\ DeadIsGone' /\ (~guardFired' => InFlight')
  <2>1. UNCHANGED <<client, pipes, server, serving, run>> /\ c \in Calls
      BY <1>8, CallsAreNamed DEF Decline, core, disk
  <2>2. \A d \in Calls : d # c => answer'[d] = answer[d] /\ phase'[d] = phase[d]
      BY <1>1, <1>8, <2>1 DEF Decline, Settled, AnswerTo, TypeInv, TypeOK
  <2>3. phase'[c] = "settled" /\ answer'[c] = [result |-> "user_declined", from |-> c]
      BY <1>1, <1>8, <2>1 DEF Decline, Settled, AnswerTo, TypeInv, TypeOK
  <2>4. AnsweredIsSettled' /\ DeadIsGone'
      BY <2>1, <2>2, <2>3 DEF client, AnsweredIsSettled, DeadIsGone
  <2>5. (OneInFlight' <=> OneInFlight) /\ (RepliesAreTrue' <=> RepliesAreTrue)
      BY <2>1 DEF client, pipes, OneInFlight, RepliesAreTrue, Earned
  <2>6. QED
      BY <2>1, <2>4, <2>2, <2>3, <2>5 DEF client, InFlight, Earned
<1>9. QED
    BY <1>3, <1>4, <1>5, <1>6, <1>7, <1>8 DEF ToolStep, IntakeStep

LEMMA ClientKeepsFlight ==
    ASSUME FlightInv, CancelGuard \/ ClientStep \/ Stop \/ StopKill
    PROVE  AnsweredIsSettled' /\ DeadIsGone' /\ (~guardFired' => InFlight')
<1> USE DEF FlightInv, IntakeInv
<1>1. /\ answer \in [Calls -> Answers] /\ pending \in Calls \cup {None}
      /\ toNode \in Seq(Replies)
    BY DEF TypeInv, TypeOK
<1>2. CASE Stop
  <2>1. UNCHANGED <<phase, answer, pending, dead, guardFired, toNode, server, serving, run>>
      BY <1>2 DEF Stop, callers, core, disk
  <2>2. OneInFlight => OneInFlight'
    <3>1. [type |-> "eof", id |-> None] \in Lines
        BY DEF Lines
    <3>2. QED
        BY <1>2, <2>1, <3>1, SendKeepsFlight DEF Stop
  <2>3. QED
      BY <2>1, <2>2 DEF AnsweredIsSettled, DeadIsGone, InFlight, RepliesAreTrue, Earned
<1>3. CASE StopKill
  <2>1. UNCHANGED <<phase, answer, pending, dead, guardFired, toCore, toNode, run>>
      BY <1>3 DEF StopKill, callers, pipes, disk
  <2>2. server' = "gone" /\ serving' = None
      BY <1>3 DEF StopKill, Gone
  <2>3. QED
      BY <2>1, <2>2 DEF AnsweredIsSettled, DeadIsGone, InFlight, OneInFlight, RepliesAreTrue, Earned
<1>4. CASE CancelGuard
  <2>1. PendingSettles
      BY <1>4 DEF CancelGuard, FailPending, PendingSettles, Results, TypeInv, TypeOK
  <2>2. AnsweredIsSettled'
      BY <2>1, SettlingAnswers
  <2>3. QED
      BY <1>4, <2>2 DEF CancelGuard, Gone, DeadIsGone
<1>5. CASE OnExit
  <2>1. PendingSettles
      BY <1>5 DEF OnExit, FailPending, PendingSettles, Results, TypeInv, TypeOK
  <2>2. AnsweredIsSettled'
      BY <2>1, SettlingAnswers
  <2>3. DeadIsGone' /\ UNCHANGED <<run, guardFired>> /\ dead' /\ toNode' = <<>>
      BY <1>5 DEF OnExit, core, disk, DeadIsGone
  <2>4. OneInFlight' /\ RepliesAreTrue'
      BY <2>3 DEF OneInFlight, RepliesAreTrue, Earned
  <2>5. \/ UNCHANGED answer
        \/ AnswerTo(pending, "core_exited", pending)
      BY <1>5 DEF OnExit, FailPending
  <2>6. QED
      BY <1>1, <2>2, <2>3, <2>4, <2>5 DEF InFlight, Earned, AnswerTo
<1>6. CASE OnLine
  <2>1. ~dead /\ toNode # <<>> /\ toNode' = Tail(toNode) /\ pending' = None
        /\ UNCHANGED <<dead, guardFired, toCore, core, disk>>
      BY <1>6 DEF OnLine
  <2>2. /\ Head(toNode) \in Replies /\ Len(toNode) \in Nat \ {0}
        /\ toNode' \in Seq(Replies) /\ Len(toNode') = Len(toNode) - 1
        /\ Head(toNode) = toNode[1]
      BY <1>1, <2>1, HeadTailProperties, EmptySeq
  <2>3. PendingSettles
      BY <1>6, <2>2 DEF OnLine, PendingSettles, Replies
  <2>4. AnsweredIsSettled' /\ DeadIsGone'
      BY <2>1, <2>3, SettlingAnswers DEF DeadIsGone
  <2> SUFFICES ASSUME ~guardFired PROVE InFlight'
      BY <2>1, <2>4
  <2>5. /\ Len(toNode) = 1 /\ Head(toNode).id = pending
        /\ serving = None /\ \A i \in 1..Len(toCore) : toCore[i].type # "request"
      BY <2>1, <2>2 DEF InFlight, OneInFlight
  <2>6. Len(toNode') = 0 /\ toNode' = <<>>
      BY <2>2, <2>5, EmptySeq
  <2>7. OneInFlight' /\ RepliesAreTrue'
    <3>1. serving' = None /\ \A i \in 1..Len(toCore') : toCore'[i].type # "request"
        BY <2>1, <2>5 DEF core
    <3>2. OneInFlight'
        BY <2>6, <3>1 DEF OneInFlight
    <3>3. RepliesAreTrue'
        BY <2>6 DEF RepliesAreTrue
    <3>4. QED
        BY <3>2, <3>3
  <2>8. pending \in Calls /\ pending # None
      BY <2>2, <2>5, CallsAreNamed DEF Replies
  <2>9. /\ answer' = [answer EXCEPT ![pending] =
                         [result |-> Head(toNode).result, from |-> pending]]
        /\ Earned(pending, Head(toNode).result)
      BY <1>6, <2>2, <2>5, <2>8 DEF OnLine, AnswerTo, InFlight, RepliesAreTrue
  <2>10. QED
      BY <1>1, <2>1, <2>7, <2>8, <2>9 DEF disk, InFlight, Earned
<1>7. QED
    BY <1>2, <1>3, <1>4, <1>5, <1>6 DEF ClientStep

LEMMA ServerKeepsFlight ==
    ASSUME FlightInv, ServerStep \/ CoreDies \/ UNCHANGED vars
    PROVE  AnsweredIsSettled' /\ DeadIsGone' /\ (~guardFired' => InFlight')
<1> USE DEF FlightInv, IntakeInv
<1>1. UNCHANGED <<phase, answer, pending, dead, guardFired, run>>
    BY DEF ServerStep, ReceiveIdle, Serve, Pump, EmitResult, JoinTimeout, CoreDies,
           vars, callers, client, disk
<1>2. AnsweredIsSettled'
    BY <1>1 DEF AnsweredIsSettled
<1>3. server = "gone" => server' = "gone"
    BY DEF ServerStep, ReceiveIdle, Serve, Pump, EmitResult, JoinTimeout, CoreDies,
           Gone, Receive, vars, core
<1>4. DeadIsGone'
    BY <1>1, <1>3 DEF DeadIsGone
<1>5. ASSUME OneInFlight', RepliesAreTrue', InFlight
      PROVE  InFlight'
    BY <1>1, <1>5 DEF InFlight, Earned
<1> SUFFICES ASSUME ~guardFired PROVE OneInFlight' /\ RepliesAreTrue'
    BY <1>1, <1>2, <1>4, <1>5
<1>6. OneInFlight /\ RepliesAreTrue
    BY DEF InFlight
<1>7. ASSUME UNCHANGED toNode PROVE RepliesAreTrue'
    BY <1>1, <1>6, <1>7 DEF RepliesAreTrue, Earned
<1>8. CASE CoreDies \/ UNCHANGED vars
  <2>1. UNCHANGED <<toCore, toNode>> /\ (serving' = None \/ UNCHANGED serving)
      BY <1>8 DEF CoreDies, Gone, vars, pipes, core
  <2>2. OneInFlight'
      BY <1>1, <1>6, <2>1 DEF OneInFlight
  <2>3. QED
      BY <1>7, <2>1, <2>2
<1>9. CASE ReceiveIdle \/ Serve \/ Pump
  <2>1. Receive /\ server # "gone" /\ ~dead
      BY <1>9 DEF ReceiveIdle, Serve, Pump, Receive, DeadIsGone
  <2>2. /\ Len(toCore') = Len(toCore) - 1 /\ Len(toCore) \in Nat \ {0}
        /\ Head(toCore) = toCore[1]
        /\ \A i \in 1..Len(toCore') : toCore'[i] = toCore[i + 1]
      BY <2>1, ReceiveElements
  <2>3. 1 \in 1..Len(toCore) /\ \A i \in 1..Len(toCore') : i + 1 \in 1..Len(toCore)
      BY <2>2
  <2>4. CASE ReceiveIdle
    <3>1. UNCHANGED <<serving, toNode>> /\ serving = None
        BY <2>4 DEF ReceiveIdle, TypeInv, ServerShape
    <3>2. ASSUME NEW i \in 1..Len(toCore'), toCore'[i].type = "request"
          PROVE  /\ toCore'[i].id = pending /\ toNode = <<>>
                 /\ \A j \in 1..Len(toCore') : toCore'[j].type = "request" => j = i
      <4>1. /\ toCore[i + 1].id = pending /\ toNode = <<>>
            /\ \A j \in 1..Len(toCore) : toCore[j].type = "request" => j = i + 1
          BY <1>6, <2>1, <2>2, <2>3, <3>2 DEF OneInFlight
      <4>2. toCore'[i].id = pending
          BY <2>2, <4>1
      <4>3. ASSUME NEW j \in 1..Len(toCore'), toCore'[j].type = "request"
            PROVE  j = i
        <5>1. toCore[j + 1].type = "request" /\ j + 1 \in 1..Len(toCore)
            BY <2>2, <2>3, <4>3
        <5>2. j + 1 = i + 1
            BY <4>1, <5>1
        <5>3. i \in Int /\ j \in Int
            BY <2>2
        <5>4. QED
            BY <5>2, <5>3
      <4>4. QED
          BY <4>1, <4>2, <4>3
    <3>3. Len(toNode) <= 1 /\ \A i \in 1..Len(toNode) : toNode[i].id = pending
        BY <1>6, <2>1 DEF OneInFlight
    <3>4. OneInFlight'
        BY <1>1, <3>1, <3>2, <3>3 DEF OneInFlight
    <3>5. QED
        BY <1>7, <3>1, <3>4
  <2>5. CASE Serve
    <3>1. toNode' = toNode /\ serving' = Head(toCore).id /\ toCore[1].type = "request"
        BY <2>2, <2>5 DEF Serve
    <3>2. serving' = pending /\ toNode = <<>>
        BY <1>6, <2>1, <2>2, <2>3, <3>1 DEF OneInFlight
    <3>3. \A i \in 1..Len(toCore') : toCore'[i].type # "request"
        BY <1>6, <2>1, <2>2, <2>3, <3>1 DEF OneInFlight
    <3>4. OneInFlight'
        BY <1>1, <1>6, <3>1, <3>2, <3>3 DEF OneInFlight
    <3>5. QED
        BY <1>7, <3>1, <3>4
  <2>6. CASE Pump
    <3>1. serving # None /\ UNCHANGED serving
        BY <2>6 DEF Pump, TypeInv, ServerShape
    <3>2. \A i \in 1..Len(toCore) : toCore[i].type # "request"
        BY <1>6, <2>1, <3>1 DEF OneInFlight
    <3>3. UNCHANGED toNode
        BY <2>2, <2>3, <2>6, <3>2 DEF Pump
    <3>4. OneInFlight'
        BY <1>1, <1>6, <2>2, <2>3, <3>1, <3>2, <3>3 DEF OneInFlight
    <3>5. QED
        BY <1>7, <3>3, <3>4
  <2>7. QED
      BY <1>9, <2>4, <2>5, <2>6
<1>10. CASE EmitResult \/ JoinTimeout
  <2>1. /\ serving # None /\ serving \in Calls /\ ~dead
        /\ serving' = None /\ UNCHANGED toCore
      BY <1>10 DEF EmitResult, JoinTimeout, TypeInv, TypeOK, ServerShape, DeadIsGone
  <2>2. PICK result \in Results :
            /\ toNode' = Append(toNode, [id |-> serving, result |-> result])
            /\ Earned(serving, result)
    <3>1. CASE EmitResult
      <4>1. /\ toNode' = Append(toNode, [id |-> serving, result |-> outcome])
            /\ Earned(serving, outcome)
          BY <3>1 DEF EmitResult, Emit, StagedAtWork, Earned
      <4>2. outcome \in Results
          BY DEF Results, TypeInv, TypeOK
      <4>3. QED
          BY <4>1, <4>2
    <3>2. CASE JoinTimeout
      <4> DEFINE result == "core_unavailable"
      <4>1. toNode' = Append(toNode, [id |-> serving, result |-> result])
          BY <3>2 DEF JoinTimeout, Emit
      <4>2. result \in Results /\ Earned(serving, result)
          BY DEF Results, Earned
      <4> HIDE DEF result
      <4>3. QED
          BY <4>1, <4>2
    <3>3. QED
        BY <1>10, <3>1, <3>2
  <2>3. serving = pending /\ toNode = <<>>
      BY <1>6, <2>1 DEF OneInFlight
  <2>4. \A i \in 1..Len(toCore) : toCore[i].type # "request"
      BY <1>6, <2>1 DEF OneInFlight
  <2>5. Len(toNode') = 1 /\ toNode'[1] = [id |-> serving, result |-> result]
      BY <2>2, <2>3
  <2>6. QED
      BY <1>1, <2>1, <2>2, <2>3, <2>4, <2>5 DEF OneInFlight, RepliesAreTrue, Earned
<1>11. QED
    BY <1>8, <1>9, <1>10 DEF ServerStep

LEMMA HandlerKeepsFlight ==
    ASSUME FlightInv, HandlerStep
    PROVE  AnsweredIsSettled' /\ DeadIsGone' /\ (~guardFired' => InFlight')
<1> USE DEF FlightInv, IntakeInv
<1>1. UNCHANGED <<phase, answer, pending, dead, guardFired, toCore, toNode, server, serving>>
    BY DEF HandlerStep, Refuse, Allow, OpenRun, CommitRun, Raise, Return, callers, client, pipes
<1>2. AnsweredIsSettled' /\ DeadIsGone'
    BY <1>1 DEF AnsweredIsSettled, DeadIsGone
<1>3. serving # None /\ serving \in Calls /\ ~dead
    BY DEF HandlerStep, Refuse, Allow, OpenRun, CommitRun, Raise, Return, TypeInv, TypeOK,
           ServerShape, DeadIsGone
\* The Run of the pending call is written while nobody knows its outcome.
<1>4. ASSUME ~guardFired
      PROVE  toNode = <<>> /\ answer[serving] = None
    BY <1>3, <1>4 DEF InFlight, OneInFlight, TypeInv, PendingIsPending, AnsweredIsSettled
<1>5. \A c \in Calls : c # serving => run'[c] = run[c]
    BY DEF HandlerStep, Refuse, Allow, OpenRun, CommitRun, Raise, Return, disk, TypeInv, TypeOK
<1>6. ASSUME ~guardFired
      PROVE  InFlight'
    BY <1>1, <1>3, <1>4, <1>5, <1>6 DEF InFlight, OneInFlight, RepliesAreTrue, Earned
<1>7. QED
    BY <1>1, <1>2, <1>6

LEMMA FlightStep == FlightInv /\ [Next]_vars => FlightInv'
<1> SUFFICES ASSUME FlightInv, [Next]_vars PROVE FlightInv'
    OBVIOUS
<1>1. IntakeInv'
    BY IntakeStepPreserves DEF FlightInv
<1>2. AnsweredIsSettled' /\ DeadIsGone' /\ (~guardFired' => InFlight')
    BY CallerKeepsFlight, ClientKeepsFlight, ServerKeepsFlight, HandlerKeepsFlight
       DEF Next, Done
<1>3. QED
    BY <1>1, <1>2 DEF FlightInv

LEMMA FlightInit == Init => FlightInv
<1> SUFFICES ASSUME Init PROVE FlightInv
    OBVIOUS
<1>1. IntakeInv
    BY InitEstablishes, CallsAreNamed
       DEF Init, IntakeInv, StagedAtWork, EvidenceKept, NoLostWakeup
<1>2. AnsweredIsSettled /\ DeadIsGone
    BY DEF Init, AnsweredIsSettled, DeadIsGone
<1>3. Len(toCore) = 0 /\ Len(toNode) = 0
    BY EmptySeq DEF Init
<1>4. InFlight
    BY <1>3 DEF Init, InFlight, OneInFlight, RepliesAreTrue, Earned
<1>5. QED
    BY <1>1, <1>2, <1>4 DEF FlightInv

LEMMA FlightInvariant == Spec => []FlightInv
    BY FlightInit, FlightStep, PTL DEF Spec

\* onLine does not compare request ids, and yet, until the cancel guard goes
\* off, every call is answered by its own result.
THEOREM AnswersAreOwn == Spec => []OwnAnswer
<1>1. FlightInv => OwnAnswer
    BY DEF FlightInv, InFlight, OwnAnswer
<1>2. QED
    BY <1>1, FlightInvariant, PTL

\* The class comment of CoreClient: until the cancel guard goes off, no call
\* is told of a success whose Run is not committed as completed.
THEOREM SuccessesAreCommitted == Spec => []SuccessIsCommitted
<1>1. FlightInv => SuccessIsCommitted
    BY DEF FlightInv, InFlight, Earned, SuccessIsCommitted, NoFabricatedSuccess, Successes
<1>2. QED
    BY <1>1, FlightInvariant, PTL
-----------------------------------------------------------------------------
(* The promise *)

\* A call whose request has not been sent.
NotSent(c) == phase[c] \in {"idle", "confirming", "queued", "waiting", "ready"}

\* No Run is opened before its request is received, and one request opens one.
RunsOnce ==
    /\ \A c \in Calls : NotSent(c) => run[c] = "none"
    /\ \A i \in 1..Len(toCore) :
          toCore[i].type = "request" => run[toCore[i].id] = "none"

\* The Run of the request being served, at each stage of its handler.
RunAtWork ==
    /\ handler = "entered" => run[serving] = "none"
    /\ handler = "running" => run[serving] = "running"
    /\ handler \in {"committed", "done"} => Promise!TrueOf(outcome, run[serving])

\* A reply not yet read is true of the Run of its call, guard or no guard.
RepliesHold ==
    \A i \in 1..Len(toNode) :
        /\ toNode[i].result \in Promise!Results
        /\ Promise!TrueOf(toNode[i].result, run[toNode[i].id])

\* Whoever the guard gave up on, no handler is left to write.
GuardIsGone == guardFired => server = "gone"
CancelledIsPending == cancelled => pending # None

PromiseInv ==
    /\ FlightInv
    /\ RunsOnce
    /\ RunAtWork
    /\ RepliesHold
    /\ GuardIsGone
    /\ CancelledIsPending

\* A step of the session is one of the promise, or changes nothing it sees.
Kept == [Promise!Next]_<<answer, run, guardFired>>

LEMMA StateTypes ==
    ASSUME PromiseInv
    PROVE  /\ TypeInv
           /\ phase \in [Calls -> Phases] /\ answer \in [Calls -> Answers]
           /\ run \in [Calls -> RunValues] /\ pending \in Calls \cup {None}
           /\ toCore \in Seq(Lines) /\ toNode \in Seq(Replies) /\ outcome \in Outcomes
    BY DEF PromiseInv, FlightInv, IntakeInv, TypeInv, TypeOK

\* A handler at work serves the pending call, whose answer is still open, and
\* nothing else is under way between the processes.
LEMMA AtWork ==
    ASSUME PromiseInv, handler # "none"
    PROVE  /\ ~guardFired /\ ~dead
           /\ serving \in Calls /\ serving = pending
           /\ answer[serving] = None /\ phase[serving] = "pending"
           /\ toNode = <<>>
           /\ \A i \in 1..Len(toCore) : toCore[i].type # "request"
<1> USE DEF PromiseInv, FlightInv
<1>1. serving # None /\ serving \in Calls /\ server # "gone"
    BY DEF IntakeInv, TypeInv, TypeOK, ServerShape
<1>2. ~guardFired /\ ~dead
    BY <1>1 DEF GuardIsGone, DeadIsGone
<1>3. serving = pending /\ toNode = <<>> /\ \A i \in 1..Len(toCore) : toCore[i].type # "request"
    BY <1>1, <1>2 DEF InFlight, OneInFlight
<1>4. phase[serving] = "pending"
    BY <1>1, <1>3 DEF IntakeInv, TypeInv, PendingIsPending
<1>5. QED
    BY <1>1, <1>2, <1>3, <1>4 DEF AnsweredIsSettled

\* A call that is told what is true of its own Run.
LEMMA OwnIsKept ==
    ASSUME NEW c \in Calls, NEW result \in Promise!Results,
           answer[c] = None, Promise!TrueOf(result, run[c]),
           AnswerTo(c, result, c), UNCHANGED <<run, guardFired>>
    PROVE  Kept
<1>1. Promise!Tell(c, result, c)
    BY DEF AnswerTo, Promise!Tell
<1>2. Promise!Answer(c)
    BY <1>1 DEF Promise!Answer
<1>3. QED
    BY <1>2 DEF Kept, Promise!Next

\* The two results that say nothing are true of any Run.
LEMMA SilentResults ==
    ASSUME NEW result \in {"core_unavailable", "core_exited"}, NEW status
    PROVE  result \in Promise!Results /\ Promise!TrueOf(result, status)
    BY DEF Promise!Results, Promise!TrueOf

(* Callers *)

LEMMA RequestKeepsPromise ==
    ASSUME PromiseInv, NEW c \in Calls, Request(c), phase[c] \in {"idle", "confirming", "ready"},
           UNCHANGED <<run, guardFired>>
    PROVE  RunsOnce' /\ CancelledIsPending' /\ Kept
<1>1. /\ phase \in [Calls -> Phases] /\ TypeInv /\ c # None
      /\ run[c] = "none" /\ answer[c] = None
    BY StateTypes, CallsAreNamed
       DEF PromiseInv, FlightInv, AnsweredIsSettled, RunsOnce, NotSent
<1>2. ASSUME NEW result \in {"core_unavailable", "core_busy"},
             phase' = Settled(phase, c), AnswerTo(c, result, c),
             UNCHANGED <<pending, cancelled, toCore>>
      PROVE  RunsOnce' /\ CancelledIsPending' /\ Kept
  <2>1. \A d \in Calls : NotSent(d)' => NotSent(d)
      BY <1>1, <1>2 DEF NotSent, Settled
  <2>2. RunsOnce' /\ CancelledIsPending'
      BY <1>2, <2>1 DEF PromiseInv, RunsOnce, CancelledIsPending
  <2>3. result \in Promise!Results /\ Promise!TrueOf(result, run[c])
      BY <1>1 DEF Promise!Results, Promise!TrueOf
  <2>4. QED
      BY <1>1, <1>2, <2>2, <2>3, OwnIsKept
<1>3. ASSUME phase' = [phase EXCEPT ![c] = "queued"],
             UNCHANGED <<answer, pending, cancelled, toCore>>
      PROVE  RunsOnce' /\ CancelledIsPending' /\ Kept
  <2>1. \A d \in Calls : NotSent(d)' => NotSent(d)
      BY <1>1, <1>3 DEF NotSent
  <2>2. QED
      BY <1>3, <2>1 DEF PromiseInv, RunsOnce, CancelledIsPending, Kept
<1>4. ASSUME phase' = [phase EXCEPT ![c] = "pending"], pending' = c, cancelled' = FALSE,
             Send([type |-> "request", id |-> c]), UNCHANGED answer
      PROVE  RunsOnce' /\ CancelledIsPending' /\ Kept
  <2>1. \A d \in Calls : NotSent(d)' => NotSent(d)
      BY <1>1, <1>4 DEF NotSent
  <2>2. [type |-> "request", id |-> c] \in Lines
      BY DEF Lines
  <2>3. \A i \in 1..Len(toCore') :
           toCore'[i].type = "request" => run'[toCore'[i].id] = "none"
    <3>1. CASE toCore' = toCore
        BY <3>1 DEF PromiseInv, RunsOnce
    <3>2. CASE /\ Len(toCore') = Len(toCore) + 1 /\ Len(toCore) \in Nat
               /\ toCore'[Len(toCore) + 1] = [type |-> "request", id |-> c]
               /\ \A i \in 1..Len(toCore) : toCore'[i] = toCore[i]
      <4>1. \A i \in 1..Len(toCore') : i \in 1..Len(toCore) \/ i = Len(toCore) + 1
          BY <3>2
      <4>2. QED
          BY <1>1, <3>2, <4>1 DEF PromiseInv, RunsOnce
    <3>3. QED
        BY <1>1, <1>4, <2>2, <3>1, <3>2, SendElements
  <2>4. QED
      BY <1>4, <2>1, <2>3 DEF PromiseInv, RunsOnce, CancelledIsPending, Kept
<1>5. QED
    BY <1>2, <1>3, <1>4 DEF Request

\* Lines that are no requests open no Run.
LEMMA SendKeepsOnce ==
    ASSUME PromiseInv, NEW line \in Lines, line.type # "request", Send(line),
           UNCHANGED <<phase, run>>
    PROVE  RunsOnce'
<1>1. \A c \in Calls : NotSent(c)' => NotSent(c)
    BY DEF NotSent
<1>2. CASE toCore' = toCore
    BY <1>1, <1>2 DEF PromiseInv, RunsOnce
<1>3. CASE /\ Len(toCore') = Len(toCore) + 1 /\ Len(toCore) \in Nat
           /\ toCore'[Len(toCore) + 1] = line
           /\ \A i \in 1..Len(toCore) : toCore'[i] = toCore[i]
  <2>1. \A i \in 1..Len(toCore') : i \in 1..Len(toCore) \/ i = Len(toCore) + 1
      BY <1>3
  <2>2. QED
      BY <1>1, <1>3, <2>1 DEF PromiseInv, RunsOnce
<1>4. QED
    BY <1>2, <1>3, StateTypes, SendElements

LEMMA CallerKeepsPromise ==
    ASSUME PromiseInv, \/ \E c \in Tools : ToolStep(c)
                       \/ \E e \in Evidence : Stage(e) \/ IntakeStep(e)
    PROVE  /\ RunsOnce' /\ RunAtWork' /\ RepliesHold' /\ GuardIsGone' /\ CancelledIsPending'
           /\ Kept
<1>1. UNCHANGED <<guardFired, toNode, core, run>>
    BY DEF ToolStep, SendCheck, StartTool, Decline, SendTool, Abort, Stage, IntakeStep,
           AwaitIdle, Ingest, client, pipes, disk
<1>2. RunAtWork' /\ RepliesHold' /\ GuardIsGone'
    BY <1>1 DEF core, PromiseInv, RunAtWork, RepliesHold, GuardIsGone
<1>3. ASSUME NEW c \in Calls, NotSent(c), NEW p, phase' = [phase EXCEPT ![c] = p],
             UNCHANGED <<answer, pending, cancelled, toCore>>
      PROVE  RunsOnce' /\ CancelledIsPending' /\ Kept
  <2>1. \A d \in Calls : NotSent(d)' => NotSent(d)
      BY <1>3, StateTypes DEF NotSent
  <2>2. QED
      BY <1>1, <1>3, <2>1 DEF PromiseInv, RunsOnce, CancelledIsPending, Kept
<1>4. ASSUME NEW c \in Tools, StartTool(c)
      PROVE  RunsOnce' /\ CancelledIsPending' /\ Kept
    BY <1>3, <1>4, CallsAreNamed DEF StartTool, NotSent, client, pipes
<1>5. ASSUME NEW e \in Evidence, Stage(e) \/ AwaitIdle(e)
      PROVE  RunsOnce' /\ CancelledIsPending' /\ Kept
    BY <1>3, <1>5, CallsAreNamed DEF Stage, AwaitIdle, NotSent, client, pipes
<1>6. ASSUME NEW c \in Tools, SendCheck(c) \/ SendTool(c)
      PROVE  RunsOnce' /\ CancelledIsPending' /\ Kept
    BY <1>1, <1>6, CallsAreNamed, RequestKeepsPromise DEF SendCheck, SendTool
<1>7. ASSUME NEW e \in Evidence, Ingest(e)
      PROVE  RunsOnce' /\ CancelledIsPending' /\ Kept
    BY <1>1, <1>7, CallsAreNamed, RequestKeepsPromise DEF Ingest
<1>8. ASSUME NEW c \in Tools, Abort(c)
      PROVE  RunsOnce' /\ CancelledIsPending' /\ Kept
  <2>1. UNCHANGED <<phase, answer, pending>>
      BY <1>8 DEF Abort
  <2>2. CancelledIsPending'
      BY <1>8, <2>1, CallsAreNamed DEF Abort, Requests, PromiseInv, CancelledIsPending
  <2>3. RunsOnce'
    <3>1. CASE UNCHANGED toCore
        BY <1>1, <2>1, <3>1 DEF PromiseInv, RunsOnce, NotSent
    <3>2. CASE Send([type |-> "cancel", id |-> pending])
      <4>1. [type |-> "cancel", id |-> pending] \in Lines
          BY StateTypes DEF Lines
      <4>2. QED
          BY <1>1, <2>1, <3>2, <4>1, SendKeepsOnce
    <3>3. QED
        BY <1>8, <3>1, <3>2 DEF Abort
  <2>4. QED
      BY <1>1, <2>1, <2>2, <2>3 DEF Kept
<1>9. ASSUME NEW c \in Tools, Decline(c)
      PROVE  RunsOnce' /\ CancelledIsPending' /\ Kept
  <2>1. c \in Calls /\ run[c] = "none" /\ answer[c] = None
      BY <1>9, CallsAreNamed, StateTypes
         DEF Decline, PromiseInv, FlightInv, AnsweredIsSettled, RunsOnce, NotSent
  <2>2. \A d \in Calls : NotSent(d)' => NotSent(d)
      BY <1>9, <2>1, StateTypes DEF Decline, Settled, NotSent
  <2>3. RunsOnce' /\ CancelledIsPending'
      BY <1>1, <1>9, <2>2 DEF Decline, client, pipes, PromiseInv, RunsOnce, CancelledIsPending
  <2>4. "user_declined" \in Promise!Results /\ Promise!TrueOf("user_declined", run[c])
      BY <2>1 DEF Promise!Results, Promise!TrueOf
  <2>5. AnswerTo(c, "user_declined", c)
      BY <1>9 DEF Decline
  <2>6. QED
      BY <1>1, <2>1, <2>3, <2>4, <2>5, OwnIsKept
<1>10. QED
    BY <1>2, <1>4, <1>5, <1>6, <1>7, <1>8, <1>9 DEF ToolStep, IntakeStep

(* The client *)

\* Settling the pending promise and waking the waiters sends nothing.
LEMMA SettlingKeepsOnce ==
    ASSUME PromiseInv, PendingSettles, UNCHANGED <<toCore, run>>
    PROVE  RunsOnce' /\ CancelledIsPending'
<1>1. phase \in [Calls -> Phases]
    BY StateTypes
<1>2. \A c \in Calls : NotSent(c)' => NotSent(c)
    BY <1>1 DEF PendingSettles, Settled, Woken, NotSent
<1>3. QED
    BY <1>2 DEF PendingSettles, PromiseInv, RunsOnce, CancelledIsPending

\* The pending call has no answer yet.
LEMMA PendingIsOpen ==
    ASSUME PromiseInv, pending # None
    PROVE  pending \in Calls /\ answer[pending] = None
    BY StateTypes
       DEF PromiseInv, FlightInv, AnsweredIsSettled, IntakeInv, TypeInv, PendingIsPending

LEMMA ClientKeepsPromise ==
    ASSUME PromiseInv, CancelGuard \/ ClientStep \/ Stop \/ StopKill
    PROVE  /\ RunsOnce' /\ RunAtWork' /\ RepliesHold' /\ GuardIsGone' /\ CancelledIsPending'
           /\ Kept
<1>1. CASE Stop
  <2>1. /\ UNCHANGED <<phase, answer, pending, cancelled, guardFired, toNode, core, run>>
        /\ Send([type |-> "eof", id |-> None])
      BY <1>1 DEF Stop, callers, disk
  <2>2. [type |-> "eof", id |-> None] \in Lines
      BY DEF Lines
  <2>3. RunsOnce'
      BY <2>1, <2>2, SendKeepsOnce
  <2>4. RunAtWork' /\ RepliesHold' /\ GuardIsGone' /\ CancelledIsPending' /\ Kept
      BY <2>1 DEF core, PromiseInv, RunAtWork, RepliesHold, GuardIsGone,
                  CancelledIsPending, Kept
  <2>5. QED
      BY <2>3, <2>4
<1>2. CASE StopKill
  <2>1. /\ UNCHANGED <<phase, answer, pending, cancelled, guardFired, toCore, toNode, run>>
        /\ handler' = "none" /\ server' = "gone"
      BY <1>2 DEF StopKill, Gone, callers, pipes, disk
  <2>2. QED
      BY <2>1 DEF PromiseInv, RunsOnce, NotSent, RunAtWork, RepliesHold, GuardIsGone,
                  CancelledIsPending, Kept
<1>3. CASE CancelGuard
  <2>1. /\ pending # None /\ guardFired' = TRUE /\ FailPending("core_unavailable")
        /\ handler' = "none" /\ server' = "gone" /\ UNCHANGED <<toCore, toNode, run>>
      BY <1>3 DEF CancelGuard, Gone, pipes, disk, PromiseInv, CancelledIsPending
  <2>2. PendingSettles
      BY <2>1, StateTypes DEF FailPending, PendingSettles, Results
  <2>3. RunsOnce' /\ CancelledIsPending'
      BY <2>1, <2>2, SettlingKeepsOnce
  <2>4. RunAtWork' /\ RepliesHold' /\ GuardIsGone'
      BY <2>1 DEF PromiseInv, RunAtWork, RepliesHold, GuardIsGone
  <2>5. pending \in Calls /\ Promise!Break(pending)
      BY <2>1, PendingIsOpen DEF FailPending, AnswerTo, Promise!Break, Promise!Tell
  <2>6. QED
      BY <2>3, <2>4, <2>5 DEF Kept, Promise!Next
<1>4. CASE OnExit
  <2>1. /\ FailPending("core_exited") /\ toNode' = <<>>
        /\ UNCHANGED <<guardFired, toCore, core, run>>
      BY <1>4 DEF OnExit, disk
  <2>2. PendingSettles
      BY <2>1, StateTypes DEF FailPending, PendingSettles, Results
  <2>3. RunsOnce' /\ CancelledIsPending'
      BY <2>1, <2>2, SettlingKeepsOnce
  <2>4. RunAtWork' /\ RepliesHold' /\ GuardIsGone'
      BY <2>1 DEF core, PromiseInv, RunAtWork, RepliesHold, GuardIsGone
  <2>5. CASE pending = None
      BY <2>1, <2>3, <2>4, <2>5 DEF FailPending, Kept
  <2>6. CASE pending # None
    <3>1. /\ pending \in Calls /\ answer[pending] = None
          /\ AnswerTo(pending, "core_exited", pending)
        BY <2>1, <2>6, PendingIsOpen DEF FailPending
    <3>2. Kept
        BY <2>1, <3>1, SilentResults, OwnIsKept
    <3>3. QED
        BY <2>3, <2>4, <3>2
  <2>7. QED
      BY <2>5, <2>6
<1>5. CASE OnLine
  <2>1. /\ ~dead /\ toNode # <<>> /\ toNode' = Tail(toNode) /\ pending' = None
        /\ UNCHANGED <<guardFired, toCore, core, run>>
      BY <1>5 DEF OnLine, disk
  <2>2. /\ Head(toNode) = toNode[1] /\ Head(toNode) \in Replies
        /\ Len(toNode) \in Nat \ {0} /\ Len(toNode') = Len(toNode) - 1
        /\ \A i \in 1..Len(toNode') : toNode'[i] = toNode[i + 1]
      BY <2>1, StateTypes, HeadTailProperties, EmptySeq
  <2>3. 1 \in 1..Len(toNode) /\ \A i \in 1..Len(toNode') : i + 1 \in 1..Len(toNode)
      BY <2>2
  <2>4. PendingSettles
      BY <1>5, <2>2 DEF OnLine, PendingSettles, Replies
  <2>5. RunsOnce' /\ CancelledIsPending'
      BY <2>1, <2>4, SettlingKeepsOnce
  <2>6. RunAtWork' /\ RepliesHold' /\ GuardIsGone'
      BY <2>1, <2>2, <2>3 DEF core, PromiseInv, RunAtWork, RepliesHold, GuardIsGone
  <2>7. CASE pending = None
      BY <1>5, <2>1, <2>5, <2>6, <2>7 DEF OnLine, Kept
  <2>8. CASE pending # None
    <3> DEFINE reply == toNode[1]
    <3>1. /\ pending \in Calls /\ answer[pending] = None
          /\ AnswerTo(pending, reply.result, reply.id)
        BY <1>5, <2>2, <2>8, PendingIsOpen DEF OnLine
    <3>2. reply.result \in Promise!Results /\ Promise!TrueOf(reply.result, run[reply.id])
        BY <2>3 DEF PromiseInv, RepliesHold
    <3>3. reply.id \in Calls
        BY <2>2 DEF Replies
    <3>4. guardFired \/ reply.id = pending
        BY <2>1, <2>3 DEF PromiseInv, FlightInv, InFlight, OneInFlight
    <3> HIDE DEF reply
    <3>5. Promise!Tell(pending, reply.result, reply.id)
        BY <3>1 DEF AnswerTo, Promise!Tell
    <3>6. Promise!Answer(pending)
        BY <2>1, <3>2, <3>3, <3>4, <3>5 DEF Promise!Answer
    <3>7. QED
        BY <2>5, <2>6, <3>1, <3>6 DEF Kept, Promise!Next
  <2>9. QED
      BY <2>7, <2>8
<1>6. QED
    BY <1>1, <1>2, <1>3, <1>4, <1>5 DEF ClientStep

(* The Core *)

LEMMA ServerKeepsPromise ==
    ASSUME PromiseInv, ServerStep \/ CoreDies \/ UNCHANGED vars
    PROVE  /\ RunsOnce' /\ RunAtWork' /\ RepliesHold' /\ GuardIsGone' /\ CancelledIsPending'
           /\ Kept
<1>1. /\ UNCHANGED <<phase, answer, pending, cancelled, guardFired, run>>
      /\ server = "gone" => server' = "gone"
    BY DEF ServerStep, ReceiveIdle, Serve, Pump, EmitResult, JoinTimeout, CoreDies,
           Gone, Receive, vars, callers, client, core, disk
<1>2. GuardIsGone' /\ CancelledIsPending' /\ Kept
    BY <1>1 DEF PromiseInv, GuardIsGone, CancelledIsPending, Kept
<1>3. ASSUME UNCHANGED toCore PROVE RunsOnce'
    BY <1>1, <1>3 DEF PromiseInv, RunsOnce, NotSent
<1>4. CASE CoreDies \/ UNCHANGED vars
  <2>1. /\ UNCHANGED <<toCore, toNode>>
        /\ handler' = "none" \/ UNCHANGED <<handler, serving, outcome>>
      BY <1>4 DEF CoreDies, Gone, vars, pipes, core
  <2>2. RunAtWork' /\ RepliesHold'
      BY <1>1, <2>1 DEF PromiseInv, RunAtWork, RepliesHold
  <2>3. QED
      BY <1>2, <1>3, <2>1, <2>2
<1>5. CASE ReceiveIdle \/ Serve \/ Pump
  <2>1. /\ Len(toCore') = Len(toCore) - 1 /\ Len(toCore) \in Nat \ {0}
        /\ Head(toCore) = toCore[1]
        /\ \A i \in 1..Len(toCore') : toCore'[i] = toCore[i + 1]
      BY <1>5, StateTypes, ReceiveElements DEF ReceiveIdle, Serve, Pump
  <2>2. 1 \in 1..Len(toCore) /\ \A i \in 1..Len(toCore') : i + 1 \in 1..Len(toCore)
      BY <2>1
  <2>3. RunsOnce'
      BY <1>1, <2>1, <2>2 DEF PromiseInv, RunsOnce, NotSent
  <2>4. CASE ReceiveIdle
    <3>1. UNCHANGED <<toNode, handler, serving, outcome>>
        BY <2>4 DEF ReceiveIdle
    <3>2. QED
        BY <1>1, <1>2, <2>3, <3>1 DEF PromiseInv, RunAtWork, RepliesHold
  <2>5. CASE Serve
    <3>1. /\ UNCHANGED toNode /\ handler' = "entered"
          /\ serving' = toCore[1].id /\ toCore[1].type = "request"
        BY <2>1, <2>5 DEF Serve
    <3>2. run[toCore[1].id] = "none"
        BY <2>2, <3>1 DEF PromiseInv, RunsOnce
    <3>3. RunAtWork' /\ RepliesHold'
        BY <1>1, <3>1, <3>2 DEF PromiseInv, RunAtWork, RepliesHold
    <3>4. QED
        BY <1>2, <2>3, <3>3
  <2>6. CASE Pump
    <3>1. UNCHANGED <<handler, serving, outcome>> /\ serving # None
        BY <2>6, StateTypes DEF Pump, TypeInv, ServerShape
    <3>2. handler # "none"
        BY <3>1, StateTypes DEF TypeInv, ServerShape
    <3>3. toCore[1].type # "request"
        BY <2>2, <3>2, AtWork
    <3>4. UNCHANGED toNode
        BY <2>1, <2>6, <3>3 DEF Pump
    <3>5. QED
        BY <1>1, <1>2, <2>3, <3>1, <3>4 DEF PromiseInv, RunAtWork, RepliesHold
  <2>7. QED
      BY <1>5, <2>4, <2>5, <2>6
<1>6. CASE EmitResult \/ JoinTimeout
  <2>1. UNCHANGED toCore /\ handler' = "none" /\ handler # "none"
    <3>1. UNCHANGED toCore /\ handler' = "none" /\ server \in {"serving", "joining"}
        BY <1>6 DEF EmitResult, JoinTimeout
    <3>2. QED
        BY <3>1, StateTypes DEF TypeInv, ServerShape
  <2>2. toNode = <<>>
      BY <2>1, AtWork
  <2>3. PICK result \in Promise!Results :
            /\ toNode' = Append(toNode, [id |-> serving, result |-> result])
            /\ Promise!TrueOf(result, run[serving])
    <3>1. CASE EmitResult
      <4>1. /\ toNode' = Append(toNode, [id |-> serving, result |-> outcome])
            /\ Promise!TrueOf(outcome, run[serving])
          BY <3>1 DEF EmitResult, Emit, PromiseInv, RunAtWork
      <4>2. outcome \in Promise!Results
          BY StateTypes DEF Outcomes, Ends, Promise!Results
      <4>3. QED
          BY <4>1, <4>2
    <3>2. CASE JoinTimeout
      <4> DEFINE result == "core_unavailable"
      <4>1. toNode' = Append(toNode, [id |-> serving, result |-> result])
          BY <3>2 DEF JoinTimeout, Emit
      <4>2. result \in Promise!Results /\ Promise!TrueOf(result, run[serving])
          BY SilentResults
      <4> HIDE DEF result
      <4>3. QED
          BY <4>1, <4>2
    <3>3. QED
        BY <1>6, <3>1, <3>2
  <2>4. Len(toNode') = 1 /\ toNode'[1] = [id |-> serving, result |-> result]
      BY <2>2, <2>3
  <2>5. RunAtWork' /\ RepliesHold'
      BY <1>1, <2>1, <2>3, <2>4 DEF RunAtWork, RepliesHold
  <2>6. QED
      BY <1>2, <1>3, <2>1, <2>5
<1>7. QED
    BY <1>4, <1>5, <1>6 DEF ServerStep

LEMMA HandlerKeepsPromise ==
    ASSUME PromiseInv, HandlerStep
    PROVE  /\ RunsOnce' /\ RunAtWork' /\ RepliesHold' /\ GuardIsGone' /\ CancelledIsPending'
           /\ Kept
<1>1. UNCHANGED <<phase, answer, pending, cancelled, guardFired, toCore, toNode, server, serving>>
    BY DEF HandlerStep, Refuse, Allow, OpenRun, CommitRun, Raise, Return, callers, client, pipes
<1>2. /\ ~guardFired /\ serving \in Calls /\ answer[serving] = None
      /\ phase[serving] = "pending" /\ toNode = <<>>
      /\ \A i \in 1..Len(toCore) : toCore[i].type # "request"
    BY AtWork DEF HandlerStep, Refuse, Allow, OpenRun, CommitRun, Raise, Return
<1>3. \A c \in Calls : c # serving => run'[c] = run[c]
    BY StateTypes DEF HandlerStep, Refuse, Allow, OpenRun, CommitRun, Raise, Return, disk
<1>4. RunsOnce' /\ RepliesHold' /\ GuardIsGone' /\ CancelledIsPending'
    BY <1>1, <1>2, <1>3 DEF PromiseInv, RunsOnce, NotSent, RepliesHold, GuardIsGone,
                            CancelledIsPending
<1>5. CASE Refuse
  <2>1. run[serving] = "none" /\ UNCHANGED run /\ handler' = "done" /\ outcome' = "failed"
      BY <1>5 DEF Refuse, disk, PromiseInv, RunAtWork
  <2>2. RunAtWork'
      BY <1>1, <2>1 DEF RunAtWork, Promise!TrueOf
  <2>3. QED
      BY <1>1, <1>4, <2>1, <2>2 DEF Kept
<1>6. CASE OpenRun
  <2>1. /\ run[serving] = "none" /\ handler' = "running"
        /\ run' = [run EXCEPT ![serving] = "running"]
      BY <1>6 DEF OpenRun, PromiseInv, RunAtWork
  <2>2. RunAtWork'
      BY <1>1, <1>2, <2>1, StateTypes DEF RunAtWork
  <2>3. Promise!Open(serving)
      BY <1>1, <1>2, <2>1 DEF Promise!Open
  <2>4. QED
      BY <1>2, <1>4, <2>2, <2>3 DEF Kept, Promise!Next
<1>7. CASE CommitRun
  <2>1. PICK o \in Ends :
            /\ outcome' = o
            /\ run' = [run EXCEPT ![serving] = IF o = "ok" THEN "completed" ELSE o]
      BY <1>7 DEF CommitRun
  <2>2. run[serving] = "running" /\ handler' = "committed"
      BY <1>7 DEF CommitRun, PromiseInv, RunAtWork
  <2>3. RunAtWork'
      BY <1>1, <1>2, <2>1, <2>2, StateTypes DEF RunAtWork, Ends, Promise!TrueOf
  <2>4. (IF o = "ok" THEN "completed" ELSE o) \in Promise!Verdicts
      BY <2>1 DEF Ends, Promise!Verdicts
  <2>5. Promise!Commit(serving)
      BY <1>1, <1>2, <2>1, <2>2, <2>4 DEF Promise!Commit
  <2>6. QED
      BY <1>2, <1>4, <2>3, <2>5 DEF Kept, Promise!Next
<1>8. CASE Return
  <2>1. UNCHANGED <<run, outcome>> /\ handler = "committed" /\ handler' = "done"
      BY <1>8 DEF Return
  <2>2. RunAtWork'
      BY <1>1, <2>1 DEF PromiseInv, RunAtWork
  <2>3. QED
      BY <1>1, <1>4, <2>1, <2>2 DEF Kept
<1>9. CASE Raise
  <2>1. /\ UNCHANGED run /\ handler' = "done" /\ outcome' = "failed"
        /\ run[serving] # "cancelled"
      BY <1>9 DEF Raise, disk, PromiseInv, RunAtWork, Promise!TrueOf
  <2>2. RunAtWork'
      BY <1>1, <2>1 DEF RunAtWork, Promise!TrueOf
  <2>3. QED
      BY <1>1, <1>4, <2>1, <2>2 DEF Kept
<1>10. CASE Allow
  <2>1. run[serving] = "none" /\ UNCHANGED run /\ handler' = "done" /\ outcome' = "in_scope"
      BY <1>10 DEF Allow, disk, PromiseInv, RunAtWork
  <2>2. RunAtWork'
      BY <1>1, <2>1 DEF RunAtWork, Promise!TrueOf
  <2>3. QED
      BY <1>1, <1>4, <2>1, <2>2 DEF Kept
<1>11. QED
    BY <1>5, <1>6, <1>7, <1>8, <1>9, <1>10 DEF HandlerStep

LEMMA PromiseStep == PromiseInv /\ [Next]_vars => PromiseInv' /\ Kept
<1> SUFFICES ASSUME PromiseInv, [Next]_vars PROVE PromiseInv' /\ Kept
    OBVIOUS
<1>1. FlightInv'
    BY FlightStep DEF PromiseInv
<1>2. /\ RunsOnce' /\ RunAtWork' /\ RepliesHold' /\ GuardIsGone' /\ CancelledIsPending'
      /\ Kept
    BY CallerKeepsPromise, ClientKeepsPromise, ServerKeepsPromise, HandlerKeepsPromise
       DEF Next, Done
<1>3. QED
    BY <1>1, <1>2 DEF PromiseInv

\* The class comment of CoreClient, as a refinement: whatever the order of
\* lines, aborts, exits, crashes and kills, every call is executed at most
\* once and answered at most once, with what is true of its Run, and no Run
\* changes after its answer; after the cancel guard an answer may be that of
\* another call, and no Run changes any more.
THEOREM CallsKeepPromise == Spec => ImplementsPromise
<1>1. Init => PromiseInv /\ Promise!Init
  <2> SUFFICES ASSUME Init PROVE PromiseInv /\ Promise!Init
      OBVIOUS
  <2>1. Len(toCore) = 0 /\ Len(toNode) = 0
      BY EmptySeq DEF Init
  <2>2. RunsOnce /\ RunAtWork /\ RepliesHold /\ GuardIsGone /\ CancelledIsPending
      BY <2>1 DEF Init, RunsOnce, RunAtWork, RepliesHold, GuardIsGone, CancelledIsPending
  <2>3. FlightInv
      BY FlightInit
  <2>4. QED
      BY <2>2, <2>3 DEF PromiseInv, Init, Promise!Init
<1>2. PromiseInv /\ [Next]_vars => PromiseInv' /\ [Promise!Next]_<<answer, run, guardFired>>
    BY PromiseStep DEF Kept
<1>3. QED
    BY <1>1, <1>2, PTL DEF Spec, ImplementsPromise, Promise!Spec
=============================================================================
