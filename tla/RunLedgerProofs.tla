-------------------------- MODULE RunLedgerProofs ---------------------------
(***************************************************************************)
(* Machine-checked theorems about RunLedger, for every set of Cores, Runs   *)
(* and contents.  The inductive invariant LedgerInv says who may write      *)
(* which Run: a Core with a handler owns one Run, nobody else owns it, it   *)
(* has no verdict yet, and its caller has been told nothing.                *)
(***************************************************************************)
EXTENDS RunLedger, TLAPS

\* The Run of a live handler is running or was interrupted by another Core,
\* and its caller still waits.
OwnsUnsettled ==
    \A c \in Cores : Busy(c) =>
        /\ cur[c] \in Runs
        /\ status[cur[c]] \in {"running", "interrupted"}
        /\ reply[cur[c]] = "none"

\* Run identifiers are fresh, so two handlers never share a Run.
OwnersDiffer ==
    \A c, e \in Cores : Busy(c) /\ Busy(e) /\ c # e => cur[c] # cur[e]

\* A Core without a handler owns no Run.
IdleOwnsNothing == \A c \in Cores : ~Busy(c) => cur[c] = None

\* A file appears whole, and before the row that refers to it.
FilesFirst ==
    /\ \A d \in Contents : file[d] # "partial"
    /\ \A c \in Cores :
        /\ pc[c] \in {"rename", "row"} => held[c] \in Contents
        /\ pc[c] = "row" => file[held[c]] = "whole"

LedgerInv ==
    /\ TypeOK
    /\ OwnsUnsettled
    /\ OwnersDiffer
    /\ IdleOwnsNothing
    /\ FilesFirst
    /\ ArtifactsWhole
    /\ ReplyMatchesLedger
    /\ NoOrphanRun

-----------------------------------------------------------------------------
\* The initial ledger is empty and every Core is closed.
LEMMA InitEstablishes == Init => LedgerInv
<1> SUFFICES ASSUME Init PROVE LedgerInv
    OBVIOUS
<1>1. TypeOK
    BY DEF Init, TypeOK, RunStatuses, Verdicts, FileStates, Steps, Replies
<1>2. OwnsUnsettled /\ OwnersDiffer
    BY DEF Init, OwnsUnsettled, OwnersDiffer, Busy
<1>3. FilesFirst /\ ArtifactsWhole
    BY DEF Init, FilesFirst, ArtifactsWhole
<1>4. IdleOwnsNothing /\ ReplyMatchesLedger /\ NoOrphanRun
    BY DEF Init, IdleOwnsNothing, ReplyMatchesLedger, NoOrphanRun
<1>5. QED
    BY <1>1, <1>2, <1>3, <1>4 DEF LedgerInv

\* Opening the store may interrupt any running Run, owned or not; it leaves
\* verdicts, files and owners alone.
LEMMA OpenPreserves ==
    ASSUME LedgerInv, NEW c \in Cores, Open(c)
    PROVE  LedgerInv'
<1> USE DEF LedgerInv, TypeOK, Open
<1>1. TypeOK'
    BY DEF RunStatuses, Terminal, Steps
<1>2. (OwnsUnsettled /\ OwnersDiffer)'
    BY DEF OwnsUnsettled, OwnersDiffer, Busy
<1>3. (FilesFirst /\ ArtifactsWhole)'
    BY DEF FilesFirst, ArtifactsWhole
<1>4. (IdleOwnsNothing /\ ReplyMatchesLedger /\ NoOrphanRun)'
    BY DEF IdleOwnsNothing, Busy, ReplyMatchesLedger, NoOrphanRun
<1>5. QED
    BY <1>1, <1>2, <1>3, <1>4 DEF LedgerInv

\* A new Run was absent, so nobody owned it and nobody was told about it.
LEMMA StartRunPreserves ==
    ASSUME LedgerInv, NEW c \in Cores, NEW r \in Runs, StartRun(c, r)
    PROVE  LedgerInv'
<1> USE DEF LedgerInv, TypeOK, StartRun
<1>1. TypeOK'
    BY DEF RunStatuses, Steps
<1>2. \A e \in Cores : Busy(e) => cur[e] # r
    BY DEF OwnsUnsettled
<1>3. reply[r] = "none"
    BY DEF ReplyMatchesLedger, Replies
<1>4. (OwnsUnsettled /\ OwnersDiffer)'
    BY <1>2, <1>3, NoneAssumption DEF OwnsUnsettled, OwnersDiffer, Busy
<1>5. (FilesFirst /\ ArtifactsWhole)'
    BY DEF FilesFirst, ArtifactsWhole
<1>6. ReplyMatchesLedger'
    BY <1>3 DEF ReplyMatchesLedger
<1>7. (IdleOwnsNothing /\ NoOrphanRun)'
    BY NoneAssumption DEF IdleOwnsNothing, NoOrphanRun, Busy
<1>8. QED
    BY <1>1, <1>4, <1>5, <1>6, <1>7 DEF LedgerInv

\* Storing an artifact touches files, rows and the writer's own position.
LEMMA ArtifactPreserves ==
    ASSUME LedgerInv, NEW c \in Cores,
           \/ \E d \in Contents : WriteArtifact(c, d)
           \/ RenameArtifact(c)
           \/ InsertArtifact(c)
    PROVE  LedgerInv'
<1> USE DEF LedgerInv, TypeOK
<1>1. ASSUME NEW d \in Contents, WriteArtifact(c, d)
      PROVE  LedgerInv'
  <2>1. TypeOK'
      BY <1>1 DEF WriteArtifact, Steps
  <2>2. (FilesFirst /\ ArtifactsWhole)'
      BY <1>1 DEF WriteArtifact, FilesFirst, ArtifactsWhole, FileStates
  <2>3. (OwnsUnsettled /\ OwnersDiffer /\ IdleOwnsNothing)'
      BY <1>1 DEF WriteArtifact, OwnsUnsettled, OwnersDiffer, IdleOwnsNothing, Busy
  <2>4. (ReplyMatchesLedger /\ NoOrphanRun)'
      BY <1>1 DEF WriteArtifact, ReplyMatchesLedger, NoOrphanRun
  <2>5. QED
      BY <2>1, <2>2, <2>3, <2>4 DEF LedgerInv
<1>2. ASSUME RenameArtifact(c)
      PROVE  LedgerInv'
  <2>1. TypeOK'
      BY <1>2 DEF RenameArtifact, Steps, FileStates
  <2>2. (FilesFirst /\ ArtifactsWhole)'
      BY <1>2 DEF RenameArtifact, FilesFirst, ArtifactsWhole
  <2>3. (OwnsUnsettled /\ OwnersDiffer /\ IdleOwnsNothing)'
      BY <1>2 DEF RenameArtifact, OwnsUnsettled, OwnersDiffer, IdleOwnsNothing, Busy
  <2>4. (ReplyMatchesLedger /\ NoOrphanRun)'
      BY <1>2 DEF RenameArtifact, ReplyMatchesLedger, NoOrphanRun
  <2>5. QED
      BY <2>1, <2>2, <2>3, <2>4 DEF LedgerInv
<1>3. ASSUME InsertArtifact(c)
      PROVE  LedgerInv'
  <2>1. cur[c] \in Runs /\ held[c] \in Contents /\ file[held[c]] = "whole"
      BY <1>3 DEF InsertArtifact, OwnsUnsettled, Busy, FilesFirst
  <2>2. TypeOK'
      BY <1>3, <2>1 DEF InsertArtifact, Steps
  <2>3. (FilesFirst /\ ArtifactsWhole)'
      BY <1>3, <2>1 DEF InsertArtifact, FilesFirst, ArtifactsWhole
  <2>4. (OwnsUnsettled /\ OwnersDiffer /\ IdleOwnsNothing)'
      BY <1>3 DEF InsertArtifact, OwnsUnsettled, OwnersDiffer, IdleOwnsNothing, Busy
  <2>5. (ReplyMatchesLedger /\ NoOrphanRun)'
      BY <1>3 DEF InsertArtifact, ReplyMatchesLedger, NoOrphanRun
  <2>6. QED
      BY <2>2, <2>3, <2>4, <2>5 DEF LedgerInv
<1>4. QED
    BY <1>1, <1>2, <1>3

\* finish_run: a conflict is only seen on an interrupted Run, and the UPDATE
\* reaches the Run of its own handler and no other.
LEMMA FinishPreserves ==
    ASSUME LedgerInv, NEW c \in Cores,
           \/ \E v \in Verdicts : BodyEnds(c, v)
           \/ Finishing(c)
           \/ ExceptionRecorded(c)
    PROVE  LedgerInv'
<1> USE DEF LedgerInv, TypeOK
<1>1. ASSUME NEW v \in Verdicts, BodyEnds(c, v)
      PROVE  LedgerInv'
  <2>1. TypeOK'
      BY <1>1 DEF BodyEnds, ledger, Steps
  <2>2. (OwnsUnsettled /\ OwnersDiffer /\ FilesFirst)'
      BY <1>1 DEF BodyEnds, ledger, OwnsUnsettled, OwnersDiffer, Busy,
                  FilesFirst
  <2>3. (ArtifactsWhole /\ ReplyMatchesLedger)'
      BY <1>1 DEF BodyEnds, ledger, ArtifactsWhole, ReplyMatchesLedger
  <2>4. (IdleOwnsNothing /\ NoOrphanRun)'
      BY <1>1 DEF BodyEnds, ledger, IdleOwnsNothing, NoOrphanRun, Busy
  <2>5. QED
      BY <2>1, <2>2, <2>3, <2>4 DEF LedgerInv
<1>2. ASSUME SelectRunning(c)
      PROVE  LedgerInv'
  <2>1. TypeOK'
      BY <1>2 DEF SelectRunning, ledger, Steps
  <2>2. (OwnsUnsettled /\ OwnersDiffer /\ FilesFirst)'
      BY <1>2 DEF SelectRunning, ledger, OwnsUnsettled, OwnersDiffer, Busy,
                  FilesFirst
  <2>3. (ArtifactsWhole /\ ReplyMatchesLedger)'
      BY <1>2 DEF SelectRunning, ledger, ArtifactsWhole, ReplyMatchesLedger
  <2>4. (IdleOwnsNothing /\ NoOrphanRun)'
      BY <1>2 DEF SelectRunning, ledger, IdleOwnsNothing, NoOrphanRun, Busy
  <2>5. QED
      BY <2>1, <2>2, <2>3, <2>4 DEF LedgerInv
<1>3. ASSUME SelectSettled(c)
      PROVE  LedgerInv'
  <2>1. cur[c] \in Runs /\ status[cur[c]] = "interrupted"
      BY <1>3 DEF SelectSettled, OwnsUnsettled, Busy
  <2>2. TypeOK'
      BY <1>3, <2>1 DEF SelectSettled, Answer, ledger, Steps, Replies,
                        Verdicts
  <2>3. (OwnsUnsettled /\ OwnersDiffer)'
      BY <1>3, <2>1 DEF SelectSettled, Answer, ledger, OwnsUnsettled,
                        OwnersDiffer, Busy
  <2>4. (FilesFirst /\ ArtifactsWhole)'
      BY <1>3 DEF SelectSettled, Answer, ledger, FilesFirst, ArtifactsWhole
  <2>5. ReplyMatchesLedger'
      BY <1>3, <2>1 DEF SelectSettled, Answer, ledger, ReplyMatchesLedger
  <2>6. (IdleOwnsNothing /\ NoOrphanRun)'
      BY <1>3, <2>1 DEF SelectSettled, Answer, ledger, IdleOwnsNothing, NoOrphanRun, Busy
  <2>7. QED
      BY <2>2, <2>3, <2>4, <2>5, <2>6 DEF LedgerInv
<1>4. ASSUME UpdateRun(c)
      PROVE  LedgerInv'
  <2>1. cur[c] \in Runs /\ reply[cur[c]] = "none"
      BY <1>4 DEF UpdateRun, OwnsUnsettled, Busy
  <2>2. TypeOK'
      BY <1>4, <2>1 DEF UpdateRun, Answer, Steps, Replies, Verdicts, Terminal,
                        RunStatuses
  <2>3. (OwnsUnsettled /\ OwnersDiffer)'
      BY <1>4, <2>1 DEF UpdateRun, Answer, OwnsUnsettled, OwnersDiffer, Busy
  <2>4. (FilesFirst /\ ArtifactsWhole)'
      BY <1>4 DEF UpdateRun, Answer, FilesFirst, ArtifactsWhole
  <2>5. ReplyMatchesLedger'
      BY <1>4, <2>1 DEF UpdateRun, Answer, ReplyMatchesLedger, Verdicts
  <2>6. (IdleOwnsNothing /\ NoOrphanRun)'
      BY <1>4, <2>1 DEF UpdateRun, Answer, IdleOwnsNothing, NoOrphanRun, Busy, Verdicts
  <2>7. QED
      BY <2>2, <2>3, <2>4, <2>5, <2>6 DEF LedgerInv
<1>5. ASSUME ExceptionRecorded(c)
      PROVE  LedgerInv'
  <2>1. TypeOK'
      BY <1>5 DEF ExceptionRecorded, ledger, Steps, Verdicts
  <2>2. (OwnsUnsettled /\ OwnersDiffer /\ IdleOwnsNothing /\ FilesFirst)'
      BY <1>5 DEF ExceptionRecorded, ledger, OwnsUnsettled, OwnersDiffer, IdleOwnsNothing,
                  Busy, FilesFirst
  <2>3. (ArtifactsWhole /\ ReplyMatchesLedger /\ NoOrphanRun)'
      BY <1>5 DEF ExceptionRecorded, ledger, ArtifactsWhole, ReplyMatchesLedger, NoOrphanRun
  <2>4. QED
      BY <2>1, <2>2, <2>3 DEF LedgerInv
<1>6. QED
    BY <1>1, <1>2, <1>3, <1>4, <1>5 DEF Finishing

\* An exception that escapes leaves a Run without a verdict: it is in left, and
\* its caller hears of an internal error.
LEMMA EscapePreserves ==
    ASSUME LedgerInv, NEW c \in Cores, ExceptionEscapes(c)
    PROVE  LedgerInv'
<1> USE DEF LedgerInv, TypeOK, ExceptionEscapes, Answer, ledger
<1>1. cur[c] \in Runs /\ status[cur[c]] \in {"running", "interrupted"}
    BY DEF OwnsUnsettled
<1>2. TypeOK'
    BY <1>1 DEF Steps, Replies
<1>3. (OwnsUnsettled /\ OwnersDiffer /\ IdleOwnsNothing)'
    BY <1>1 DEF OwnsUnsettled, OwnersDiffer, IdleOwnsNothing, Busy
<1>4. (FilesFirst /\ ArtifactsWhole)'
    BY DEF FilesFirst, ArtifactsWhole
<1>5. ReplyMatchesLedger'
    BY <1>1 DEF ReplyMatchesLedger
<1>6. NoOrphanRun'
    BY DEF NoOrphanRun
<1>7. QED
    BY <1>2, <1>3, <1>4, <1>5, <1>6 DEF LedgerInv

\* A dead Core leaves the ledger as it is, owns nothing, and its Run is left.
LEMMA DiePreserves ==
    ASSUME LedgerInv, NEW c \in Cores, Die(c)
    PROVE  LedgerInv'
<1> USE DEF LedgerInv, TypeOK, Die, ledger
<1>1. TypeOK'
    BY DEF Steps
<1>2. (OwnsUnsettled /\ OwnersDiffer)'
    BY DEF OwnsUnsettled, OwnersDiffer, Busy
<1>3. (FilesFirst /\ ArtifactsWhole /\ ReplyMatchesLedger)'
    BY DEF FilesFirst, ArtifactsWhole, ReplyMatchesLedger
<1>4. (IdleOwnsNothing /\ NoOrphanRun)'
    BY NoneAssumption DEF IdleOwnsNothing, NoOrphanRun, Busy
<1>5. QED
    BY <1>1, <1>2, <1>3, <1>4 DEF LedgerInv

LEMMA StutterPreserves == LedgerInv /\ UNCHANGED vars => LedgerInv'
    BY DEF LedgerInv, TypeOK, OwnsUnsettled, OwnersDiffer, IdleOwnsNothing, FilesFirst,
           ArtifactsWhole, ReplyMatchesLedger, NoOrphanRun, Busy, vars

\* Every step of every Core keeps the invariant.
LEMMA StepPreserves == LedgerInv /\ [Next]_vars => LedgerInv'
    BY OpenPreserves, StartRunPreserves, ArtifactPreserves, FinishPreserves,
       EscapePreserves, DiePreserves, StutterPreserves
    DEF Next, HandlerStep, Finishing

\* The inductive invariant holds of every behaviour.
THEOREM LedgerInvariant == Spec => []LedgerInv
    BY InitEstablishes, StepPreserves, PTL DEF Spec

-----------------------------------------------------------------------------
\* Every variable keeps its type.
THEOREM TypeCorrect == Spec => []TypeOK
<1>1. LedgerInv => TypeOK
    BY DEF LedgerInv
<1>2. QED
    BY <1>1, LedgerInvariant, PTL

\* write_artifact: no crash of any Core leaves a row without its whole file.
THEOREM ArtifactsAreWhole == Spec => []ArtifactsWhole
<1>1. LedgerInv => ArtifactsWhole
    BY DEF LedgerInv
<1>2. QED
    BY <1>1, LedgerInvariant, PTL

\* ManagedRun: what the caller was told stays true of the ledger.
THEOREM RepliesAreTrue == Spec => []ReplyMatchesLedger
<1>1. LedgerInv => ReplyMatchesLedger
    BY DEF LedgerInv
<1>2. QED
    BY <1>1, LedgerInvariant, PTL

\* finish_run and mark_interrupted_runs: a verdict of the owning handler is
\* never rewritten, however many Cores share the store.
THEOREM VerdictsAreFinal == Spec => VerdictIsFinal
<1> DEFINE Kept == \A r \in Runs : status[r] \in Verdicts => status'[r] = status[r]
<1>1. LedgerInv /\ [Next]_vars => [Kept]_vars
  <2> SUFFICES ASSUME LedgerInv, [Next]_vars
               PROVE  Kept \/ UNCHANGED vars
      OBVIOUS
  <2> USE DEF LedgerInv, TypeOK, Verdicts
  <2>1. ASSUME NEW c \in Cores, Open(c)
        PROVE  Kept
      BY <2>1 DEF Open
  <2>2. ASSUME NEW c \in Cores, NEW r \in Runs, StartRun(c, r)
        PROVE  Kept
      BY <2>2 DEF StartRun
  <2>3. ASSUME NEW c \in Cores, HandlerStep(c)
        PROVE  Kept
    <3>1. CASE UpdateRun(c)
      <4>1. status[cur[c]] \in {"running", "interrupted"}
          BY <3>1 DEF UpdateRun, OwnsUnsettled, Busy
      <4>2. QED
          BY <3>1, <4>1 DEF UpdateRun
    <3>2. CASE ~UpdateRun(c)
      <4>1. UNCHANGED status
          BY <2>3, <3>2 DEF HandlerStep, WriteArtifact, RenameArtifact,
             InsertArtifact, BodyEnds, SelectRunning, SelectSettled, ExceptionRecorded,
             ExceptionEscapes, ledger
      <4>2. QED
          BY <4>1
    <3>3. QED
        BY <3>1, <3>2
  <2>4. ASSUME NEW c \in Cores, Die(c)
        PROVE  Kept
      BY <2>4 DEF Die, ledger
  <2>5. QED
      BY <2>1, <2>2, <2>3, <2>4 DEF Next
<1>2. QED
    BY <1>1, LedgerInvariant, PTL DEF Spec, VerdictIsFinal

\* mark_interrupted_runs at every start: whoever left a Run running, by dying or
\* by an exception nobody recorded, the next Core to open the store settles it.
THEOREM NoRunIsOrphaned == Spec => []NoOrphanRun
<1>1. LedgerInv => NoOrphanRun
    BY DEF LedgerInv
<1>2. QED
    BY <1>1, LedgerInvariant, PTL

-----------------------------------------------------------------------------
\* The Runs with a handler, as the life cycle of a Run sees them.
Owned == {r \in Runs : \E c \in Cores : cur[c] = r}

\* A handler that ends takes its own Run out of the owned ones, and no other.
LEMMA ReleasesOwn ==
    ASSUME LedgerInv, NEW c \in Cores, Busy(c), cur' = [cur EXCEPT ![c] = None]
    PROVE  cur[c] \in Owned /\ Owned' = Owned \ {cur[c]}
<1>1. /\ cur[c] \in Runs /\ cur[c] # None
      /\ \A e \in Cores : e # c => cur[e] # cur[c]
    BY NoneAssumption DEF LedgerInv, OwnsUnsettled, OwnersDiffer, IdleOwnsNothing
<1>2. \A e \in Cores : cur'[e] = IF e = c THEN None ELSE cur[e]
    BY DEF LedgerInv, TypeOK
<1>3. \A r \in Runs : (\E e \in Cores : cur'[e] = r)
                         <=> (r # cur[c] /\ \E e \in Cores : cur[e] = r)
    BY <1>1, <1>2, NoneAssumption
<1>4. Owned' = {r \in Runs : \E e \in Cores : cur'[e] = r}
    BY DEF Owned
<1> QED BY <1>1, <1>3, <1>4 DEF Owned

\* start_run, finish_run and mark_interrupted_runs: however many Cores share the
\* store, every step of the ledger is a step of the life cycle of a Run.
THEOREM LedgerImplementsLifecycle == Spec => ImplementsLifecycle
<1>1. Init => Lifecycle!Init
    BY NoneAssumption DEF Init, Lifecycle!Init
<1>2. LedgerInv /\ [Next]_vars => [Lifecycle!Next]_<<status, Owned>>
  <2> SUFFICES ASSUME LedgerInv, [Next]_vars
               PROVE  Lifecycle!Next \/ UNCHANGED <<status, Owned>>
      OBVIOUS
  <2> USE DEF LedgerInv, TypeOK
  <2>0. UNCHANGED cur => UNCHANGED Owned
      BY DEF Owned
  <2>1. ASSUME NEW c \in Cores, Open(c) PROVE Lifecycle!Next
      BY <2>0, <2>1 DEF Open, Lifecycle!Next, Lifecycle!Interrupt, Owned
  <2>2. ASSUME NEW c \in Cores, NEW r \in Runs, StartRun(c, r)
        PROVE  Lifecycle!Next
    <3>1. Owned' = Owned \cup {r}
        BY <2>2, NoneAssumption DEF StartRun, Owned, IdleOwnsNothing, Busy
    <3> QED BY <2>2, <3>1 DEF StartRun, Lifecycle!Next, Lifecycle!Begin, Owned
  <2>3. ASSUME NEW c \in Cores, Busy(c), cur' = [cur EXCEPT ![c] = None], UNCHANGED status
        PROVE  Lifecycle!Next
      BY <2>3, ReleasesOwn DEF Lifecycle!Next, Lifecycle!Abandon, Owned
  <2>4. ASSUME NEW c \in Cores, UpdateRun(c) PROVE Lifecycle!Next
    <3>1. cur[c] \in Owned /\ Owned' = Owned \ {cur[c]}
        BY <2>4, ReleasesOwn DEF UpdateRun, Answer, Busy
    <3>2. PICK r \in Runs, v \in Verdicts : r = cur[c] /\ v = outcome[c]
        BY <3>1 DEF Owned
    <3>3. Lifecycle!Settle(r, v)
        BY <2>4, <3>1, <3>2 DEF UpdateRun, Lifecycle!Settle, Owned
    <3> QED BY <3>3 DEF Lifecycle!Next, Verdicts, Lifecycle!Verdicts
  <2>5. ASSUME NEW c \in Cores, SelectSettled(c) \/ ExceptionEscapes(c)
        PROVE  Lifecycle!Next \/ UNCHANGED <<status, Owned>>
    <3>1. CASE UNCHANGED cur
        BY <2>0, <2>5, <3>1 DEF SelectSettled, ExceptionEscapes, ledger
    <3>2. CASE ~UNCHANGED cur
        BY <2>3, <2>5, <3>2 DEF SelectSettled, ExceptionEscapes, Answer, ledger, Busy
    <3> QED BY <3>1, <3>2
  <2>6. ASSUME NEW c \in Cores, HandlerStep(c),
               ~UpdateRun(c), ~SelectSettled(c), ~ExceptionEscapes(c)
        PROVE  UNCHANGED <<status, Owned>>
      BY <2>0, <2>6 DEF HandlerStep, WriteArtifact, RenameArtifact, InsertArtifact,
                  BodyEnds, SelectRunning, ExceptionRecorded, ledger
  <2>7. ASSUME NEW c \in Cores, Die(c)
        PROVE  Lifecycle!Next \/ UNCHANGED <<status, Owned>>
    <3>1. CASE Busy(c)
        BY <2>3, <2>7, <3>1 DEF Die, ledger
    <3>2. CASE ~Busy(c)
      <4>1. cur' = cur
          BY <2>7, <3>2 DEF Die, IdleOwnsNothing
      <4> QED BY <2>0, <2>7, <4>1 DEF Die, ledger
    <3> QED BY <3>1, <3>2
  <2>8. CASE UNCHANGED vars
      BY <2>0, <2>8 DEF vars
  <2> QED
      BY <2>1, <2>2, <2>4, <2>5, <2>6, <2>7, <2>8 DEF Next
<1>3. QED
    BY <1>1, <1>2, LedgerInvariant, PTL
    DEF Spec, Lifecycle!Spec, ImplementsLifecycle, Owned
=============================================================================
