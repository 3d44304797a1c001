------------------------- MODULE SessionTreeProofs -------------------------
(***************************************************************************)
(* What holds of the session tree for any number of entries, moves and      *)
(* failures: its types; its file is its memory but for failed writes; the   *)
(* parent ids chain, so that a fork keeps what it is of; and, on a path     *)
(* whose compactions were saved where they were cut, compaction tells what  *)
(* it takes off and never parts a tool result from its call.                *)
(***************************************************************************)
EXTENDS SessionTree, FiniteSetTheorems, WellFoundedInduction, TLAPS

\* What SavedExceptFailed rests on: a torn line was a failure, whose second
\* victim is still to come; nothing is torn where nothing was written; and the
\* file that a failed first write left is never written again.
Beginning == Lost # {} /\ \A i \in Lost, j \in DOMAIN file : j < i
SavedInv ==
    /\ \A i \in DOMAIN file : i \in DOMAIN mem /\ file[i] = mem[i]
    /\ disk = "none" => ~torn /\ ~flushed /\ ~HasAssistant(mem) /\ DOMAIN file = {}
    /\ torn => faults >= 1
    /\ flushed => Cardinality(Lost) + (IF torn THEN 1 ELSE 0) <= 2 * faults
    /\ ~flushed /\ disk # "none" => faults >= 1 /\ Beginning

LEMMA NoEntries == DOMAIN Empty = {}
  BY DEF Empty

LEMMA CountedIds == ASSUME NEW n \in Nat, NEW S, S \subseteq 1..n
                    PROVE  IsFiniteSet(S) /\ Cardinality(S) \in Nat
<1>1. IsFiniteSet(1..n)
  BY FS_Interval
<1>2. IsFiniteSet(S)
  BY <1>1, FS_Subset
<1> QED BY <1>2, FS_CardinalityType

---------------------------------------------------------------------------
(* Types                                                                    *)

\* The path of an entry of the session is in the session (buildSessionPath).
LEMMA PathInside ==
    ASSUME NEW m, NEW n \in Nat, DOMAIN m \subseteq 1..n,
           \A i \in DOMAIN m : m[i] \in Entry, NEW l
    PROVE  Path(m, l) \subseteq DOMAIN m
<1> CASE l \in DOMAIN m
  <2>1. m[l].up \subseteq Nat
    BY DEF Entry, Ids
  <2> QED BY <2>1 DEF Path
<1> CASE l \notin DOMAIN m
  BY DEF Path
<1> QED OBVIOUS

\* A text tells of messages of the session (CompactionEntry, BranchSummaryEntry).
LEMMA TellsIds ==
    ASSUME TreeOK, NEW S, S \subseteq DOMAIN mem
    PROVE  Tells(mem, S) \subseteq Ids
<1>1. DOMAIN mem \subseteq Ids
  BY ConstantsAssumption DEF TreeOK, Ids
<1>2. \A i \in S : mem[i].sum \subseteq Ids
  BY DEF TreeOK, Entry
<1> QED BY <1>1, <1>2 DEF Tells, Of

\* What _persist does to the file keeps its entries well formed.
LEMMA PersistTypes ==
    ASSUME TreeOK, NEW m, NEW e \in Nat, e = next + 1, e \in DOMAIN m,
           DOMAIN m \subseteq 1..e, \A i \in DOMAIN m : m[i] \in Entry,
           Persist(m, e)
    PROVE  /\ DOMAIN file' \subseteq 1..e /\ \A i \in DOMAIN file' : file'[i] \in Entry
           /\ flushed' \in BOOLEAN /\ torn' \in BOOLEAN
           /\ disk' \in {"none", "file", "bad"} /\ faults' \in Nat
<1>1. DOMAIN file \subseteq 1..e /\ \A i \in DOMAIN file : file[i] \in Entry
  BY DEF TreeOK
<1>2. \A x \in Entry : /\ DOMAIN Put(file, e, x) \subseteq 1..e
                       /\ \A i \in DOMAIN Put(file, e, x) : Put(file, e, x)[i] \in Entry
  <2> TAKE x \in Entry
  <2>1. /\ DOMAIN Put(file, e, x) = DOMAIN file \cup {e}
        /\ Put(file, e, x)[e] = x
        /\ \A i \in DOMAIN file : i # e => Put(file, e, x)[i] = file[i]
    BY DEF Put
  <2>2. e \in 1..e
    BY DEF TreeOK
  <2> QED BY <1>1, <2>1, <2>2
<1>3. CASE flushed /\ WriteLine(m, e)
  <2>1. m[e] \in Entry
    OBVIOUS
  <2> QED BY <1>1, <1>2, <1>3, <2>1 DEF WriteLine, TreeOK
<1>4. CASE flushed /\ TearLine
  BY <1>1, <1>4 DEF TearLine, Fault, TreeOK
<1>5. CASE ~flushed /\ WriteAll(m)
  <2>1. CASE disk = "none" /\ disk' = "file" /\ file' = m /\ flushed' = TRUE
             /\ UNCHANGED <<torn, faults>>
    BY <2>1 DEF TreeOK
  <2>2. ASSUME UNCHANGED file
        PROVE  DOMAIN file' \subseteq 1..e /\ \A j \in DOMAIN file' : file'[j] \in Entry
    BY <1>1, <2>2
  <2>3. ASSUME NEW i \in DOMAIN m,
               file' = [j \in {k \in DOMAIN m : k < i} |-> m[j]]
        PROVE  DOMAIN file' \subseteq 1..e /\ \A j \in DOMAIN file' : file'[j] \in Entry
    BY <2>3
  <2>4. CASE UNCHANGED store
    BY <1>1, <2>4 DEF store, TreeOK
  <2>5. CASE /\ disk = "none" /\ Fault /\ UNCHANGED flushed
             /\ \/ disk' = "bad" /\ UNCHANGED file
                \/ \E i \in DOMAIN m :
                      disk' = "file" /\ file' = [j \in {k \in DOMAIN m : k < i} |-> m[j]]
    <3>1. /\ DOMAIN file' \subseteq 1..e /\ \A j \in DOMAIN file' : file'[j] \in Entry
          /\ disk' \in {"bad", "file"}
      BY <2>2, <2>3, <2>5
    <3> QED BY <2>5, <3>1 DEF Fault, TreeOK
  <2> QED BY <1>5, <2>1, <2>4, <2>5 DEF WriteAll
<1>6. CASE UNCHANGED store
  BY <1>1, <1>6 DEF store, TreeOK
<1> QED BY <1>3, <1>4, <1>5, <1>6 DEF Persist

\* Every append keeps the tree well formed.
LEMMA AppendTypes ==
    ASSUME TreeOK, NEW p, NEW type \in Types, NEW ref \in 0..MaxEntries,
           NEW sum \in SUBSET Ids, AppendBelow(p, type, ref, sum)
    PROVE  TreeOK'
<1> DEFINE e == next + 1
           above == IF p \in DOMAIN mem THEN mem[p].up ELSE {}
           x == [type |-> type, up |-> above \cup {e}, ref |-> ref, sum |-> sum]
           m == Put(mem, e, x)
<1>1. /\ next < MaxEntries /\ next' = e /\ leaf' = e /\ mem' = m
      /\ UNCHANGED moves /\ Persist(m, e)
  BY DEF AppendBelow
<1>2. e \in Ids /\ e \in Nat /\ next \in Nat
  BY <1>1, ConstantsAssumption DEF TreeOK, Ids
<1>3. above \subseteq Ids
  BY DEF TreeOK, Entry
<1>4. x \in Entry
  BY <1>2, <1>3 DEF Entry
<1>5. DOMAIN m = DOMAIN mem \cup {e} /\ \A i \in DOMAIN m : m[i] \in Entry
  <2>1. /\ DOMAIN m = DOMAIN mem \cup {e} /\ m[e] = x
        /\ \A i \in DOMAIN mem : i # e => m[i] = mem[i]
    BY DEF Put
  <2> HIDE DEF x, m
  <2> QED BY <1>4, <2>1 DEF TreeOK
<1>6. DOMAIN m \subseteq 1..e /\ e \in DOMAIN m
  BY <1>2, <1>5 DEF TreeOK
<1> HIDE DEF m
<1>7. /\ DOMAIN file' \subseteq 1..e /\ \A i \in DOMAIN file' : file'[i] \in Entry
      /\ flushed' \in BOOLEAN /\ torn' \in BOOLEAN
      /\ disk' \in {"none", "file", "bad"} /\ faults' \in Nat
  BY <1>1, <1>2, <1>5, <1>6, PersistTypes
<1> QED BY <1>1, <1>2, <1>5, <1>6, <1>7, ConstantsAssumption DEF TreeOK, Ids

\* A step that only moves through the tree or works on a summary.
LEMMA SummaryTypes ==
    ASSUME TypeOK
    PROVE  /\ BeginCompaction => TypeOK'
           /\ SaveCompaction => TypeOK'
           /\ SaveTrip => TypeOK'
           /\ CancelSummary => TypeOK'
           /\ \A t \in Ids : Navigate(t) \/ BeginTrip(t) => TypeOK'
<1>1. next \in Nat /\ DOMAIN mem \subseteq 1..next /\ DOMAIN mem \subseteq Ids
  BY ConstantsAssumption DEF TypeOK, TreeOK, Ids
<1>2. \A l : Path(mem, l) \subseteq DOMAIN mem
  BY <1>1, PathInside DEF TypeOK, TreeOK
<1>3. BeginCompaction => TypeOK'
  <2> SUFFICES ASSUME BeginCompaction PROVE TypeOK'
    OBVIOUS
  <2> DEFINE P == Path(mem, leaf)
             R == Boundary(P)
  <2>1. PICK f \in R : job' = {CompactionOf(P, R, f)}
    BY DEF BeginCompaction, CutPoints, Oldest, Reach, Of
  <2>2. R \subseteq P /\ P \subseteq DOMAIN mem
    BY <1>2 DEF Boundary
  <2> HIDE DEF P, R
  <2>3. CompactionOf(P, R, f) \in [first : Ids, sum : SUBSET Ids, of : SUBSET Ids]
    <3> DEFINE prefix == {i \in Dropped(R, f) : \E t \in TurnStart(R, f) : i >= t}
               history == Dropped(R, f) \ prefix
               previous == IF history = {} THEN {} ELSE Compacted(mem, P)
               S == history \cup prefix \cup previous
    <3>1. S \subseteq DOMAIN mem
      BY <2>2 DEF Dropped, Compacted, Newest, Of
    <3> HIDE DEF S
    <3>2. Tells(mem, S) \subseteq Ids
      BY <3>1, TellsIds DEF TypeOK
    <3>3. CompactionOf(P, R, f) = [first |-> f, sum |-> Tells(mem, S), of |-> P]
      BY DEF CompactionOf, S
    <3> QED BY <1>1, <2>2, <3>2, <3>3
  <2>4. WorkOK'
    BY <2>1, <2>3 DEF BeginCompaction, TypeOK, WorkOK
  <2>5. TreeOK'
    BY DEF BeginCompaction, TypeOK, TreeOK, view, store
  <2> QED BY <2>4, <2>5 DEF TypeOK
<1>4. SaveCompaction => TypeOK'
  <2> SUFFICES ASSUME NEW c \in job, Append(Kind(c), c.first, c.sum),
                      job' = {}, UNCHANGED <<running, trip>>
               PROVE  TypeOK'
    BY DEF SaveCompaction
  <2>1. c.first \in 0..MaxEntries /\ c.sum \in SUBSET Ids
    BY ConstantsAssumption DEF TypeOK, WorkOK, Ids
  <2>2. Kind(c) \in Types
    BY DEF Kind, Types, Compaction
  <2>3. TreeOK'
    BY <2>1, <2>2, AppendTypes DEF Append, TypeOK
  <2> QED BY <2>3 DEF TypeOK, WorkOK
<1>5. SaveTrip => TypeOK'
  <2> SUFFICES ASSUME NEW b \in trip, NEW l, AppendBelow(l, "summary", 0, b.sum),
                      trip' = {}, UNCHANGED <<running, job>>
               PROVE  TypeOK'
    BY DEF SaveTrip
  <2>1. 0 \in 0..MaxEntries /\ b.sum \in SUBSET Ids
    BY ConstantsAssumption DEF TypeOK, WorkOK
  <2>2. TreeOK'
    BY <2>1, AppendTypes DEF TypeOK, Types
  <2> QED BY <2>2 DEF TypeOK, WorkOK
<1>6. CancelSummary => TypeOK'
  BY DEF CancelSummary, TypeOK, TreeOK, WorkOK, view, store
<1>7. ASSUME NEW t \in Ids, Navigate(t) PROVE TypeOK'
  <2>1. leaf' \in DOMAIN mem \cup {0}
    BY <1>7 DEF Navigate, MayNavigate, Landing
  <2> QED BY <1>7, <2>1 DEF Navigate, Move, TypeOK, TreeOK, WorkOK, store
<1>8. ASSUME NEW t \in Ids, BeginTrip(t) PROVE TypeOK'
  <2> DEFINE left == Path(mem, leaf) \ Path(mem, t)
             S == left \ Of(mem, left, {"tool"})
  <2>1. S \subseteq DOMAIN mem
    BY <1>2
  <2> HIDE DEF S
  <2>2. Tells(mem, S) \subseteq Ids
    BY <2>1, TellsIds DEF TypeOK
  <2>3. trip' = {[to |-> t, sum |-> Tells(mem, S)]}
    BY <1>8 DEF BeginTrip, S
  <2>4. WorkOK'
    <3>1. UNCHANGED <<running, job>>
      BY <1>8 DEF BeginTrip
    <3> QED BY <2>2, <2>3, <3>1 DEF TypeOK, WorkOK
  <2>5. TreeOK'
    BY <1>8 DEF BeginTrip, Move, TypeOK, TreeOK, view, store
  <2> QED BY <2>4, <2>5 DEF TypeOK
<1> QED BY <1>3, <1>4, <1>5, <1>6, <1>7, <1>8

\* A step of the conversation.
LEMMA TalkTypes == ASSUME TypeOK, Talk PROVE TypeOK'
<1>1. 0 \in 0..MaxEntries /\ {} \in SUBSET Ids
  BY ConstantsAssumption
<1>2. ASSUME NEW type \in Types, NEW ref \in 0..MaxEntries, Append(type, ref, {}),
             running' \in BOOLEAN, UNCHANGED <<job, trip>>
      PROVE  TypeOK'
  <2>1. TreeOK'
    BY <1>1, <1>2, AppendTypes DEF Append, TypeOK
  <2> QED BY <1>2, <2>1 DEF TypeOK, WorkOK
<1>3. Prompt \/ Note \/ ToolResult => TypeOK'
  BY <1>1, <1>2 DEF Prompt, Note, ToolResult, Types, Spoken, TypeOK, WorkOK
<1>4. ASSUME NEW type \in {"call", "answer"}, Reply(type) PROVE TypeOK'
  BY <1>1, <1>2, <1>4 DEF Reply, Types, Spoken, TypeOK, WorkOK
<1>5. ASSUME NEW type \in Meta, NEW t, Mark(type, t) PROVE TypeOK'
  <2>1. t \in 0..MaxEntries
    BY <1>1, <1>5, ConstantsAssumption DEF Mark, TypeOK, TreeOK
  <2> QED BY <1>2, <1>5, <2>1 DEF Mark, Types, TypeOK, WorkOK
<1>6. RunEnds => TypeOK'
  BY DEF RunEnds, TypeOK, TreeOK, WorkOK, view, store
<1> QED BY <1>3, <1>4, <1>5, <1>6 DEF Talk

\* Another session takes the place of the one at hand.
LEMMA SessionTypes == ASSUME TypeOK, Sessions PROVE TypeOK'
<1>1. NoWork => WorkOK'
  BY DEF NoWork, WorkOK
<1>2. next \in Nat
  BY DEF TypeOK, TreeOK
<1>3. ASSUME NewSession PROVE TypeOK'
  <2>1. /\ flushed' \in BOOLEAN /\ torn' \in BOOLEAN
        /\ disk' \in {"none", "file", "bad"} /\ NoWork
    BY <1>3 DEF NewSession
  <2>2. /\ mem' = Empty /\ file' = Empty /\ next' \in 0..MaxEntries /\ leaf' = 0
        /\ faults' = faults /\ moves' = moves
    BY <1>3, ConstantsAssumption DEF NewSession
  <2> QED BY <1>1, <2>1, <2>2, NoEntries DEF TypeOK, TreeOK
<1>4. ASSUME Reopen \/ ForkFrom PROVE TypeOK'
  <2>1. flushed' \in BOOLEAN /\ torn' \in BOOLEAN
    BY <1>4 DEF Reopen, ForkFrom, TypeOK, TreeOK
  <2>2. /\ mem' = file /\ file' = file /\ next' = next /\ faults' = faults
        /\ disk' = disk /\ NoWork
    BY <1>4 DEF Reopen, ForkFrom
  <2>3. moves' \in Nat /\ leaf' \in DOMAIN file \cup {0}
    BY <1>4 DEF Reopen, ForkFrom, Newest, Move, TypeOK, TreeOK
  <2>4. TreeOK'
    BY <2>1, <2>2, <2>3 DEF TypeOK, TreeOK
  <2> QED BY <1>1, <2>2, <2>4 DEF TypeOK
<1>5. ASSUME NEW l \in Ids, Fork(l) PROVE TypeOK'
  <2> DEFINE keep == Branched(l)
             L == Marks(keep)
             end == next + Cardinality(L)
             Session(to) ==
               [i \in keep \cup ((next + 1)..end) |->
                   IF i \in keep THEN [file[i] EXCEPT !.up = @ \cap keep]
                   ELSE [type |-> "label", up |-> keep \cup ((next + 1)..i),
                         ref |-> to[i], sum |-> {}]]
  <2>1. keep \subseteq DOMAIN file /\ keep \subseteq 1..next
    BY PathInside DEF Branched, TypeOK, TreeOK
  <2>2. L \subseteq keep
    BY DEF Marks
  <2>3. Cardinality(L) \in Nat
    BY <1>2, <2>1, <2>2, CountedIds
  <2>4. PICK to \in [(next + 1)..end -> L] : mem' = Session(to)
    BY <1>5 DEF Fork
  <2>5. end <= MaxEntries /\ next' = end /\ moves' \in Nat /\ NoWork
    BY <1>5 DEF Fork, Move, TypeOK, TreeOK
  <2> HIDE DEF keep, L
  <2>6. DOMAIN mem' \subseteq 1..end
    BY <1>2, <2>1, <2>3, <2>4
  <2>7. ASSUME NEW i \in DOMAIN mem' PROVE mem'[i] \in Entry
    <3>1. CASE i \in keep
      <4>1. file[i] \in Entry /\ mem'[i] = [file[i] EXCEPT !.up = @ \cap keep]
        BY <2>1, <2>4, <3>1 DEF TypeOK, TreeOK
      <4> QED BY <4>1 DEF Entry
    <3>2. CASE i \notin keep
      <4>1. i \in (next + 1)..end
        BY <2>4, <2>7, <3>2
      <4>2. /\ mem'[i] = [type |-> "label", up |-> keep \cup ((next + 1)..i),
                         ref |-> to[i], sum |-> {}]
            /\ to[i] \in 0..MaxEntries
        BY <1>2, <2>1, <2>2, <2>3, <2>4, <2>5, <3>2, <4>1, ConstantsAssumption
      <4>3. keep \cup ((next + 1)..i) \subseteq Ids
        BY <1>2, <2>1, <2>3, <2>5, <4>1, ConstantsAssumption DEF Ids
      <4> QED BY <4>2, <4>3 DEF Entry, Types, Meta
    <3> QED BY <3>1, <3>2
  <2>8. leaf' \in DOMAIN mem' \cup {0}
    BY <1>5 DEF Fork, Newest
  <2>9. /\ DOMAIN file' \subseteq 1..end /\ \A i \in DOMAIN file' : file'[i] \in Entry
        /\ disk' \in {"none", "file", "bad"} /\ flushed' \in BOOLEAN
        /\ torn' = FALSE /\ faults' = faults
    <3>1. CASE disk' = "file" /\ file' = mem' /\ flushed' = TRUE
      BY <1>5, <2>6, <2>7, <3>1 DEF Fork
    <3>2. CASE disk' = "none" /\ file' = Empty /\ flushed' = FALSE
      BY <1>5, <3>2, NoEntries DEF Fork
    <3> QED BY <1>5, <3>1, <3>2 DEF Fork
  <2>10. TreeOK'
    <3> HIDE DEF end
    <3>1. end \in 0..MaxEntries
      BY <1>2, <2>3, <2>5, ConstantsAssumption DEF end
    <3> QED BY <2>5, <2>6, <2>7, <2>8, <2>9, <3>1 DEF TypeOK, TreeOK
  <2> QED BY <1>1, <2>5, <2>10 DEF TypeOK
<1> QED BY <1>3, <1>4, <1>5 DEF Sessions

\* Every entry, written by whichever operation, is well formed, the leaf is an
\* entry of the session or null (leafId), and so are the entries of the file.
THEOREM TypeCorrect == Spec => []TypeOK
<1>1. Init => TypeOK
  <2>1. Init => WorkOK
    BY DEF Init, WorkOK
  <2>2. Init => mem = Empty /\ file = Empty /\ next \in 0..MaxEntries /\ leaf = 0
                /\ faults \in Nat /\ moves \in Nat
    BY ConstantsAssumption DEF Init
  <2>3. Init => /\ flushed \in BOOLEAN /\ torn \in BOOLEAN
                /\ disk \in {"none", "file", "bad"}
    BY DEF Init
  <2> QED BY <2>1, <2>2, <2>3, NoEntries DEF TypeOK, TreeOK
<1>2. TypeOK /\ Summaries => TypeOK'
  BY SummaryTypes DEF Summaries
<1>3. TypeOK /\ UNCHANGED vars => TypeOK'
  BY DEF TypeOK, TreeOK, WorkOK, vars, view, store
<1>4. TypeOK /\ [Next]_vars => TypeOK'
  BY <1>2, <1>3, TalkTypes, SessionTypes DEF Next
<1> QED BY <1>1, <1>4, PTL DEF Spec

---------------------------------------------------------------------------
(* The file is the memory                                                   *)

\* What a step of _persist does to the invariant, entry e being the new one.
LEMMA PersistSaves ==
    ASSUME TypeOK, SavedInv, NEW x, NEW e, e = next + 1,
           mem' = Put(mem, e, x), Persist(mem', e)
    PROVE  SavedInv'
<1>1. /\ e \notin DOMAIN mem /\ e \notin DOMAIN file
      /\ faults \in Nat /\ next \in Nat /\ DOMAIN mem \subseteq 1..next
  BY ConstantsAssumption DEF TypeOK, TreeOK
<1>2. /\ DOMAIN mem' = DOMAIN mem \cup {e}
      /\ \A i \in DOMAIN mem : mem'[i] = mem[i] /\ i \in Nat /\ i < e
      /\ DOMAIN file \subseteq DOMAIN mem
  BY <1>1 DEF Put, SavedInv
<1>3. IsFiniteSet(Lost) /\ Cardinality(Lost) \in Nat
  BY <1>1, CountedIds DEF Lost
<1>4. e \notin Lost /\ Cardinality(Lost \cup {e}) = Cardinality(Lost) + 1
  BY <1>1, <1>3, FS_AddElement DEF Lost
<1>5. CASE flushed /\ ~torn /\ WriteLine(mem', e)
  <2>1. /\ DOMAIN file' = DOMAIN file \cup {e} /\ file'[e] = mem'[e]
        /\ \A i \in DOMAIN file : file'[i] = file[i]
        /\ torn' = FALSE /\ faults' = faults /\ disk' = disk
    BY <1>1, <1>5 DEF WriteLine, Put
  <2>2. Lost' = Lost
    BY <1>1, <1>2, <2>1 DEF Lost
  <2>3. flushed' = flushed
    BY <1>5 DEF WriteLine
  <2> QED BY <1>2, <1>5, <2>1, <2>2, <2>3 DEF SavedInv
<1>6. CASE flushed /\ torn /\ WriteLine(mem', e)
  <2>1. file' = file /\ torn' = FALSE /\ faults' = faults /\ disk' = disk
    BY <1>6 DEF WriteLine
  <2>2. flushed' = flushed
    BY <1>6 DEF WriteLine
  <2>3. Lost' = Lost \cup {e}
    BY <1>1, <1>2, <2>1 DEF Lost
  <2> QED BY <1>2, <1>3, <1>4, <1>6, <2>1, <2>2, <2>3 DEF SavedInv
<1>7. CASE flushed /\ TearLine
  <2>1. file' = file /\ torn' = TRUE /\ faults' = faults + 1 /\ disk' = disk
    BY <1>7 DEF TearLine, Fault
  <2>2. flushed' = flushed
    BY <1>7 DEF TearLine
  <2>3. Lost' = Lost \cup {e}
    BY <1>1, <1>2, <2>1 DEF Lost
  <2> QED BY <1>1, <1>2, <1>3, <1>4, <1>7, <2>1, <2>2, <2>3 DEF SavedInv
<1>8. CASE ~flushed /\ WriteAll(mem')
  <2>1. CASE disk = "none" /\ disk' = "file" /\ file' = mem' /\ flushed' = TRUE
             /\ UNCHANGED <<torn, faults>>
    <3>1. Lost' = {} /\ torn' = torn /\ faults' = faults
      BY <2>1 DEF Lost
    <3> QED BY <1>1, <2>1, <3>1, FS_EmptySet DEF SavedInv
  <2>2. CASE disk = "none" /\ Fault /\ flushed' = flushed /\ disk' = "bad" /\ file' = file
    <3>1. DOMAIN file' = {} /\ Lost' = DOMAIN mem' /\ e \in Lost'
      BY <1>2, <2>2 DEF SavedInv, Lost
    <3> QED BY <1>1, <1>8, <2>2, <3>1 DEF SavedInv, Fault, Beginning
  <2>3. ASSUME disk = "none", Fault, flushed' = flushed, NEW i \in DOMAIN mem',
               disk' = "file", file' = [j \in {k \in DOMAIN mem' : k < i} |-> mem'[j]]
        PROVE  SavedInv'
    <3>1. DOMAIN file' = {k \in DOMAIN mem' : k < i} /\ DOMAIN mem' \subseteq Nat
      BY <1>1, <1>2, <2>3
    <3>2. Lost' = {k \in DOMAIN mem' : ~(k < i)} /\ i \in Lost'
      BY <2>3, <3>1 DEF Lost
    <3>3. Beginning'
      BY <3>1, <3>2 DEF Beginning
    <3> QED BY <1>1, <1>8, <2>3, <3>1, <3>3 DEF SavedInv, Fault
  <2>4. CASE disk # "none" /\ UNCHANGED store
    <3>1. /\ disk' = disk /\ flushed' = flushed /\ torn' = torn /\ faults' = faults
          /\ file' = file
      BY <2>4 DEF store
    <3>2. Lost' = Lost \cup {e}
      BY <1>1, <1>2, <3>1 DEF Lost
    <3>3. Beginning'
      BY <1>2, <1>8, <2>4, <3>1, <3>2 DEF SavedInv, Beginning
    <3> QED BY <1>2, <1>8, <2>4, <3>1, <3>3 DEF SavedInv
  <2> QED BY <1>8, <2>1, <2>2, <2>3, <2>4 DEF WriteAll
<1>9. CASE ~flushed /\ ~HasAssistant(mem') /\ UNCHANGED store
  <2>1. /\ disk' = disk /\ flushed' = flushed /\ torn' = torn /\ faults' = faults
        /\ file' = file
    BY <1>9 DEF store
  <2>2. Lost' = Lost \cup {e}
    BY <1>1, <1>2, <2>1 DEF Lost
  <2>3. disk # "none" => Beginning'
    BY <1>2, <1>9, <2>1, <2>2 DEF SavedInv, Beginning
  <2> QED BY <1>2, <1>9, <2>1, <2>3 DEF SavedInv
<1> QED BY <1>5, <1>6, <1>7, <1>8, <1>9 DEF Persist

\* Nothing else touches the memory or the file of a session.
LEMMA IdleSaves == ASSUME SavedInv, UNCHANGED <<mem, store>> PROVE SavedInv'
<1>1. /\ mem' = mem /\ file' = file /\ disk' = disk /\ flushed' = flushed
      /\ torn' = torn /\ faults' = faults
  BY DEF store
<1> QED BY <1>1 DEF SavedInv, Beginning, Lost, HasAssistant, Of

\* A session that is opened, copied or forked starts with what its file holds.
LEMMA SessionSaves == ASSUME TypeOK, SavedInv, Sessions PROVE SavedInv'
<1>1. faults \in Nat
  BY DEF TypeOK, TreeOK
<1>2. ASSUME mem' = file', flushed' = TRUE, disk' = "file", faults' = faults,
             torn' => torn
      PROVE  SavedInv'
  <2>1. Lost' = {}
    BY <1>2 DEF Lost
  <2> QED BY <1>1, <1>2, <2>1, FS_EmptySet DEF SavedInv
<1>3. ASSUME disk' = "none", flushed' = FALSE, torn' = FALSE, file' = Empty,
             ~HasAssistant(mem')
      PROVE  SavedInv'
  BY <1>3, NoEntries DEF SavedInv
<1>4. NewSession => SavedInv'
  <2>1. NewSession => ~HasAssistant(mem')
    BY NoEntries DEF NewSession, HasAssistant, Of
  <2> QED BY <1>3, <2>1 DEF NewSession
<1>5. Reopen \/ ForkFrom => SavedInv'
  <2>1. ASSUME Reopen PROVE SavedInv'
    <3>1. torn' = torn
      BY <2>1 DEF Reopen
    <3> QED BY <1>2, <2>1, <3>1 DEF Reopen
  <2>2. ASSUME ForkFrom PROVE SavedInv'
    BY <1>2, <2>2 DEF ForkFrom
  <2> QED BY <2>1, <2>2
<1>6. ASSUME NEW l \in Ids, Fork(l) PROVE SavedInv'
  <2>1. CASE HasAssistant(mem')
    BY <1>2, <1>6, <2>1 DEF Fork
  <2>2. CASE ~HasAssistant(mem')
    BY <1>3, <1>6, <2>2 DEF Fork
  <2> QED BY <2>1, <2>2
<1> QED BY <1>4, <1>5, <1>6 DEF Sessions

\* The invariant of the file, of every behaviour.
LEMMA SavedHolds == Spec => []SavedInv
<1>1. Init => SavedInv
  BY NoEntries DEF Init, SavedInv, HasAssistant, Of
<1>2. ASSUME TypeOK, SavedInv, NEW p, NEW type, NEW ref, NEW sum,
             AppendBelow(p, type, ref, sum)
      PROVE  SavedInv'
  <2>1. PICK x : mem' = Put(mem, next + 1, x) /\ Persist(mem', next + 1)
    BY <1>2 DEF AppendBelow
  <2> QED BY <1>2, <2>1, PersistSaves
<1>3. TypeOK /\ SavedInv /\ Talk => SavedInv'
  <2> SUFFICES ASSUME TypeOK, SavedInv, Talk PROVE SavedInv'
    OBVIOUS
  <2>1. CASE RunEnds
    BY <2>1, IdleSaves DEF RunEnds, view
  <2>2. CASE \E p, type, ref, sum : AppendBelow(p, type, ref, sum)
    BY <1>2, <2>2
  <2> QED BY <2>1, <2>2 DEF Talk, Prompt, Note, Reply, ToolResult, Mark, Append
<1>4. TypeOK /\ SavedInv /\ Summaries => SavedInv'
  <2> SUFFICES ASSUME TypeOK, SavedInv, Summaries PROVE SavedInv'
    OBVIOUS
  <2>1. CASE UNCHANGED <<mem, store>>
    BY <2>1, IdleSaves
  <2>2. CASE \E p, type, ref, sum : AppendBelow(p, type, ref, sum)
    BY <1>2, <2>2
  <2>3. BeginCompaction \/ CancelSummary => UNCHANGED <<mem, store>>
    BY DEF BeginCompaction, CancelSummary, view
  <2>4. \A t \in Ids : Navigate(t) \/ BeginTrip(t) => UNCHANGED <<mem, store>>
    BY DEF Navigate, BeginTrip, view
  <2>5. SaveCompaction \/ SaveTrip => \E p, type, ref, sum : AppendBelow(p, type, ref, sum)
    BY DEF SaveCompaction, SaveTrip, Append
  <2> QED BY <2>1, <2>2, <2>3, <2>4, <2>5 DEF Summaries
<1>5. TypeOK /\ SavedInv /\ [Next]_vars => SavedInv'
  BY <1>3, <1>4, SessionSaves, IdleSaves DEF Next, vars, view
<1> QED BY <1>1, <1>5, TypeCorrect, PTL DEF Spec

\* However many writes fail, what can be read of the file is what the process
\* holds.  A write that fails after the first costs at most two lines; a first
\* write that fails costs everything from some entry on, and nothing else
\* leaves a reply of the agent only in memory (_persist, _setSessionFile).
THEOREM SavedCorrect == Spec => []SavedExceptFailed
<1>1. TypeOK /\ SavedInv => SavedExceptFailed
  <2> SUFFICES ASSUME TypeOK, SavedInv PROVE SavedExceptFailed
    OBVIOUS
  <2>1. next \in Nat /\ faults \in Nat /\ Lost \subseteq 1..next
    BY DEF TypeOK, TreeOK, Lost
  <2>2. Cardinality(Lost) \in Nat
    BY <2>1, CountedIds
  <2> QED BY <2>1, <2>2 DEF SavedInv, Beginning, SavedExceptFailed
<1> QED BY <1>1, TypeCorrect, SavedHolds, PTL

---------------------------------------------------------------------------
(* The shape of the tree                                                    *)

\* The parent ids chain: an entry that is there ends the same path wherever it
\* is met, and every entry is younger than those above it.
Chained(m) ==
    \A i \in DOMAIN m :
        /\ i \in m[i].up
        /\ \A j \in m[i].up : j <= i
        /\ \A j \in m[i].up \cap DOMAIN m : m[j].up = {k \in m[i].up : k <= j}

Typed(m) == DOMAIN m \subseteq Nat /\ \A i \in DOMAIN m : m[i] \in Entry

\* What a load gives when some lines of m cannot be read.
PartOf(f, m) == \A i \in DOMAIN f : i \in DOMAIN m /\ f[i] = m[i]

\* m is g after an append of x, as entry e, below p.
Grown(m, g, p, e, x) ==
    /\ e \in Nat /\ \A i \in DOMAIN g : i < e
    /\ DOMAIN m = DOMAIN g \cup {e} /\ m[e] = x
    /\ \A i \in DOMAIN g : m[i] = g[i]
    /\ x.up = (IF p \in DOMAIN g THEN g[p].up ELSE {}) \cup {e}

\* m is what createBranchedSession makes of the path to l in f, its entries
\* after n the labels of to.
Forked(m, f, keep, n, end, to) ==
    /\ n \in Nat /\ end \in Nat /\ keep \subseteq DOMAIN f /\ keep \subseteq 1..n
    /\ DOMAIN m = keep \cup ((n + 1)..end)
    /\ \A i \in keep : /\ m[i].type = f[i].type /\ m[i].up = f[i].up \cap keep
                       /\ m[i].ref = f[i].ref /\ m[i].sum = f[i].sum
    /\ \A i \in (n + 1)..end :
          /\ m[i].type = "label" /\ m[i].up = keep \cup ((n + 1)..i)
          /\ m[i].ref = to[i]

LEMMA UpNat == ASSUME NEW m, Typed(m), NEW i \in DOMAIN m
               PROVE  m[i].up \subseteq Nat /\ m[i].ref \in Nat /\ m[i].type \in Types
  BY ConstantsAssumption DEF Typed, Entry, Ids

\* The path to an entry of a path is the beginning of that path.
LEMMA PathUp ==
    ASSUME NEW m, Typed(m), Chained(m), NEW l
    PROVE  /\ Path(m, l) \subseteq DOMAIN m
           /\ l \in DOMAIN m => l \in Path(m, l)
           /\ \A k \in Path(m, l) :
                 /\ l \in DOMAIN m /\ k \in m[l].up /\ k <= l
                 /\ m[k].up = {j \in m[l].up : j <= k}
                 /\ Path(m, k) = {j \in Path(m, l) : j <= k}
<1> SUFFICES ASSUME l \in DOMAIN m
             PROVE  /\ Path(m, l) \subseteq DOMAIN m /\ l \in Path(m, l)
                    /\ \A k \in Path(m, l) :
                          /\ k \in m[l].up /\ k <= l
                          /\ m[k].up = {j \in m[l].up : j <= k}
                          /\ Path(m, k) = {j \in Path(m, l) : j <= k}
  BY DEF Path
<1>1. Path(m, l) = {i \in m[l].up : \A j \in m[l].up : j >= i => j \in DOMAIN m}
  BY DEF Path
<1>2. m[l].up \subseteq Nat /\ l \in Nat /\ l \in m[l].up /\ \A j \in m[l].up : j <= l
  BY UpNat DEF Chained, Typed
<1>3. \A k \in Path(m, l) : k \in DOMAIN m
  BY <1>1, <1>2
<1>4. l \in Path(m, l)
  BY <1>1, <1>2
<1>5. ASSUME NEW k \in Path(m, l)
      PROVE  /\ k \in m[l].up /\ k <= l
             /\ m[k].up = {j \in m[l].up : j <= k}
             /\ Path(m, k) = {j \in Path(m, l) : j <= k}
  <2>1. k \in m[l].up /\ k <= l /\ k \in DOMAIN m /\ k \in Nat
    BY <1>1, <1>2, <1>3
  <2>2. m[k].up = {j \in m[l].up : j <= k}
    BY <2>1 DEF Chained
  <2>3. Path(m, k) = {i \in m[k].up : \A j \in m[k].up : j >= i => j \in DOMAIN m}
    BY <2>1 DEF Path
  <2>4. \A j \in m[l].up : j >= k => j \in DOMAIN m
    BY <1>1
  <2>5. \A i \in m[k].up : (\A j \in m[k].up : j >= i => j \in DOMAIN m)
                      <=> (\A j \in m[l].up : j >= i => j \in DOMAIN m)
    BY <1>2, <2>1, <2>2, <2>4
  <2> QED BY <1>1, <2>1, <2>2, <2>3, <2>5
<1> QED BY <1>3, <1>4, <1>5

\* With lines missing, the end of each path that is still reached is the same.
LEMMA PathOfPart ==
    ASSUME NEW m, Typed(m), NEW f, PartOf(f, m), NEW l \in DOMAIN f
    PROVE  /\ Path(f, l) \subseteq Path(m, l)
           /\ \A i \in Path(f, l) : \A j \in Path(m, l) : j >= i => j \in Path(f, l)
<1>1. /\ Path(f, l) = {i \in m[l].up : \A j \in m[l].up : j >= i => j \in DOMAIN f}
      /\ Path(m, l) = {i \in m[l].up : \A j \in m[l].up : j >= i => j \in DOMAIN m}
  BY DEF Path, PartOf
<1>2. DOMAIN f \subseteq DOMAIN m /\ m[l].up \subseteq Nat
  BY UpNat DEF PartOf
<1> QED BY <1>1, <1>2

\* The path of a fork is the whole fork up to its end.
LEMMA PathOfFork ==
    ASSUME NEW m, NEW f, NEW l, NEW keep, NEW n, NEW end, NEW to,
           Typed(m), Typed(f), Chained(f), Forked(m, f, keep, n, end, to),
           keep \subseteq Path(f, l), NEW c \in DOMAIN m
    PROVE  m[c].up = {i \in DOMAIN m : i <= c} /\ Path(m, c) = {i \in DOMAIN m : i <= c}
<1>1. n \in Nat /\ end \in Nat /\ keep \subseteq 1..n /\ c \in Nat
  BY DEF Forked, Typed
<1>2. m[c].up = {i \in DOMAIN m : i <= c}
  <2>1. CASE c \in keep
    <3>1. m[c].up = f[c].up \cap keep /\ f[c].up = {j \in f[l].up : j <= c}
      BY <2>1, PathUp DEF Forked
    <3>2. keep \subseteq f[l].up
      BY PathUp
    <3> QED BY <1>1, <2>1, <3>1, <3>2 DEF Forked
  <2>2. CASE c \in (n + 1)..end
    BY <1>1, <2>2 DEF Forked
  <2> QED BY <2>1, <2>2 DEF Forked
<1> QED BY <1>2 DEF Path

LEMMA ChainedPart ==
    ASSUME NEW m, Chained(m), NEW f, PartOf(f, m) PROVE Chained(f)
  BY DEF Chained, PartOf

LEMMA ChainedFork ==
    ASSUME NEW m, NEW f, NEW l, NEW keep, NEW n, NEW end, NEW to,
           Typed(m), Typed(f), Chained(f), Forked(m, f, keep, n, end, to),
           keep \subseteq Path(f, l)
    PROVE  Chained(m)
<1>1. DOMAIN m \subseteq Nat
  BY DEF Typed
<1>2. \A c \in DOMAIN m : m[c].up = {i \in DOMAIN m : i <= c}
  BY PathOfFork
<1> QED BY <1>1, <1>2 DEF Chained

\* An append leaves every path as it was and prolongs the one it is below.
LEMMA GrownPaths ==
    ASSUME NEW m, NEW g, NEW p, NEW e, NEW x,
           Typed(g), Chained(g), Grown(m, g, p, e, x)
    PROVE  /\ Chained(m)
           /\ Path(m, e) = Path(g, p) \cup {e} /\ e \notin Path(g, p)
           /\ \A l \in DOMAIN g : Path(m, l) = Path(g, l)
<1> DEFINE above == IF p \in DOMAIN g THEN g[p].up ELSE {}
<1>1. above \subseteq Nat /\ \A j \in above : j < e
  <2>1. CASE p \in DOMAIN g
    <3>1. g[p].up \subseteq Nat /\ p \in Nat /\ p < e /\ \A j \in g[p].up : j <= p
      BY <2>1, UpNat DEF Chained, Typed, Grown
    <3> QED BY <2>1, <3>1 DEF Grown
  <2> QED BY <2>1
<1>2. \A i \in DOMAIN g : /\ g[i].up \subseteq Nat /\ i \in Nat /\ i < e /\ m[i] = g[i]
                          /\ i \in g[i].up
                          /\ \A j \in g[i].up : j <= i
  BY UpNat DEF Chained, Typed, Grown
<1>3. \A i \in DOMAIN g : \A j \in g[i].up : j # e
  BY <1>2 DEF Grown
<1>4. /\ e \in Nat /\ e \notin DOMAIN g /\ DOMAIN m = DOMAIN g \cup {e}
      /\ m[e].up = above \cup {e} /\ e \notin above
  BY <1>1 DEF Grown, Typed
<1>5. \A l \in DOMAIN g : Path(m, l) = Path(g, l)
  BY <1>2, <1>3, <1>4 DEF Path
<1>6. Path(g, p) = {i \in above : \A j \in above : j >= i => j \in DOMAIN g}
  BY DEF Path
<1>7. Path(m, e) = Path(g, p) \cup {e}
  <2>1. Path(m, e) = {i \in above \cup {e} : \A j \in above \cup {e} :
                         j >= i => j \in DOMAIN g \cup {e}}
    BY <1>4 DEF Path
  <2> HIDE DEF above
  <2> QED BY <1>1, <1>4, <1>6, <2>1
<1>8. Chained(m)
  <2>1. ASSUME NEW j \in above \cap DOMAIN g
        PROVE  m[j].up = {k \in above \cup {e} : k <= j}
    <3>1. m[j].up = {k \in above : k <= j}
      BY <1>2, <2>1 DEF Chained
    <3> HIDE DEF above
    <3> QED BY <1>1, <1>4, <2>1, <3>1
  <2>2. /\ e \in m[e].up /\ \A j \in m[e].up : j <= e
        /\ \A j \in m[e].up \cap DOMAIN m : m[j].up = {k \in m[e].up : k <= j}
    <3> HIDE DEF above
    <3>1. m[e].up = above \cup {e} /\ \A j \in above \cup {e} : j \in Nat /\ j <= e
      BY <1>1, <1>4
    <3>2. m[e].up = {k \in m[e].up : k <= e}
      BY <3>1
    <3>3. ASSUME NEW j \in m[e].up \cap DOMAIN m
          PROVE  m[j].up = {k \in m[e].up : k <= j}
      <4>1. CASE j = e
        BY <3>2, <4>1
      <4>2. CASE j # e
        <5>1. j \in above \cap DOMAIN g
          BY <1>4, <3>1, <4>2
        <5> QED BY <2>1, <3>1, <5>1
      <4> QED BY <4>1, <4>2
    <3> QED BY <3>1, <3>3
  <2>3. ASSUME NEW i \in DOMAIN g
        PROVE  /\ i \in m[i].up /\ \A j \in m[i].up : j <= i
               /\ \A j \in m[i].up \cap DOMAIN m : m[j].up = {k \in m[i].up : k <= j}
    BY <1>2, <1>3, <1>4 DEF Chained
  <2> QED BY <1>4, <2>2, <2>3 DEF Chained
<1> HIDE DEF above
<1> QED BY <1>4, <1>5, <1>6, <1>7, <1>8

---------------------------------------------------------------------------
(* The shapes of the steps                                                  *)

\* An append, whatever becomes of its write.
LEMMA AppendShape ==
    ASSUME TypeOK, NEW p, NEW type, NEW ref, NEW sum, AppendBelow(p, type, ref, sum)
    PROVE  /\ leaf' = next + 1 /\ next' = next + 1
           /\ \E x : /\ x.type = type /\ x.ref = ref /\ x.sum = sum
                     /\ Grown(mem', mem, p, next + 1, x)
<1> DEFINE e == next + 1
           above == IF p \in DOMAIN mem THEN mem[p].up ELSE {}
           x == [type |-> type, up |-> above \cup {e}, ref |-> ref, sum |-> sum]
<1>1. leaf' = e /\ next' = e /\ mem' = Put(mem, e, x)
  BY DEF AppendBelow
<1>2. e \in Nat /\ e \notin DOMAIN mem /\ \A i \in DOMAIN mem : i < e
  BY DEF TypeOK, TreeOK
<1>3. x.type = type /\ x.ref = ref /\ x.sum = sum /\ x.up = above \cup {e}
  OBVIOUS
<1>4. Grown(mem', mem, p, e, x)
  <2> HIDE DEF x
  <2> QED BY <1>1, <1>2, <1>3 DEF Grown, Put
<1> HIDE DEF x
<1> QED BY <1>1, <1>3, <1>4

\* What can be read of the file after an append is part of the memory.
LEMMA FileShape ==
    ASSUME TypeOK, SavedInv, NEW p, NEW type, NEW ref, NEW sum,
           AppendBelow(p, type, ref, sum)
    PROVE  PartOf(file', mem')
<1> DEFINE e == next + 1
<1>1. PICK x : mem' = Put(mem, e, x) /\ Persist(mem', e)
  BY DEF AppendBelow
<1>2. SavedInv'
  BY <1>1, PersistSaves
<1> QED BY <1>2 DEF SavedInv, PartOf

\* A fork: the path without its marks, and one label for each that is labelled.
LEMMA ForkShape ==
    ASSUME TypeOK, NEW l, Fork(l)
    PROVE  /\ Branched(l) \subseteq Path(file, l)
           /\ \A i \in Branched(l) : file[i].type \notin {"label", "unlabel"}
           /\ next' = next + Cardinality(Labelled(file) \cap Branched(l))
           /\ file' = mem' \/ file' = Empty
           /\ mem' # Empty => leaf' \in Newest(DOMAIN mem')
           /\ \E to \in [(next + 1)..next' -> Labelled(file) \cap Branched(l)] :
                 /\ \A i, j \in (next + 1)..next' : i < j => to[i] < to[j]
                 /\ Forked(mem', file, Branched(l), next, next', to)
<1> DEFINE keep == Branched(l)
           L == Marks(keep)
           end == next + Cardinality(L)
           Session(to) ==
             [i \in keep \cup ((next + 1)..end) |->
                 IF i \in keep THEN [file[i] EXCEPT !.up = @ \cap keep]
                 ELSE [type |-> "label", up |-> keep \cup ((next + 1)..i),
                       ref |-> to[i], sum |-> {}]]
<1>1. /\ keep \subseteq Path(file, l) /\ keep \subseteq DOMAIN file
      /\ keep \subseteq 1..next /\ next \in Nat
      /\ \A i \in keep : file[i].type \notin {"label", "unlabel"}
  <2>1. next \in Nat /\ Path(file, l) \subseteq DOMAIN file
    BY PathInside DEF TypeOK, TreeOK
  <2>2. keep \subseteq Path(file, l)
    BY DEF Branched
  <2>3. \A i \in keep : file[i].type \notin {"label", "unlabel"}
    BY DEF Branched, Of
  <2> QED BY <2>1, <2>2, <2>3 DEF TypeOK, TreeOK
<1>2. L = Labelled(file) \cap keep /\ Cardinality(L) \in Nat
  BY <1>1, CountedIds DEF Marks
<1>3. /\ next' = end
      /\ file' = mem' \/ file' = Empty
      /\ mem' # Empty => leaf' \in Newest(DOMAIN mem')
  BY DEF Fork
<1>4. PICK to \in [(next + 1)..end -> L] :
         /\ \A i, j \in (next + 1)..end : i < j => to[i] < to[j]
         /\ mem' = Session(to)
  BY DEF Fork
<1>5. Forked(mem', file, keep, next, end, to)
  <2>1. end \in Nat
    BY <1>1, <1>2
  <2> HIDE DEF keep, L, end
  <2>2. DOMAIN mem' = keep \cup ((next + 1)..end)
    BY <1>4
  <2>3. ASSUME NEW i \in keep
        PROVE  /\ mem'[i].type = file[i].type /\ mem'[i].up = file[i].up \cap keep
               /\ mem'[i].ref = file[i].ref /\ mem'[i].sum = file[i].sum
    <3>1. file[i] \in Entry /\ mem'[i] = [file[i] EXCEPT !.up = @ \cap keep]
      BY <1>1, <1>4, <2>3 DEF TypeOK, TreeOK
    <3> QED BY <3>1 DEF Entry
  <2>4. ASSUME NEW i \in (next + 1)..end
        PROVE  /\ mem'[i].type = "label" /\ mem'[i].up = keep \cup ((next + 1)..i)
               /\ mem'[i].ref = to[i]
    <3>1. i \notin keep
      BY <1>1, <2>1, <2>4
    <3> QED BY <1>4, <2>4, <3>1
  <2> QED BY <1>1, <2>1, <2>2, <2>3, <2>4 DEF Forked
<1>7. L = Labelled(file) \cap Branched(l) /\ next' = end /\ keep = Branched(l)
  BY <1>2, <1>3
<1> HIDE DEF keep, L, end
<1>8. end = next + Cardinality(Labelled(file) \cap Branched(l))
  BY <1>7 DEF end
<1> QED BY <1>1, <1>3, <1>4, <1>5, <1>7, <1>8

\* Every step leaves the tree alone, appends to it or takes another session.
LEMMA StepShapes ==
    ASSUME Next
    PROVE  \/ UNCHANGED <<mem, file>>
           \/ SaveCompaction
           \/ ToolResult
           \/ \E p, type, ref, sum :
                 type \notin Compaction \cup {"tool"} /\ AppendBelow(p, type, ref, sum)
           \/ mem' = Empty /\ file' = Empty
           \/ disk = "file" /\ mem' = file /\ file' = file
           \/ \E l \in Ids : Fork(l)
<1>1. CASE Talk
  <2>1. RunEnds => UNCHANGED <<mem, file>>
    BY DEF RunEnds, view, store
  <2> QED BY <1>1, <2>1 DEF Talk, Prompt, Note, Reply, Mark, Append, Meta, Compaction
<1>2. CASE Summaries
  <2>1. BeginCompaction \/ CancelSummary => UNCHANGED <<mem, file>>
    BY DEF BeginCompaction, CancelSummary, view, store
  <2>2. \A t \in Ids : Navigate(t) \/ BeginTrip(t) => UNCHANGED <<mem, file>>
    BY DEF Navigate, BeginTrip, view, store
  <2>3. SaveTrip => \E p, type, ref, sum :
                       type \notin Compaction \cup {"tool"} /\ AppendBelow(p, type, ref, sum)
    BY DEF SaveTrip, Compaction
  <2> QED BY <1>2, <2>1, <2>2, <2>3 DEF Summaries
<1>3. CASE Sessions
  BY <1>3 DEF Sessions, NewSession, Reopen, ForkFrom
<1> QED BY <1>1, <1>2, <1>3 DEF Next

LEMMA MapsTyped == ASSUME TypeOK PROVE Typed(mem) /\ Typed(file)
  BY DEF TypeOK, TreeOK, Typed

ChainInv == Chained(mem) /\ Chained(file)

\* No append, crash, failed write or fork breaks the chain of the parent ids.
LEMMA ChainKept == ASSUME TypeOK, SavedInv, ChainInv, TypeOK', [Next]_vars PROVE ChainInv'
<1>1. Typed(mem) /\ Typed(file) /\ Typed(mem') /\ Typed(file')
  BY MapsTyped DEF TypeOK, TreeOK, Typed
<1>2. CASE UNCHANGED <<mem, file>>
  BY <1>2 DEF ChainInv
<1>3. ASSUME NEW p, NEW type, NEW ref, NEW sum, AppendBelow(p, type, ref, sum)
      PROVE  ChainInv'
  <2>1. PICK x : Grown(mem', mem, p, next + 1, x)
    BY <1>3, AppendShape
  <2>2. Chained(mem')
    BY <1>1, <2>1, GrownPaths DEF ChainInv
  <2> QED BY <1>3, <2>2, FileShape, ChainedPart DEF ChainInv
<1>4. CASE mem' = Empty /\ file' = Empty
  BY <1>4, NoEntries DEF ChainInv, Chained
<1>5. CASE mem' = file /\ file' = file
  BY <1>5 DEF ChainInv
<1>6. ASSUME NEW l \in Ids, Fork(l) PROVE ChainInv'
  <2>1. PICK to : Forked(mem', file, Branched(l), next, next', to)
    BY <1>6, ForkShape
  <2>2. Chained(mem')
    BY <1>1, <1>6, <2>1, ForkShape, ChainedFork DEF ChainInv
  <2>3. file' = mem' \/ file' = Empty
    BY <1>6, ForkShape
  <2>4. Chained(Empty)
    BY NoEntries DEF Chained
  <2> QED BY <2>2, <2>3, <2>4 DEF ChainInv
<1>7. CASE SaveCompaction \/ ToolResult
  BY <1>3, <1>7 DEF SaveCompaction, ToolResult, Append
<1> QED BY <1>2, <1>3, <1>4, <1>5, <1>6, <1>7, StepShapes DEF vars, view, store

---------------------------------------------------------------------------
(* Forks                                                                    *)

\* Labels written in the order of their targets, as many as targets, reach all.
LEMMA LabelsReachAll ==
    ASSUME NEW D, D \subseteq Nat, NEW L, L \subseteq Nat, IsFiniteSet(L),
           Cardinality(D) = Cardinality(L), NEW to \in [D -> L],
           \A i, j \in D : i < j => to[i] < to[j]
    PROVE  to \in Surjection(D, L)
<1>1. \A i, j \in D : to[i] = to[j] => i = j
  <2> SUFFICES ASSUME NEW i \in D, NEW j \in D, to[i] = to[j], i # j PROVE FALSE
    OBVIOUS
  <2>1. i \in Nat /\ j \in Nat /\ to[i] \in L /\ to[j] \in L
    OBVIOUS
  <2>2. i < j \/ j < i
    BY <2>1
  <2>3. to[i] \in Nat
    BY <2>1
  <2> QED BY <2>2, <2>3
<1>2. to \in Injection(D, L)
  BY <1>1 DEF Injection, IsInjective
<1> QED BY <1>2, FS_Injection

\* What a fork keeps of the session in file, l being the entry forked at.
LEMMA ForkKept ==
    ASSUME TypeOK, TypeOK', ChainInv, NEW l, Fork(l)
    PROVE  LET P == Path(file, l)
               Q == Path(mem', leaf')
           IN  /\ Of(mem', Q, Types \ {"label"}) = Branched(l)
               /\ Labelled(mem') = Labelled(file) \cap Branched(l)
               /\ (\A c \in Of(file, P, Compaction) : file[c].ref \in Branched(l))
                     => Of(mem', Shown(mem', Q), Spoken) = Of(file, Shown(file, P), Spoken)
<1> DEFINE keep == Branched(l)
           L == Labelled(file) \cap keep
           marks == (next + 1)..next'
           P == Path(file, l)
           m == mem'
           Q == Path(m, leaf')
<1>1. Typed(m) /\ Typed(file) /\ Chained(file) /\ next \in Nat /\ next' \in Nat
  BY MapsTyped DEF TypeOK, TreeOK, Typed, ChainInv
<1>2. PICK to \in [marks -> L] :
         /\ \A i, j \in marks : i < j => to[i] < to[j]
         /\ Forked(m, file, keep, next, next', to)
  BY ForkShape
<1>3. /\ keep \subseteq P /\ keep \subseteq DOMAIN file /\ keep \subseteq 1..next
      /\ \A i \in keep : file[i].type \notin {"label", "unlabel"}
      /\ \A i \in P \ keep : file[i].type \in {"label", "unlabel"}
  <2>1. keep \subseteq DOMAIN file /\ keep \subseteq 1..next
    BY <1>2 DEF Forked
  <2>2. \A i \in P \ keep : file[i].type \in {"label", "unlabel"}
    BY DEF Branched, Of
  <2> QED BY <2>1, <2>2, ForkShape
<1>4. /\ DOMAIN m = keep \cup marks
      /\ \A i \in keep : m[i].type = file[i].type /\ m[i].ref = file[i].ref
      /\ \A i \in marks : m[i].type = "label" /\ m[i].ref = to[i]
  BY <1>2 DEF Forked
<1>5. Q = DOMAIN m
  <2>1. CASE DOMAIN m = {}
    BY <2>1 DEF Path
  <2>2. CASE DOMAIN m # {}
    <3>1. leaf' \in DOMAIN m /\ \A i \in DOMAIN m : i <= leaf'
      BY <2>2, ForkShape, NoEntries DEF Newest
    <3>2. Q = {i \in DOMAIN m : i <= leaf'}
      <4> HIDE DEF keep, marks, m
      <4> QED BY <1>1, <1>2, <1>3, <3>1, PathOfFork
    <3> QED BY <3>1, <3>2
  <2> QED BY <2>1, <2>2
<1>6. next' = next + Cardinality(L)
  BY ForkShape
<1>7. \A t \in L : \E i \in marks : to[i] = t
  <2>1. L \subseteq 1..next /\ L \subseteq Nat /\ marks \subseteq Nat
    BY <1>1, <1>3
  <2>2. IsFiniteSet(L) /\ Cardinality(L) \in Nat
    <3> HIDE DEF L
    <3> QED BY <1>1, <2>1, CountedIds
  <2>3. next + 1 \in Int /\ next' \in Int
    BY <1>1
  <2>4. Cardinality(marks) = IF next + 1 > next' THEN 0 ELSE next' - (next + 1) + 1
    BY <2>3, FS_Interval
  <2>5. Cardinality(marks) = Cardinality(L)
    <3> HIDE DEF L, marks
    <3> QED BY <1>1, <1>6, <2>2, <2>4
  <2>6. to \in [marks -> L] /\ \A i, j \in marks : i < j => to[i] < to[j]
    BY <1>2
  <2> HIDE DEF L, marks
  <2>7. to \in Surjection(marks, L)
    BY <2>1, <2>2, <2>5, <2>6, LabelsReachAll
  <2> QED BY <2>7 DEF Surjection
<1>8. \A i \in keep : m[i].type \in Types \ {"label", "unlabel"}
  BY <1>1, <1>3, <1>4, UpNat
<1> HIDE DEF keep, m, Q, P
<1>9. Of(m, Q, Types \ {"label"}) = keep
  BY <1>4, <1>5, <1>8 DEF Of
<1>10. Labelled(m) = L
  <2>1. Of(m, DOMAIN m, {"label", "unlabel"}) = marks
    BY <1>4, <1>8 DEF Of
  <2>2. L \subseteq DOMAIN m
    BY <1>4
  <2> DEFINE S(t) == {j \in marks : m[j].ref = t}
  <2>3. Labelled(m) = {t \in DOMAIN m : \E k \in Newest(S(t)) : m[k].type = "label"}
    BY <2>1 DEF Labelled
  <2>4. ASSUME NEW t \in L PROVE \E k \in Newest(S(t)) : m[k].type = "label"
    <3>1. PICK k \in marks : to[k] = t
      BY <1>7
    <3>2. \A j \in marks : to[j] = t => j = k
      <4> SUFFICES ASSUME NEW j \in marks, to[j] = t, j # k PROVE FALSE
        OBVIOUS
      <4>1. to[j] \in Nat /\ to[k] \in Nat /\ j \in Nat /\ k \in Nat
        BY <1>1, <1>3
      <4> QED BY <1>2, <3>1, <4>1
    <3>3. S(t) = {k} /\ k <= k
      BY <1>1, <1>4, <3>1, <3>2
    <3> QED BY <1>4, <3>1, <3>3 DEF Newest
  <2>5. ASSUME NEW t \in DOMAIN m, NEW k \in Newest(S(t)) PROVE t \in L
    <3>1. k \in marks /\ m[k].ref = t
      BY <2>5 DEF Newest
    <3> QED BY <1>2, <1>4, <3>1
  <2> QED BY <2>2, <2>3, <2>4, <2>5
<1>11. ASSUME \A c \in Of(file, P, Compaction) : file[c].ref \in keep
       PROVE  Of(m, Shown(m, Q), Spoken) = Of(file, Shown(file, P), Spoken)
  <2>1. Of(m, Q, Compaction) = Of(file, P, Compaction)
    BY <1>3, <1>4, <1>5 DEF Of, Compaction
  <2>2. Compacted(m, Q) = Compacted(file, P)
    BY <2>1 DEF Compacted
  <2>3. \A c \in Compacted(file, P) :
           /\ c \in keep /\ m[c].ref = file[c].ref
           /\ file[c].ref \in P /\ m[c].ref \in Q
    <3> SUFFICES ASSUME NEW c \in Compacted(file, P)
                 PROVE  /\ c \in keep /\ m[c].ref = file[c].ref
                        /\ file[c].ref \in P /\ m[c].ref \in Q
      OBVIOUS
    <3>1. c \in Of(file, P, Compaction)
      BY DEF Compacted, Newest
    <3>2. c \in keep
      BY <1>3, <3>1 DEF Of, Compaction
    <3>3. file[c].ref \in keep
      BY <1>11, <3>1
    <3> QED BY <1>3, <1>4, <1>5, <3>2, <3>3
  <2>4. Of(m, Q, Spoken) = Of(file, P, Spoken)
    BY <1>3, <1>4, <1>5 DEF Of, Spoken
  <2>5. \A i \in Of(file, P, Spoken) : i \in Shown(m, Q) <=> i \in Shown(file, P)
    BY <2>2, <2>3, <2>4 DEF Shown, Of
  <2>6. \A i : i \in Shown(m, Q) => i \in Q
    BY DEF Shown
  <2>7. \A i : i \in Shown(file, P) => i \in P
    BY DEF Shown
  <2> QED BY <2>4, <2>5, <2>6, <2>7 DEF Of
<1> QED BY <1>9, <1>10, <1>11 DEF keep, m, Q, P

\* A fork has every message, summary and setting of the path it is of, the
\* labels these bear and no others, and shows the model the same conversation,
\* however the session came about (createBranchedSession).
THEOREM ForksKeep == Spec => ForkKeeps
<1>1. Init => ChainInv
  BY NoEntries DEF Init, ChainInv, Chained
<1>2. TypeOK /\ SavedInv /\ ChainInv /\ TypeOK' /\ [Next]_vars => ChainInv'
  BY ChainKept
<1>3. TypeOK /\ TypeOK' /\ ChainInv =>
        \A l \in Ids : Fork(l) =>
          LET P == Path(file, l)
              Q == Path(mem', leaf')
          IN  /\ Of(mem', Q, Types \ {"label"}) = Branched(l)
              /\ Labelled(mem') = Labelled(file) \cap Branched(l)
              /\ (\A c \in Of(file, P, Compaction) : file[c].ref \in Branched(l))
                    => Of(mem', Shown(mem', Q), Spoken) = Of(file, Shown(file, P), Spoken)
  BY ForkKept
<1>4. Spec => []TypeOK /\ []SavedInv
  BY TypeCorrect, SavedHolds, PTL
<1> QED BY <1>1, <1>2, <1>3, <1>4, PTL DEF Spec, ForkKeeps

---------------------------------------------------------------------------
(* What compaction takes off a path                                         *)

\* A compaction keeps from an entry that was there before it.
KeptBefore(m) == \A c \in Of(m, DOMAIN m, Compaction) : m[c].ref < c

\* A compaction of P hides entry i: by the entry at which it began to keep, or
\* by itself when that entry is not on P.
Hidden(m, P, i) ==
    \E c \in Of(m, P, Compaction) : i <= c /\ (m[c].ref \in P => i < m[c].ref)

\* Each compaction of its own branch tells what it took off its own path, unless an earlier one
\* of that path hid it already.
Accounted(m) ==
    \A c \in Of(m, DOMAIN m, {"compaction"}) :
        \A i \in Of(m, Path(m, c), Spoken) :
            i < m[c].ref => i \in m[c].sum \/ Hidden(m, Path(m, c) \ {c}, i)

Told(m) == KeptBefore(m) /\ Accounted(m)

\* The same of the summary being written, of the path it is written of.  The
\* leaf may move meanwhile, and that path be prolonged; it stays a path.
JobTold ==
    \A c \in job :
        /\ \E l \in DOMAIN mem : c.of = Path(mem, l)
        /\ c.first \in c.of
        /\ \A i \in Of(mem, c.of, Spoken) :
              i < c.first => i \in c.sum \/ Hidden(mem, c.of, i)

ToldInv == Told(mem) /\ Told(file) /\ JobTold

LEMMA ToldPart ==
    ASSUME NEW m, Typed(m), Told(m), NEW f, PartOf(f, m) PROVE Told(f)
<1>1. \A c \in DOMAIN f : c \in DOMAIN m /\ c \in Nat /\ f[c] = m[c]
  BY DEF PartOf, Typed
<1>2. KeptBefore(f)
  BY <1>1 DEF Told, KeptBefore, Of
<1>3. ASSUME NEW c \in Of(f, DOMAIN f, {"compaction"}),
             NEW i \in Of(f, Path(f, c), Spoken), i < f[c].ref
      PROVE  i \in f[c].sum \/ Hidden(f, Path(f, c) \ {c}, i)
  <2>1. c \in DOMAIN f /\ c \in Of(m, DOMAIN m, {"compaction"}) /\ f[c] = m[c]
    BY <1>1 DEF Of
  <2>2. /\ Path(f, c) \subseteq Path(m, c) /\ Path(f, c) \subseteq DOMAIN f
        /\ \A k \in Path(f, c) : \A j \in Path(m, c) : j >= k => j \in Path(f, c)
    <3>1. /\ Path(f, c) \subseteq Path(m, c)
          /\ \A k \in Path(f, c) : \A j \in Path(m, c) : j >= k => j \in Path(f, c)
      BY <2>1, PathOfPart
    <3>2. Typed(f)
      BY <1>1 DEF Typed
    <3>3. Path(f, c) \subseteq DOMAIN f
      <4>1. \A k \in f[c].up : k \in Nat
        BY <2>1, <3>2, UpNat
      <4> QED BY <4>1 DEF Path
    <3> QED BY <3>1, <3>3
  <2>3. i \in Path(f, c) /\ i \in DOMAIN f /\ i \in Of(m, Path(m, c), Spoken)
    BY <1>1, <2>2 DEF Of
  <2>4. i \in m[c].sum \/ Hidden(m, Path(m, c) \ {c}, i)
    BY <1>3, <2>1, <2>3 DEF Told, Accounted
  <2>5. ASSUME NEW d \in Of(m, Path(m, c) \ {c}, Compaction), i <= d,
               m[d].ref \in Path(m, c) \ {c} => i < m[d].ref
        PROVE  Hidden(f, Path(f, c) \ {c}, i)
    <3>1. d \in Path(m, c) /\ d # c /\ m[d].type \in Compaction
      BY DEF Of
    <3>2. d \in DOMAIN m /\ d \in Nat /\ i \in Nat
      <4>1. \A k \in m[c].up : k \in Nat
        BY <2>1, UpNat DEF PartOf
      <4> QED BY <1>1, <2>3, <3>1, <4>1 DEF Path
    <3>3. d \in Path(f, c)
      BY <2>2, <2>3, <2>5, <3>1, <3>2
    <3>4. f[d] = m[d] /\ d \in Of(f, Path(f, c) \ {c}, Compaction)
      BY <1>1, <2>2, <3>1, <3>3 DEF Of
    <3>5. f[d].ref \in Path(f, c) \ {c} => i < f[d].ref
      BY <2>2, <2>5, <3>4
    <3> QED BY <2>5, <3>4, <3>5 DEF Hidden
  <2> QED BY <2>1, <2>4, <2>5 DEF Hidden
<1> QED BY <1>2, <1>3 DEF Told, Accounted

\* An entry that a path hides stays hidden when the path is prolonged.
LEMMA HiddenGrows ==
    ASSUME NEW m, NEW g, NEW P, P \subseteq DOMAIN g, NEW e, NEW i, i < e,
           \A j \in DOMAIN g : m[j] = g[j], Hidden(g, P, i)
    PROVE  Hidden(m, P, i) /\ Hidden(m, P \cup {e}, i)
<1>1. PICK c \in Of(g, P, Compaction) : i <= c /\ (g[c].ref \in P => i < g[c].ref)
  BY DEF Hidden
<1>2. /\ c \in P /\ m[c] = g[c] /\ c \in Of(m, P, Compaction)
      /\ c \in Of(m, P \cup {e}, Compaction)
  BY <1>1 DEF Of
<1>3. m[c].ref \in P \cup {e} => i < m[c].ref
  BY <1>1, <1>2
<1> QED BY <1>1, <1>2, <1>3 DEF Hidden

LEMMA ToldGrown ==
    ASSUME NEW m, NEW g, NEW p, NEW e, NEW x,
           Typed(g), Chained(g), Told(g), Grown(m, g, p, e, x),
           x.type \in Compaction => x.ref < e,
           x.type = "compaction" =>
              \A i \in Of(g, Path(g, p), Spoken) :
                 i < x.ref => i \in x.sum \/ Hidden(g, Path(g, p), i)
    PROVE  Told(m)
<1>1. /\ e \in Nat /\ e \notin DOMAIN g /\ DOMAIN m = DOMAIN g \cup {e} /\ m[e] = x
      /\ \A i \in DOMAIN g : m[i] = g[i] /\ i < e
  BY DEF Grown, Typed
<1>2. /\ Path(m, e) = Path(g, p) \cup {e} /\ e \notin Path(g, p)
      /\ \A l \in DOMAIN g : Path(m, l) = Path(g, l)
  BY GrownPaths
<1>3. \A l : Path(g, l) \subseteq DOMAIN g
  BY PathUp
<1>4. KeptBefore(m)
  BY <1>1 DEF Told, KeptBefore, Of
<1>5. ASSUME NEW c \in Of(m, DOMAIN m, {"compaction"}),
             NEW i \in Of(m, Path(m, c), Spoken), i < m[c].ref
      PROVE  i \in m[c].sum \/ Hidden(m, Path(m, c) \ {c}, i)
  <2>1. CASE c = e
    <3>1. x.type = "compaction"
      BY <1>1, <1>5, <2>1 DEF Of
    <3>2. i \in Path(g, p) /\ i \in DOMAIN g
      BY <1>1, <1>2, <1>3, <1>5, <2>1, <3>1 DEF Of, Spoken
    <3>3. i \in Of(g, Path(g, p), Spoken)
      BY <1>1, <1>5, <3>2 DEF Of
    <3>4. i \in x.sum \/ Hidden(g, Path(g, p), i)
      BY <1>1, <1>5, <2>1, <3>1, <3>3
    <3>5. Hidden(g, Path(g, p), i) => Hidden(m, Path(g, p), i)
      BY <1>1, <1>3, <3>2, HiddenGrows
    <3>6. Path(m, c) \ {c} = Path(g, p)
      BY <1>2, <2>1
    <3> QED BY <1>1, <2>1, <3>4, <3>5, <3>6
  <2>2. CASE c # e
    <3>1. c \in DOMAIN g /\ c \in Of(g, DOMAIN g, {"compaction"}) /\ m[c] = g[c]
      BY <1>1, <2>2 DEF Of
    <3>2. Path(m, c) = Path(g, c) /\ Path(g, c) \subseteq DOMAIN g
      BY <1>2, <1>3, <3>1
    <3>3. i \in DOMAIN g /\ i \in Of(g, Path(g, c), Spoken)
      BY <1>1, <1>5, <3>2 DEF Of
    <3>4. i \in g[c].sum \/ Hidden(g, Path(g, c) \ {c}, i)
      BY <1>5, <3>1, <3>3 DEF Told, Accounted
    <3>5. Hidden(g, Path(g, c) \ {c}, i) => Hidden(m, Path(g, c) \ {c}, i)
      BY <1>1, <3>2, <3>3, HiddenGrows
    <3> QED BY <3>1, <3>2, <3>4, <3>5
  <2> QED BY <2>1, <2>2
<1> QED BY <1>4, <1>5 DEF Told, Accounted

LEMMA ToldFork ==
    ASSUME NEW m, NEW f, NEW l, NEW keep, NEW n, NEW end, NEW to,
           Typed(m), Typed(f), Chained(f), Told(f), Forked(m, f, keep, n, end, to),
           keep \subseteq Path(f, l),
           \A j \in Path(f, l) \ keep : f[j].type \in {"label", "unlabel"}
    PROVE  Told(m)
<1>1. /\ n \in Nat /\ keep \subseteq 1..n /\ keep \subseteq DOMAIN f
      /\ DOMAIN m = keep \cup ((n + 1)..end)
      /\ \A i \in keep : /\ m[i].type = f[i].type /\ m[i].ref = f[i].ref
                         /\ m[i].sum = f[i].sum
      /\ \A i \in (n + 1)..end : m[i].type = "label"
  BY DEF Forked
<1>2. /\ Of(m, DOMAIN m, Compaction) \subseteq Of(f, keep, Compaction)
      /\ Of(m, DOMAIN m, {"compaction"}) \subseteq Of(f, keep, {"compaction"})
  BY <1>1 DEF Of, Compaction
<1>3. KeptBefore(m)
  BY <1>1, <1>2 DEF Told, KeptBefore, Of
<1>4. ASSUME NEW c \in Of(m, DOMAIN m, {"compaction"}),
             NEW i \in Of(m, Path(m, c), Spoken), i < m[c].ref
      PROVE  i \in m[c].sum \/ Hidden(m, Path(m, c) \ {c}, i)
  <2>1. c \in keep /\ c \in Of(f, DOMAIN f, {"compaction"}) /\ c \in DOMAIN m
    BY <1>1, <1>2 DEF Of
  <2>2. Path(m, c) = {j \in DOMAIN m : j <= c}
    BY <2>1, PathOfFork
  <2>3. /\ Path(f, c) = {j \in Path(f, l) : j <= c} /\ Path(f, l) \subseteq DOMAIN f
        /\ Path(f, l) \subseteq Nat
    BY <2>1, PathUp DEF Typed
  <2>4. Path(m, c) = Path(f, c) \cap keep
    <3>1. c \in Nat /\ c <= n /\ n \in Nat /\ end \in Nat
      BY <1>1, <2>1 DEF Forked
    <3>2. \A j \in (n + 1)..end : ~(j <= c)
      BY <3>1
    <3>3. Path(m, c) = {j \in keep : j <= c}
      BY <1>1, <2>2, <3>2
    <3> QED BY <2>3, <3>3
  <2>5. i \in keep /\ i \in Of(f, Path(f, c), Spoken) /\ i < f[c].ref /\ i \in Nat
    BY <1>1, <1>4, <2>1, <2>3, <2>4 DEF Of
  <2>6. i \in f[c].sum \/ Hidden(f, Path(f, c) \ {c}, i)
    BY <2>1, <2>5 DEF Told, Accounted
  <2>7. ASSUME NEW d \in Of(f, Path(f, c) \ {c}, Compaction), i <= d,
               f[d].ref \in Path(f, c) \ {c} => i < f[d].ref
        PROVE  Hidden(m, Path(m, c) \ {c}, i)
    <3>1. d \in Path(f, c) \ {c} /\ f[d].type \in Compaction
      BY DEF Of
    <3>2. d \in keep
      BY <2>3, <3>1 DEF Compaction
    <3>3. d \in Of(m, Path(m, c) \ {c}, Compaction) /\ m[d].ref = f[d].ref
      BY <1>1, <2>4, <3>1, <3>2 DEF Of
    <3>4. m[d].ref \in Path(m, c) \ {c} => i < m[d].ref
      BY <2>4, <2>7, <3>3
    <3> QED BY <2>7, <3>3, <3>4 DEF Hidden
  <2> QED BY <1>1, <2>1, <2>6, <2>7 DEF Hidden
<1> QED BY <1>3, <1>4 DEF Told, Accounted

\* prepareCompaction and compact: all that is said before the first entry kept
\* is in the summary, or was hidden by the last compaction.
LEMMA JobStarts ==
    ASSUME TypeOK, Told(mem), BeginCompaction PROVE JobTold'
<1> DEFINE P == Path(mem, leaf)
           R == Boundary(P)
<1>1. PICK k \in CutPoints(R) : \E f \in Oldest(Reach(R, k)) :
         Dropped(R, f) # {} /\ job' = {CompactionOf(P, R, f)}
  BY DEF BeginCompaction
<1>2. PICK f \in Oldest(Reach(R, k)) : job' = {CompactionOf(P, R, f)}
  BY <1>1
<1>3. mem' = mem
  BY DEF BeginCompaction, view
<1>4. next \in Nat /\ DOMAIN mem \subseteq 1..next /\ P \subseteq DOMAIN mem
  <2>1. /\ next \in Nat /\ DOMAIN mem \subseteq 1..next
        /\ \A i \in DOMAIN mem : mem[i] \in Entry
    BY DEF TypeOK, TreeOK
  <2> QED BY <2>1, PathInside
<1>5. f \in P /\ leaf \in DOMAIN mem
  BY <1>2, <1>4 DEF Oldest, Reach, Boundary, Path
<1> DEFINE prefix == {i \in Dropped(R, f) : \E t \in TurnStart(R, f) : i >= t}
           history == Dropped(R, f) \ prefix
           previous == IF history = {} THEN {} ELSE Compacted(mem, P)
           S == history \cup prefix \cup previous
<1>6. CompactionOf(P, R, f) = [first |-> f, sum |-> Tells(mem, S), of |-> P]
  BY DEF CompactionOf
<1>7. Dropped(R, f) \subseteq S
  OBVIOUS
<1> HIDE DEF S
<1>8. ASSUME NEW i \in Of(mem, P, Spoken), i < f
      PROVE  i \in Tells(mem, S) \/ Hidden(mem, P, i)
  <2>1. i \in P /\ mem[i].type \in Spoken /\ i \in Nat
    BY <1>4 DEF Of
  <2>2. CASE i \in R
    <3>1. i \in Dropped(R, f)
      BY <1>8, <2>1, <2>2 DEF Dropped, Of, Spoken, Meta, Compaction
    <3>2. i \in Of(mem, S, Spoken)
      BY <1>7, <2>1, <3>1 DEF Of
    <3> QED BY <3>2 DEF Tells
  <2>3. CASE i \notin R
    <3>1. PICK c \in Compacted(mem, P) :
             ~(i >= (IF mem[c].ref \in P THEN mem[c].ref ELSE c + 1))
      BY <2>1, <2>3 DEF Boundary
    <3>2. c \in Of(mem, P, Compaction)
      BY DEF Compacted, Newest
    <3>3. c \in P /\ c \in DOMAIN mem /\ c \in Nat /\ mem[c].ref \in Nat /\ mem[c].ref < c
      <4>1. c \in P /\ c \in DOMAIN mem /\ mem[c].type \in Compaction
        BY <1>4, <3>2 DEF Of
      <4>2. mem[c].ref < c
        BY <4>1 DEF Told, KeptBefore, Of
      <4> QED BY <1>4, <4>1, <4>2, UpNat, MapsTyped
    <3>4. i <= c /\ (mem[c].ref \in P => i < mem[c].ref)
      BY <2>1, <3>1, <3>3
    <3> QED BY <3>2, <3>4 DEF Hidden
  <2> QED BY <2>2, <2>3
<1>9. \A c \in job' : c.first = f /\ c.sum = Tells(mem, S) /\ c.of = P
  BY <1>2, <1>6
<1> QED BY <1>3, <1>5, <1>8, <1>9 DEF JobTold

\* While the summary is written, appends leave the path it is of as it was.
LEMMA JobWaits ==
    ASSUME TypeOK, ChainInv, JobTold, NEW p, NEW type, NEW ref, NEW sum,
           AppendBelow(p, type, ref, sum), job' = job
    PROVE  JobTold'
<1> DEFINE e == next + 1
<1>1. PICK x : Grown(mem', mem, p, e, x)
  BY AppendShape
<1>2. /\ DOMAIN mem \subseteq DOMAIN mem'
      /\ \A i \in DOMAIN mem : mem'[i] = mem[i] /\ i < e
  BY <1>1 DEF Grown
<1>3. /\ \A l \in DOMAIN mem : Path(mem', l) = Path(mem, l)
      /\ \A l : Path(mem, l) \subseteq DOMAIN mem
  BY <1>1, GrownPaths, PathUp, MapsTyped DEF ChainInv
<1> SUFFICES ASSUME NEW c \in job
             PROVE  /\ \E l \in DOMAIN mem' : c.of = Path(mem', l)
                    /\ c.first \in c.of
                    /\ \A i \in Of(mem', c.of, Spoken) :
                          i < c.first => i \in c.sum \/ Hidden(mem', c.of, i)
  BY DEF JobTold
<1>4. PICK l \in DOMAIN mem : c.of = Path(mem, l)
  BY DEF JobTold
<1>5. l \in DOMAIN mem' /\ c.of = Path(mem', l) /\ c.of \subseteq DOMAIN mem
  BY <1>2, <1>3, <1>4
<1>6. ASSUME NEW i \in Of(mem', c.of, Spoken), i < c.first
      PROVE  i \in c.sum \/ Hidden(mem', c.of, i)
  <2>1. i \in DOMAIN mem /\ i \in Of(mem, c.of, Spoken)
    BY <1>2, <1>5 DEF Of
  <2>2. i \in c.sum \/ Hidden(mem, c.of, i)
    BY <1>6, <2>1 DEF JobTold
  <2>3. Hidden(mem, c.of, i) => Hidden(mem', c.of, i)
    BY <1>2, <1>5, <2>1, HiddenGrows
  <2> QED BY <2>2, <2>3
<1> QED BY <1>5, <1>6 DEF JobTold

\* A path that is part of another is its beginning.
LEMMA PathInPlace ==
    ASSUME NEW m, Typed(m), Chained(m), NEW l \in DOMAIN m, NEW h,
           Path(m, l) \subseteq Path(m, h)
    PROVE  l \in Path(m, h) /\ Path(m, l) = {j \in Path(m, h) : j <= l}
<1>1. l \in Path(m, h)
  BY PathUp
<1> QED BY <1>1, PathUp

\* A summary that is saved where it was cut tells what it takes off the path
\* that is there when it is saved.
LEMMA JobLands ==
    ASSUME TypeOK, ChainInv, Told(mem), JobTold, NEW c \in job, c.of \subseteq Here,
           NEW i \in Of(mem, Here, Spoken), i < c.first
    PROVE  i \in c.sum \/ Hidden(mem, Here, i)
<1>1. PICK l \in DOMAIN mem : c.of = Path(mem, l)
  BY DEF JobTold
<1>2. l \in Here /\ c.of = {j \in Here : j <= l} /\ Here \subseteq DOMAIN mem
  BY <1>1, PathInPlace, PathUp, MapsTyped DEF ChainInv, Here
<1>3. Here \subseteq Nat /\ l \in Nat
  BY <1>2, MapsTyped DEF Typed
<1>4. i \in c.of /\ i \in Of(mem, c.of, Spoken) /\ i \in Nat
  BY <1>2, <1>3 DEF Of, JobTold
<1>5. ASSUME Hidden(mem, c.of, i) PROVE Hidden(mem, Here, i)
  <2>1. PICK d \in Of(mem, c.of, Compaction) :
           i <= d /\ (mem[d].ref \in c.of => i < mem[d].ref)
    BY <1>5 DEF Hidden
  <2>2. d \in Here /\ d <= l /\ d \in Nat /\ d \in Of(mem, DOMAIN mem, Compaction)
    BY <1>2, <1>3, <2>1 DEF Of
  <2>3. mem[d].ref \in Nat /\ mem[d].ref < d
    BY <1>2, <2>2, UpNat, MapsTyped DEF Told, KeptBefore
  <2>4. mem[d].ref \in Here => i < mem[d].ref
    BY <1>2, <1>3, <2>1, <2>2, <2>3
  <2>5. d \in Of(mem, Here, Compaction)
    BY <2>1, <2>2 DEF Of
  <2> QED BY <2>1, <2>4, <2>5 DEF Hidden
<1> QED BY <1>4, <1>5 DEF JobTold

\* A summary being written sees appends on any branch and moves of the leaf.
LEMMA JobShapes ==
    ASSUME [Next]_vars
    PROVE  \/ job' = {}
           \/ BeginCompaction
           \/ UNCHANGED <<mem, job>>
           \/ \E p, type, ref, sum : AppendBelow(p, type, ref, sum) /\ job' = job
<1>1. CASE UNCHANGED vars
  BY <1>1 DEF vars, view
<1>2. CASE Talk
  <2>1. RunEnds => UNCHANGED <<mem, job>>
    BY DEF RunEnds, view
  <2> QED BY <1>2, <2>1 DEF Talk, Prompt, Note, Reply, ToolResult, Mark, Append
<1>3. CASE Summaries
  <2>1. SaveCompaction => job' = {}
    BY DEF SaveCompaction
  <2>2. SaveTrip => \E p, type, ref, sum : AppendBelow(p, type, ref, sum) /\ job' = job
    BY DEF SaveTrip
  <2>3. CancelSummary => job' = {} \/ UNCHANGED <<mem, job>>
    BY DEF CancelSummary, view
  <2>4. \A t \in Ids : Navigate(t) \/ BeginTrip(t) => UNCHANGED <<mem, job>>
    BY DEF Navigate, BeginTrip, view
  <2> QED BY <1>3, <2>1, <2>2, <2>3, <2>4 DEF Summaries
<1>4. CASE Sessions
  BY <1>4 DEF Sessions, NewSession, Reopen, ForkFrom, Fork, NoWork
<1> QED BY <1>1, <1>2, <1>3, <1>4 DEF Next

LEMMA JobKept ==
    ASSUME TypeOK, ChainInv, ToldInv, [Next]_vars PROVE JobTold'
<1>1. CASE job' = {}
  BY <1>1 DEF JobTold
<1>2. CASE UNCHANGED <<mem, job>>
  BY <1>2 DEF ToldInv, JobTold
<1>3. CASE BeginCompaction
  BY <1>3, JobStarts DEF ToldInv
<1>4. CASE \E p, type, ref, sum : AppendBelow(p, type, ref, sum) /\ job' = job
  BY <1>4, JobWaits DEF ToldInv
<1> QED BY <1>1, <1>2, <1>3, <1>4, JobShapes

\* The invariant of compaction.
LEMMA ToldKept ==
    ASSUME TypeOK, SavedInv, ChainInv, ToldInv, TypeOK', [Next]_vars
    PROVE  ToldInv'
<1>1. Typed(mem) /\ Typed(file) /\ Typed(mem') /\ Typed(file')
  BY MapsTyped DEF TypeOK, TreeOK, Typed
<1>2. ASSUME NEW p, NEW type, NEW ref, NEW sum, AppendBelow(p, type, ref, sum),
             type \in Compaction => ref < next + 1,
             type = "compaction" =>
                \A i \in Of(mem, Path(mem, p), Spoken) :
                   i < ref => i \in sum \/ Hidden(mem, Path(mem, p), i)
      PROVE  Told(mem') /\ Told(file')
  <2>1. PICK x : /\ x.type = type /\ x.ref = ref /\ x.sum = sum
                 /\ Grown(mem', mem, p, next + 1, x)
    BY <1>2, AppendShape
  <2>2. Told(mem')
    BY <1>1, <1>2, <2>1, ToldGrown DEF ChainInv, ToldInv
  <2>3. PartOf(file', mem')
    BY <1>2, FileShape
  <2> QED BY <1>1, <2>2, <2>3, ToldPart DEF ToldInv
<1>3. ASSUME UNCHANGED <<mem, file>> PROVE Told(mem') /\ Told(file')
  BY <1>3 DEF ToldInv
<1>4. ASSUME SaveCompaction PROVE Told(mem') /\ Told(file')
  <2>1. PICK c \in job : Append(Kind(c), c.first, c.sum)
    BY <1>4 DEF SaveCompaction
  <2>2. c.first < next + 1
    <3>1. PICK l \in DOMAIN mem : c.first \in Path(mem, l)
      BY DEF ToldInv, JobTold
    <3>2. c.first \in DOMAIN mem
      BY <1>1, <3>1, PathUp DEF ChainInv
    <3> QED BY <3>2 DEF TypeOK, TreeOK
  <2>3. Kind(c) = "compaction" =>
           \A i \in Of(mem, Path(mem, leaf), Spoken) :
              i < c.first => i \in c.sum \/ Hidden(mem, Path(mem, leaf), i)
    BY JobLands DEF ToldInv, Here, Kind
  <2> QED BY <1>2, <2>1, <2>2, <2>3 DEF Append
<1>5. Told(Empty)
  BY NoEntries DEF Told, KeptBefore, Accounted, Of
<1>6. ASSUME NEW l \in Ids, Fork(l) PROVE Told(mem') /\ Told(file')
  <2>1. PICK to : Forked(mem', file, Branched(l), next, next', to)
    BY <1>6, ForkShape
  <2>2. /\ Branched(l) \subseteq Path(file, l)
        /\ \A j \in Path(file, l) \ Branched(l) : file[j].type \in {"label", "unlabel"}
    BY <1>6, ForkShape DEF Branched, Of
  <2>3. Told(mem')
    BY <1>1, <2>1, <2>2, ToldFork DEF ChainInv, ToldInv
  <2>4. file' = mem' \/ file' = Empty
    BY <1>6, ForkShape
  <2> QED BY <1>5, <2>3, <2>4
<1>7. Told(mem') /\ Told(file')
  <2>1. CASE UNCHANGED vars
    BY <1>3, <2>1 DEF vars, view, store
  <2>2. CASE Next
    <3>1. CASE \/ ToolResult
               \/ \E p, type, ref, sum :
                     type \notin Compaction \cup {"tool"} /\ AppendBelow(p, type, ref, sum)
      BY <1>2, <3>1 DEF ToolResult, Append, Compaction
    <3>2. CASE mem' = Empty /\ file' = Empty
      BY <1>5, <3>2
    <3>3. CASE mem' = file /\ file' = file
      BY <3>3 DEF ToldInv
    <3> QED BY <1>3, <1>4, <1>6, <2>2, <3>1, <3>2, <3>3, StepShapes
  <2> QED BY <2>1, <2>2
<1> QED BY <1>7, JobKept DEF ToldInv

\* A set of entries has an oldest one.
LEMMA OldestIs ==
    ASSUME NEW T, T \subseteq Nat, T # {} PROVE \E k \in T : \A j \in T : k <= j
<1> DEFINE R == OpToRel(<, Nat)
<1>1. R = {ss \in Nat \X Nat : ss[1] < ss[2]}
  BY DEF OpToRel
<1>2. IsWellFoundedOn(R, Nat)
  BY NatLessThanWellFounded
<1> HIDE DEF R
<1>3. PICK k \in T : \A j \in T : ~(<<j, k>> \in R)
  BY <1>2, WFMin
<1>4. ASSUME NEW j \in T PROVE k <= j
  <2>1. j \in Nat /\ k \in Nat /\ <<j, k>> \in Nat \X Nat
    BY <1>3
  <2>2. ~(j < k)
    BY <1>1, <1>3, <2>1
  <2> QED BY <2>1, <2>2
<1> QED BY <1>3, <1>4

\* What is hidden on a path whose compactions are anchored was told by the
\* first compaction that hides it.
LEMMA HiddenIsTold ==
    ASSUME NEW m, Typed(m), Chained(m), Told(m), NEW l,
           \A c \in Of(m, Path(m, l), Compaction) :
              m[c].type = "compaction" /\ m[c].ref \in Path(m, l),
           NEW i \in Of(m, Path(m, l), Spoken), Hidden(m, Path(m, l), i)
    PROVE  \E c \in Of(m, Path(m, l), Compaction) : i \in m[c].sum
<1> DEFINE P == Path(m, l)
           T == {c \in Of(m, P, Compaction) : i < m[c].ref}
<1>1. /\ P \subseteq DOMAIN m /\ P \subseteq Nat
      /\ \A k \in P : Path(m, k) = {j \in P : j <= k}
  BY PathUp DEF Typed
<1>2. T \subseteq Nat /\ T # {}
  BY <1>1 DEF Hidden, Of
<1>3. PICK k \in T : \A j \in T : k <= j
  <2> HIDE DEF T
  <2> QED BY <1>2, OldestIs
<1>4. \A c \in Of(m, P, Compaction) :
         c \in P /\ c \in Nat /\ c \in DOMAIN m /\ m[c].ref < c /\ m[c].ref \in P
  BY <1>1 DEF Of, Told, KeptBefore
<1>5. /\ k \in Of(m, P, Compaction) /\ i < m[k].ref /\ i \in P /\ i \in Nat
      /\ m[k].ref \in Nat /\ k \in Nat /\ k \in P
  BY <1>1, <1>3, <1>4 DEF Of
<1>6. i <= k
  BY <1>4, <1>5
<1>7. i \in Of(m, Path(m, k), Spoken) /\ k \in Of(m, DOMAIN m, {"compaction"})
  BY <1>1, <1>4, <1>5, <1>6 DEF Of
<1>8. i \in m[k].sum \/ Hidden(m, Path(m, k) \ {k}, i)
  BY <1>5, <1>7 DEF Told, Accounted
<1>9. ASSUME NEW d \in Of(m, Path(m, k) \ {k}, Compaction), i <= d,
             m[d].ref \in Path(m, k) \ {k} => i < m[d].ref
      PROVE  FALSE
  <2>1. d \in P /\ d <= k /\ d # k /\ d \in Of(m, P, Compaction)
    BY <1>1, <1>5 DEF Of
  <2>2. m[d].ref < d /\ m[d].ref \in P /\ d \in Nat /\ m[d].ref \in Nat
    BY <1>1, <1>4, <2>1
  <2>3. m[d].ref \in Path(m, k) \ {k}
    BY <1>1, <1>5, <2>1, <2>2
  <2>4. d \in T
    BY <1>9, <2>1, <2>3
  <2> QED BY <1>3, <1>5, <2>1, <2>2, <2>4
<1> QED BY <1>5, <1>8, <1>9 DEF Hidden

\* Whatever compaction took off the path was in the summary of some compaction
\* of that path, for any sequence of replies, compactions, navigations, failed
\* writes, reopenings and forks (compact, buildContextEntries), as long as the
\* compactions of the path are where they were cut and the entries at which
\* they began to keep can be found.
THEOREM DroppedIsSummarised == Spec => []DroppedWasSummarised
<1>1. Init => ChainInv /\ ToldInv
  BY NoEntries DEF Init, ChainInv, Chained, ToldInv, Told, KeptBefore, Accounted, JobTold, Of
<1>2. TypeOK /\ SavedInv /\ ChainInv /\ ToldInv /\ TypeOK' /\ [Next]_vars
        => ChainInv' /\ ToldInv'
  BY ChainKept, ToldKept
<1>3. TypeOK /\ ChainInv /\ ToldInv => DroppedWasSummarised
  <2> SUFFICES ASSUME TypeOK, ChainInv, ToldInv, Anchored,
                      NEW i \in Of(mem, Here, Spoken), i \notin Shows
               PROVE  i \in Tells(mem, Of(mem, Here, Compaction))
    BY DEF DroppedWasSummarised
  <2>1. Typed(mem) /\ Chained(mem) /\ Told(mem)
    BY MapsTyped DEF ChainInv, ToldInv
  <2>2. Here \subseteq DOMAIN mem /\ Here \subseteq Nat
    BY <2>1, PathUp DEF Here, Typed
  <2>3. PICK c \in Compacted(mem, Here) :
           ~(i >= c \/ (mem[c].ref \in Here /\ i >= mem[c].ref))
    BY DEF Shows, Shown, Of
  <2>4. c \in Of(mem, Here, Compaction)
    BY DEF Compacted, Newest
  <2>5. c \in Here /\ i \in Here /\ c \in Nat /\ i \in Nat /\ mem[c].ref \in Nat
    BY <2>1, <2>2, <2>4, UpNat DEF Of
  <2>6. i <= c /\ (mem[c].ref \in Here => i < mem[c].ref)
    BY <2>3, <2>5
  <2>7. Hidden(mem, Here, i)
    BY <2>4, <2>6 DEF Hidden
  <2>8. \E k \in Of(mem, Here, Compaction) : i \in mem[k].sum
    BY <2>1, <2>7, HiddenIsTold DEF Here, Anchored
  <2> QED BY <2>8 DEF Tells
<1>4. Spec => []TypeOK /\ []SavedInv
  BY TypeCorrect, SavedHolds, PTL
<1> QED BY <1>1, <1>2, <1>3, <1>4, PTL DEF Spec

---------------------------------------------------------------------------
(* Tool results and their calls                                             *)

\* No parent is missing.
Whole(m) == \A i \in DOMAIN m : m[i].up \subseteq DOMAIN m

\* Only metadata comes between a call and its result.
Between(U, c, t) == {j \in U : c < j /\ j < t}
AfterCall(m) ==
    \A t \in Of(m, DOMAIN m, {"tool"}) :
        \E c \in Of(m, m[t].up, {"call"}) :
            c < t /\ \A j \in Between(m[t].up, c, t) : m[j].type \in Meta

\* Of the entries U, those from f on hold a call before each tool result.
CutOK(m, U, f) ==
    \A t \in Of(m, U, {"tool"}) :
        f <= t => \E c \in Of(m, U, {"call"}) : f <= c /\ c < t
CutsOK(m) == \A c \in Of(m, DOMAIN m, {"compaction"}) : CutOK(m, m[c].up, m[c].ref)

Paired(m) == Whole(m) /\ AfterCall(m) /\ CutsOK(m)

\* The summary being written cuts its path well, at or before a message that
\* is no tool result.
JobCut(m, c) ==
    /\ c.of \subseteq DOMAIN m /\ CutOK(m, c.of, c.first)
    /\ \E k \in c.of : c.first <= k /\ m[k].type \notin Meta

\* As long as no write failed.
PairedInv == faults = 0 => Paired(mem) /\ \A c \in job : JobCut(mem, c)

\* With every parent there, the path is what the parent ids chain.
LEMMA WholePath ==
    ASSUME NEW m, Whole(m), NEW l \in DOMAIN m PROVE Path(m, l) = m[l].up
  BY DEF Whole, Path

LEMMA PairedGrown ==
    ASSUME NEW m, NEW g, NEW p, NEW e, NEW x,
           Typed(g), Chained(g), Paired(g), Grown(m, g, p, e, x),
           x.type = "tool" =>
              \E c \in Of(g, Path(g, p), {"call"}) :
                 \A j \in Path(g, p) : c < j => g[j].type \in Meta,
           x.type = "compaction" => CutOK(g, Path(g, p), x.ref)
    PROVE  Paired(m)
<1> DEFINE P == Path(g, p)
<1>1. /\ e \in Nat /\ e \notin DOMAIN g /\ DOMAIN m = DOMAIN g \cup {e} /\ m[e] = x
      /\ \A i \in DOMAIN g : m[i] = g[i] /\ i < e /\ g[i].up \subseteq DOMAIN g
  BY DEF Grown, Typed, Paired, Whole
<1>2. x.up = P \cup {e} /\ P \subseteq DOMAIN g
  <2>1. CASE p \in DOMAIN g
    BY <1>1, <2>1, WholePath DEF Grown, Paired
  <2>2. CASE p \notin DOMAIN g
    BY <2>2 DEF Grown, Path
  <2> QED BY <2>1, <2>2
<1> HIDE DEF P
<1>3. Whole(m)
  BY <1>1, <1>2 DEF Whole
<1>4. ASSUME NEW t \in Of(m, DOMAIN m, {"tool"})
      PROVE  \E c \in Of(m, m[t].up, {"call"}) :
                c < t /\ \A j \in Between(m[t].up, c, t) : m[j].type \in Meta
  <2>1. CASE t = e
    <3>1. PICK c \in Of(g, P, {"call"}) : \A j \in P : c < j => g[j].type \in Meta
      BY <1>1, <1>4, <2>1 DEF Of, P
    <3>2. c \in P /\ c \in DOMAIN g /\ c < e /\ c \in Of(m, m[e].up, {"call"})
      BY <1>1, <1>2, <3>1 DEF Of
    <3>3. \A j \in m[e].up : c < j /\ j < e => m[j].type \in Meta
      BY <1>1, <1>2, <3>1
    <3> QED BY <2>1, <3>2, <3>3 DEF Between
  <2>2. CASE t # e
    <3>1. t \in DOMAIN g /\ m[t] = g[t] /\ t \in Of(g, DOMAIN g, {"tool"})
      BY <1>1, <2>2 DEF Of
    <3>2. PICK c \in Of(g, g[t].up, {"call"}) :
             c < t /\ \A j \in Between(g[t].up, c, t) : g[j].type \in Meta
      BY <3>1 DEF Paired, AfterCall
    <3>3. g[t].up \subseteq DOMAIN g
      BY <1>1, <3>1
    <3> QED BY <1>1, <3>1, <3>2, <3>3 DEF Of, Between
  <2> QED BY <2>1, <2>2
<1>5. ASSUME NEW U, U \subseteq DOMAIN g, NEW f, CutOK(g, U, f)
      PROVE  CutOK(m, U, f)
  BY <1>1, <1>5 DEF CutOK, Of
<1>6. ASSUME NEW c \in Of(m, DOMAIN m, {"compaction"})
      PROVE  CutOK(m, m[c].up, m[c].ref)
  <2>1. CASE c = e
    <3>1. x.type = "compaction" /\ CutOK(g, P, x.ref)
      BY <1>1, <1>6, <2>1 DEF Of, P
    <3>2. CutOK(m, P, x.ref)
      BY <1>2, <1>5, <3>1
    <3>3. Of(m, P \cup {e}, {"tool"}) \subseteq Of(m, P, {"tool"})
      BY <1>1, <3>1 DEF Of
    <3> QED BY <1>1, <1>2, <2>1, <3>2, <3>3 DEF CutOK, Of
  <2>2. CASE c # e
    <3>1. c \in DOMAIN g /\ m[c] = g[c] /\ c \in Of(g, DOMAIN g, {"compaction"})
      BY <1>1, <2>2 DEF Of
    <3>2. CutOK(g, g[c].up, g[c].ref)
      BY <3>1 DEF Paired, CutsOK
    <3> QED BY <1>1, <1>5, <3>1, <3>2
  <2> QED BY <2>1, <2>2
<1> QED BY <1>3, <1>4, <1>6 DEF Paired, AfterCall, CutsOK

LEMMA PairedFork ==
    ASSUME NEW m, NEW f, NEW l, NEW keep, NEW n, NEW end, NEW to,
           Typed(m), Typed(f), Chained(f), Paired(f), Forked(m, f, keep, n, end, to),
           keep \subseteq Path(f, l),
           \A j \in Path(f, l) \ keep : f[j].type \in {"label", "unlabel"}
    PROVE  Paired(m)
<1>1. /\ n \in Nat /\ end \in Nat /\ keep \subseteq 1..n /\ keep \subseteq DOMAIN f
      /\ DOMAIN m = keep \cup ((n + 1)..end)
      /\ \A i \in keep : /\ m[i].type = f[i].type /\ m[i].ref = f[i].ref
                         /\ m[i].up = f[i].up \cap keep
      /\ \A i \in (n + 1)..end : m[i].type = "label" /\ m[i].up = keep \cup ((n + 1)..i)
  BY DEF Forked
<1>2. \A i \in keep : f[i].up \subseteq Path(f, l)
  <2> SUFFICES ASSUME NEW i \in keep PROVE f[i].up \subseteq Path(f, l)
    OBVIOUS
  <2>1. Path(f, i) = {j \in Path(f, l) : j <= i} /\ i \in DOMAIN f
    BY <1>1, PathUp
  <2> QED BY <2>1, WholePath DEF Paired
<1>3. \A i \in keep : Of(f, f[i].up, {"call"}) = Of(m, m[i].up, {"call"})
  <2> SUFFICES ASSUME NEW i \in keep
               PROVE  Of(f, f[i].up, {"call"}) = Of(m, m[i].up, {"call"})
    OBVIOUS
  <2>1. \A j \in f[i].up : f[j].type = "call" => j \in keep
    BY <1>2
  <2>2. m[i].up = f[i].up \cap keep /\ \A j \in keep : m[j].type = f[j].type
    BY <1>1
  <2> QED BY <2>1, <2>2 DEF Of
<1>4. \A i \in keep : Of(m, m[i].up, {"tool"}) \subseteq Of(f, f[i].up, {"tool"})
  <2> SUFFICES ASSUME NEW i \in keep
               PROVE  Of(m, m[i].up, {"tool"}) \subseteq Of(f, f[i].up, {"tool"})
    OBVIOUS
  <2>1. m[i].up = f[i].up \cap keep /\ \A j \in keep : m[j].type = f[j].type
    BY <1>1
  <2> QED BY <2>1 DEF Of
<1>5. Whole(m)
  <2> SUFFICES ASSUME NEW i \in DOMAIN m PROVE m[i].up \subseteq DOMAIN m
    BY DEF Whole
  <2>1. CASE i \in keep
    BY <1>1, <2>1
  <2>2. CASE i \in (n + 1)..end
    <3>1. (n + 1)..i \subseteq (n + 1)..end
      BY <1>1, <2>2
    <3> QED BY <1>1, <2>2, <3>1
  <2> QED BY <1>1, <2>1, <2>2
<1>6. ASSUME NEW t \in Of(m, DOMAIN m, {"tool"})
      PROVE  \E c \in Of(m, m[t].up, {"call"}) :
                c < t /\ \A j \in Between(m[t].up, c, t) : m[j].type \in Meta
  <2>1. t \in keep /\ t \in Of(f, DOMAIN f, {"tool"})
    BY <1>1 DEF Of
  <2>2. PICK c \in Of(f, f[t].up, {"call"}) :
           c < t /\ \A j \in Between(f[t].up, c, t) : f[j].type \in Meta
    BY <2>1 DEF Paired, AfterCall
  <2>3. c \in Of(m, m[t].up, {"call"})
    BY <1>3, <2>1
  <2>4. \A j \in m[t].up : j \in f[t].up /\ m[j].type = f[j].type
    <3>1. m[t].up = f[t].up \cap keep /\ \A j \in keep : m[j].type = f[j].type
      BY <1>1, <2>1
    <3> QED BY <3>1
  <2> QED BY <2>2, <2>3, <2>4 DEF Between
<1>7. ASSUME NEW c \in Of(m, DOMAIN m, {"compaction"})
      PROVE  CutOK(m, m[c].up, m[c].ref)
  <2>1. c \in keep /\ c \in Of(f, DOMAIN f, {"compaction"}) /\ m[c].ref = f[c].ref
    BY <1>1 DEF Of
  <2>2. CutOK(f, f[c].up, f[c].ref)
    BY <2>1 DEF Paired, CutsOK
  <2> QED BY <1>3, <1>4, <2>1, <2>2 DEF CutOK
<1> QED BY <1>5, <1>6, <1>7 DEF Paired, AfterCall, CutsOK

\* The file that has every line is as good as the memory.
LEMMA PairedPart ==
    ASSUME NEW m, Paired(m), NEW f, PartOf(f, m), DOMAIN m \subseteq DOMAIN f
    PROVE  Paired(f)
<1>1. DOMAIN f = DOMAIN m /\ \A i \in DOMAIN m : f[i] = m[i] /\ m[i].up \subseteq DOMAIN m
  BY DEF PartOf, Paired, Whole
<1>2. /\ \A T : \A i \in DOMAIN m : Of(f, f[i].up, T) = Of(m, m[i].up, T)
      /\ \A T : Of(f, DOMAIN f, T) = Of(m, DOMAIN m, T)
  BY <1>1 DEF Of
<1>3. Whole(f)
  BY <1>1 DEF Whole
<1>4. AfterCall(f)
  <2> SUFFICES ASSUME NEW t \in Of(m, DOMAIN m, {"tool"})
               PROVE  \E c \in Of(m, m[t].up, {"call"}) :
                         c < t /\ \A j \in Between(m[t].up, c, t) : f[j].type \in Meta
    BY <1>1, <1>2 DEF AfterCall, Of
  <2>1. t \in DOMAIN m
    BY DEF Of
  <2>2. PICK c \in Of(m, m[t].up, {"call"}) :
           c < t /\ \A j \in Between(m[t].up, c, t) : m[j].type \in Meta
    BY DEF Paired, AfterCall
  <2> QED BY <1>1, <2>1, <2>2 DEF Between
<1>5. CutsOK(f)
  <2> SUFFICES ASSUME NEW c \in Of(m, DOMAIN m, {"compaction"})
               PROVE  CutOK(f, m[c].up, m[c].ref)
    BY <1>1, <1>2 DEF CutsOK, Of
  <2>1. c \in DOMAIN m /\ CutOK(m, m[c].up, m[c].ref)
    BY DEF Paired, CutsOK, Of
  <2>2. \A T : Of(f, m[c].up, T) = Of(m, m[c].up, T)
    BY <1>1, <1>2, <2>1
  <2> QED BY <2>1, <2>2 DEF CutOK
<1> QED BY <1>3, <1>4, <1>5 DEF Paired

\* findValidCutPoints and the walk back over metadata: a cut does not come
\* between a call and its results.
LEMMA CutStarts ==
    ASSUME TypeOK, ChainInv, Paired(mem), BeginCompaction
    PROVE  \A c \in job' : JobCut(mem, c)
<1> DEFINE P == Path(mem, leaf)
           R == Boundary(P)
<1>1. PICK k \in CutPoints(R) : \E f \in Oldest(Reach(R, k)) :
         Dropped(R, f) # {} /\ job' = {CompactionOf(P, R, f)}
  BY DEF BeginCompaction
<1>2. PICK f \in Oldest(Reach(R, k)) : job' = {CompactionOf(P, R, f)}
  BY <1>1
<1>3. /\ Typed(mem) /\ Chained(mem) /\ P \subseteq DOMAIN mem /\ P \subseteq Nat
      /\ \A t \in P : mem[t].up = {j \in P : j <= t} /\ mem[t].ref \in Nat
  <2>1. Typed(mem) /\ Chained(mem)
    BY MapsTyped DEF ChainInv
  <2>2. P \subseteq DOMAIN mem /\ P \subseteq Nat
    BY <2>1, PathUp DEF Typed
  <2>3. \A t \in P : leaf \in DOMAIN mem /\ mem[t].up = {j \in mem[leaf].up : j <= t}
    BY <2>1, PathUp
  <2>4. leaf \in DOMAIN mem => P = mem[leaf].up
    BY WholePath DEF Paired
  <2> QED BY <2>1, <2>2, <2>3, <2>4, UpNat
<1>4. /\ f \in R /\ f \in P /\ k \in R /\ k \in P /\ f <= k
      /\ \A j \in R : f <= j /\ j < k => mem[j].type \in Meta
      /\ mem[k].type \in {"user", "call", "answer", "summary"}
  BY <1>2 DEF Oldest, Reach, Boundary, CutPoints, Of
<1>5. \A i \in P : i >= f => i \in R
  <2> SUFFICES ASSUME NEW i \in P, i >= f PROVE i \in R
    OBVIOUS
  <2>1. \A c \in Compacted(mem, P) :
           LET b == IF mem[c].ref \in P THEN mem[c].ref ELSE c + 1
           IN  f >= b /\ b \in Nat
    <3>1. \A c \in Compacted(mem, P) : c \in P /\ c \in Nat /\ mem[c].ref \in Nat
      BY <1>3 DEF Compacted, Newest, Of
    <3> QED BY <1>4, <3>1 DEF Boundary
  <2>2. f \in Nat /\ i \in Nat
    BY <1>3, <1>4
  <2> QED BY <2>1, <2>2 DEF Boundary
<1>6. ASSUME NEW t \in Of(mem, P, {"tool"}), f <= t
      PROVE  \E c \in Of(mem, P, {"call"}) : f <= c /\ c < t
  <2>1. t \in P /\ t \in Of(mem, DOMAIN mem, {"tool"}) /\ mem[t].type = "tool"
    BY <1>3 DEF Of
  <2>2. PICK c \in Of(mem, mem[t].up, {"call"}) :
           c < t /\ \A j \in Between(mem[t].up, c, t) : mem[j].type \in Meta
    BY <2>1 DEF Paired, AfterCall
  <2>3. c \in P /\ c \in Of(mem, P, {"call"})
    BY <1>3, <2>1, <2>2 DEF Of
  <2>4. c \in Nat /\ t \in Nat /\ f \in Nat /\ k \in Nat
    BY <1>3, <1>4, <2>1, <2>3
  <2>5. \A j \in P : c < j /\ j < t => mem[j].type \in Meta
    <3> SUFFICES ASSUME NEW j \in P, c < j, j < t PROVE mem[j].type \in Meta
      OBVIOUS
    <3>1. j \in mem[t].up
      BY <1>3, <2>1, <2>4
    <3> QED BY <2>2, <3>1 DEF Between
  <2>6. k # t
    BY <1>4, <2>1
  <2>7. ~(t < k)
    <3> SUFFICES ASSUME t < k PROVE FALSE
      OBVIOUS
    <3>1. t \in R
      BY <1>5, <1>6, <2>1, <2>4
    <3>2. mem[t].type \in Meta
      BY <1>4, <1>6, <3>1
    <3> QED BY <2>1, <3>2 DEF Meta
  <2>8. ~(c < f)
    <3> SUFFICES ASSUME c < f PROVE FALSE
      OBVIOUS
    <3>1. c < k /\ k < t
      BY <1>4, <2>4, <2>6, <2>7
    <3>2. mem[k].type \in Meta
      BY <1>4, <2>5, <3>1
    <3> QED BY <1>4, <3>2 DEF Meta
  <2> QED BY <2>2, <2>3, <2>4, <2>8
<1>7. \A c \in job' : c.first = f /\ c.of = P
  BY <1>2 DEF CompactionOf
<1>8. k \in P /\ f <= k /\ mem[k].type \notin Meta
  BY <1>4 DEF Meta
<1> HIDE DEF P, R
<1> QED BY <1>3, <1>6, <1>7, <1>8 DEF CutOK, JobCut

\* An append leaves the path it is of as it was.
LEMMA CutWaits ==
    ASSUME TypeOK, NEW p, NEW type, NEW ref, NEW sum,
           AppendBelow(p, type, ref, sum), NEW c, JobCut(mem, c)
    PROVE  JobCut(mem', c)
<1>1. PICK x : Grown(mem', mem, p, next + 1, x)
  BY AppendShape
<1>2. /\ c.of \subseteq DOMAIN mem' /\ c.of \subseteq DOMAIN mem
      /\ \A i \in c.of : mem'[i] = mem[i]
  BY <1>1 DEF Grown, JobCut
<1>3. \A T : Of(mem', c.of, T) = Of(mem, c.of, T)
  BY <1>2 DEF Of
<1> QED BY <1>2, <1>3 DEF JobCut, CutOK

\* Saved where it was cut, it cuts the longer path well: what has come since
\* comes after the message it was cut at, and so do the calls of its results.
LEMMA CutLands ==
    ASSUME TypeOK, ChainInv, Paired(mem), JobTold, NEW c \in job, JobCut(mem, c),
           c.of \subseteq Here
    PROVE  CutOK(mem, Here, c.first)
<1>1. PICK l \in DOMAIN mem : c.of = Path(mem, l)
  BY DEF JobTold
<1>2. l \in Here /\ c.of = {j \in Here : j <= l}
  BY <1>1, PathInPlace, MapsTyped DEF ChainInv, Here
<1>3. /\ Here \subseteq DOMAIN mem /\ Here \subseteq Nat /\ l \in Nat
      /\ \A t \in Here : mem[t].up = {j \in Here : j <= t}
  <2>1. /\ Here \subseteq DOMAIN mem /\ Typed(mem) /\ leaf \in DOMAIN mem
        /\ \A t \in Here : mem[t].up = {j \in mem[leaf].up : j <= t}
    BY <1>2, PathUp, MapsTyped DEF ChainInv, Here, Path
  <2>2. Here = mem[leaf].up
    BY <2>1, WholePath DEF Here, Paired
  <2> QED BY <1>2, <2>1, <2>2 DEF Typed
<1>4. PICK k \in c.of : c.first <= k /\ mem[k].type \notin Meta
  BY DEF JobCut
<1>5. k \in Here /\ k \in Nat /\ k <= l /\ c.first \in Nat
  BY <1>2, <1>3, <1>4 DEF JobTold
<1> SUFFICES ASSUME NEW t \in Of(mem, Here, {"tool"}), c.first <= t
             PROVE  \E d \in Of(mem, Here, {"call"}) : c.first <= d /\ d < t
  BY DEF CutOK
<1>6. t \in Here /\ t \in Nat /\ t \in Of(mem, DOMAIN mem, {"tool"})
  BY <1>3 DEF Of
<1>7. CASE t <= l
  <2>1. t \in Of(mem, c.of, {"tool"})
    BY <1>2, <1>6, <1>7 DEF Of
  <2>2. PICK d \in Of(mem, c.of, {"call"}) : c.first <= d /\ d < t
    BY <2>1 DEF JobCut, CutOK
  <2>3. d \in Of(mem, Here, {"call"})
    BY <1>2 DEF Of
  <2> QED BY <2>2, <2>3
<1>8. CASE l < t
  <2>1. PICK d \in Of(mem, mem[t].up, {"call"}) :
           d < t /\ \A j \in Between(mem[t].up, d, t) : mem[j].type \in Meta
    BY <1>6 DEF Paired, AfterCall
  <2>2. d \in Here /\ d \in Nat /\ d \in Of(mem, Here, {"call"})
    BY <1>3, <1>6 DEF Of
  <2>3. k \in mem[t].up /\ k < t
    BY <1>3, <1>5, <1>6, <1>8
  <2>4. ~(d < k)
    BY <1>4, <2>1, <2>3 DEF Between
  <2> QED BY <1>4, <1>5, <2>1, <2>2, <2>4
<1> QED BY <1>3, <1>6, <1>7, <1>8

\* Without a failure the file that is there has every line.
LEMMA FileWhole ==
    ASSUME TypeOK, SavedInv, faults = 0, disk = "file"
    PROVE  PartOf(file, mem) /\ DOMAIN mem \subseteq DOMAIN file
<1>1. flushed /\ PartOf(file, mem) /\ Cardinality(Lost) + (IF torn THEN 1 ELSE 0) <= 0
  BY DEF SavedInv, PartOf
<1>2. IsFiniteSet(Lost) /\ Cardinality(Lost) \in Nat
  <2>1. next \in Nat /\ Lost \subseteq 1..next
    BY DEF TypeOK, TreeOK, Lost
  <2> QED BY <2>1, CountedIds
<1>3. Cardinality(Lost) = 0
  BY <1>1, <1>2
<1>4. Lost = {}
  BY <1>2, <1>3, FS_EmptySet
<1> QED BY <1>1, <1>4 DEF Lost

\* Nothing takes a failure back.
LEMMA FaultsGrow == ASSUME TypeOK, [Next]_vars, faults' = 0 PROVE faults = 0
<1>1. faults \in Nat
  BY DEF TypeOK, TreeOK
<1>2. CASE UNCHANGED faults
  BY <1>2
<1>3. ASSUME NEW p, NEW type, NEW ref, NEW sum, AppendBelow(p, type, ref, sum)
      PROVE  faults = 0
  <2>1. PICK m, e : Persist(m, e)
    BY <1>3 DEF AppendBelow
  <2>2. faults' = faults \/ faults' = faults + 1
    BY <2>1 DEF Persist, WriteLine, TearLine, WriteAll, Fault, store
  <2> QED BY <1>1, <2>2
<1>4. CASE Talk
  <2>1. RunEnds => UNCHANGED faults
    BY DEF RunEnds, store
  <2> QED BY <1>2, <1>3, <1>4, <2>1
       DEF Talk, Prompt, Note, Reply, ToolResult, Mark, Append
<1>5. CASE Summaries
  <2>1. BeginCompaction \/ CancelSummary => UNCHANGED faults
    BY DEF BeginCompaction, CancelSummary, store
  <2>2. \A t \in Ids : Navigate(t) \/ BeginTrip(t) => UNCHANGED faults
    BY DEF Navigate, BeginTrip, store
  <2>3. SaveCompaction \/ SaveTrip => faults = 0
    BY <1>3 DEF SaveCompaction, SaveTrip, Append
  <2> QED BY <1>2, <1>5, <2>1, <2>2, <2>3 DEF Summaries
<1>6. CASE Sessions
  <2>1. UNCHANGED faults
    BY <1>6 DEF Sessions, NewSession, Reopen, ForkFrom, Fork
  <2> QED BY <1>2, <2>1
<1> QED BY <1>2, <1>4, <1>5, <1>6 DEF Next, vars, store

\* The invariant of calls and results.
LEMMA PairedKept ==
    ASSUME TypeOK, SavedInv, ChainInv, ToldInv, PairedInv, TypeOK', [Next]_vars
    PROVE  PairedInv'
<1> SUFFICES ASSUME faults' = 0
             PROVE  Paired(mem') /\ \A c \in job' : JobCut(mem', c)
  BY DEF PairedInv
<1>1. /\ faults = 0 /\ Paired(mem) /\ \A c \in job : JobCut(mem, c)
      /\ Typed(mem) /\ Typed(file) /\ Typed(mem')
  BY FaultsGrow, MapsTyped DEF PairedInv, TypeOK, TreeOK, Typed
<1>2. disk = "file" => Paired(file)
  BY <1>1, FileWhole, PairedPart
<1>3. ASSUME NEW p, NEW type, NEW ref, NEW sum, AppendBelow(p, type, ref, sum),
             type = "tool" =>
               \E c \in Of(mem, Path(mem, p), {"call"}) :
                  \A j \in Path(mem, p) : c < j => mem[j].type \in Meta,
             type = "compaction" => CutOK(mem, Path(mem, p), ref)
      PROVE  Paired(mem')
  <2>1. PICK x : /\ x.type = type /\ x.ref = ref /\ x.sum = sum
                 /\ Grown(mem', mem, p, next + 1, x)
    BY <1>3, AppendShape
  <2> QED BY <1>1, <1>3, <2>1, PairedGrown DEF ChainInv
<1>4. ToolResult => Paired(mem')
  <2> SUFFICES ASSUME ToolResult PROVE Paired(mem')
    OBVIOUS
  <2>1. PICK c \in Last : mem[c].type = "call"
    BY DEF ToolResult, LastIs
  <2>2. /\ c \in Of(mem, Path(mem, leaf), {"call"})
        /\ \A j \in Path(mem, leaf) : j <= c \/ mem[j].type \in Meta
    BY <2>1 DEF Last, Newest, Of
  <2>3. Path(mem, leaf) \subseteq Nat
    BY <1>1, PathUp DEF ChainInv, Typed
  <2>4. \A j \in Path(mem, leaf) : c < j => mem[j].type \in Meta
    BY <2>2, <2>3 DEF Of
  <2> QED BY <1>3, <2>2, <2>4 DEF ToolResult, Append
<1>5. SaveCompaction => Paired(mem')
  <2> SUFFICES ASSUME NEW c \in job, Append(Kind(c), c.first, c.sum)
               PROVE  Paired(mem')
    BY DEF SaveCompaction
  <2>1. Kind(c) = "compaction" => CutOK(mem, Path(mem, leaf), c.first)
    BY <1>1, CutLands DEF ToldInv, Here, Kind
  <2>2. Kind(c) # "tool"
    BY DEF Kind
  <2> QED BY <1>3, <2>1, <2>2 DEF Append
<1>6. ASSUME NEW l \in Ids, Fork(l) PROVE Paired(mem')
  <2>1. PICK to : Forked(mem', file, Branched(l), next, next', to)
    BY <1>6, ForkShape
  <2>2. /\ Branched(l) \subseteq Path(file, l)
        /\ \A j \in Path(file, l) \ Branched(l) : file[j].type \in {"label", "unlabel"}
    BY <1>6, ForkShape DEF Branched, Of
  <2>3. disk = "file"
    BY <1>6 DEF Fork
  <2> QED BY <1>1, <1>2, <2>1, <2>2, <2>3, PairedFork DEF ChainInv
<1>7. Paired(Empty)
  BY NoEntries DEF Paired, Whole, AfterCall, CutsOK, Of
<1>8. Paired(mem')
  <2>1. UNCHANGED <<mem, file>> => Paired(mem')
    BY <1>1
  <2>2. UNCHANGED vars => UNCHANGED <<mem, file>>
    BY DEF vars, view, store
  <2>3. ASSUME NEW p, NEW type, NEW ref, NEW sum, type \notin Compaction \cup {"tool"},
               AppendBelow(p, type, ref, sum)
        PROVE  Paired(mem')
    BY <1>3, <2>3 DEF Compaction
  <2> QED BY <1>2, <1>4, <1>5, <1>6, <1>7, <2>1, <2>2, <2>3, StepShapes
<1>9. \A c \in job' : JobCut(mem', c)
  <2>1. CASE job' = {}
    BY <2>1
  <2>2. CASE UNCHANGED <<mem, job>>
    BY <1>1, <2>2
  <2>3. CASE BeginCompaction
    <3>1. mem' = mem
      BY <2>3 DEF BeginCompaction, view
    <3> QED BY <1>1, <2>3, <3>1, CutStarts
  <2>4. CASE \E p, type, ref, sum : AppendBelow(p, type, ref, sum) /\ job' = job
    BY <1>1, <2>4, CutWaits
  <2> QED BY <2>1, <2>2, <2>3, <2>4, JobShapes
<1> QED BY <1>8, <1>9

\* When every write succeeds and the last compaction of the path is where it was
\* cut, the model gets each tool result of the path with the call it answers
\* (findCutPoint, findValidCutPoints), through any replies, compactions,
\* navigations, crashes, reopenings and forks.
THEOREM ToolResultsAnswerCalls == Spec => []ToolResultsFollowCalls
<1>1. Init => ChainInv /\ ToldInv /\ PairedInv
  <2>1. Init => ChainInv /\ ToldInv
    BY NoEntries DEF Init, ChainInv, Chained, ToldInv, Told, KeptBefore, Accounted,
                     JobTold, Of
  <2>2. Init => PairedInv
    BY NoEntries DEF Init, PairedInv, Paired, Whole, AfterCall, CutsOK, Of
  <2> QED BY <2>1, <2>2
<1>2. TypeOK /\ SavedInv /\ ChainInv /\ ToldInv /\ PairedInv /\ TypeOK' /\ [Next]_vars
        => ChainInv' /\ ToldInv' /\ PairedInv'
  BY ChainKept, ToldKept, PairedKept
<1>3. TypeOK /\ ChainInv /\ ToldInv /\ PairedInv => ToolResultsFollowCalls
  <2> SUFFICES ASSUME TypeOK, ChainInv, ToldInv, PairedInv, faults = 0,
                      Of(mem, Compacted(mem, Here), {"stray"}) = {},
                      NEW t \in Of(mem, Shows, {"tool"})
               PROVE  Calls(mem, t) # {} /\ Calls(mem, t) \subseteq Shows
    BY DEF ToolResultsFollowCalls
  <2>1. Typed(mem) /\ Chained(mem) /\ Paired(mem)
    BY MapsTyped DEF ChainInv, PairedInv
  <2>2. t \in Here /\ mem[t].type = "tool"
    BY DEF Of, Shows, Shown
  <2>3. /\ Here \subseteq DOMAIN mem /\ Here \subseteq Nat
        /\ \A k \in Here : mem[k].up = {j \in Here : j <= k}
    <3>1. leaf \in DOMAIN mem
      BY <2>2 DEF Here, Path
    <3>2. Here = mem[leaf].up
      BY <2>1, <3>1, WholePath DEF Here, Paired
    <3>3. Here \subseteq DOMAIN mem /\ \A k \in Here : mem[k].up = {j \in mem[leaf].up : j <= k}
      BY <2>1, PathUp DEF Here
    <3> QED BY <2>1, <3>2, <3>3 DEF Typed
  <2>4. t \in Of(mem, DOMAIN mem, {"tool"})
    BY <2>2, <2>3 DEF Of
  <2>5. PICK c \in Of(mem, mem[t].up, {"call"}) :
           c < t /\ \A j \in Between(mem[t].up, c, t) : mem[j].type \in Meta
    BY <2>1, <2>4 DEF Paired, AfterCall
  <2>6. c \in Here /\ mem[c].type = "call" /\ c \in Nat /\ t \in Nat
    BY <2>2, <2>3, <2>5 DEF Of
  <2>7. \A j \in Here : c < j /\ j < t => mem[j].type \in Meta
    <3> SUFFICES ASSUME NEW j \in Here, c < j, j < t PROVE mem[j].type \in Meta
      OBVIOUS
    <3>1. j \in Nat /\ j <= t
      BY <2>3, <2>6
    <3>2. j \in mem[t].up
      BY <2>2, <2>3, <3>1
    <3>3. j \in Between(mem[t].up, c, t)
      BY <3>2 DEF Between
    <3> QED BY <2>5, <3>3
  <2>8. Calls(mem, t) = {c}
    <3> DEFINE S == {i \in mem[t].up : i < t} \cap Of(mem, DOMAIN mem, {"call"})
    <3>1. c \in S
      BY <2>2, <2>3, <2>5, <2>6 DEF Of
    <3>2. \A d \in S : d \in Nat /\ d <= c
      <4> SUFFICES ASSUME NEW d \in S PROVE d \in Nat /\ d <= c
        OBVIOUS
      <4>1. d \in Here /\ d \in Nat /\ d < t /\ mem[d].type = "call"
        BY <2>2, <2>3 DEF Of
      <4>2. ~(c < d)
        BY <2>7, <4>1 DEF Meta
      <4> QED BY <2>6, <4>1, <4>2
    <3> HIDE DEF S
    <3>3. c \in Newest(S)
      BY <3>1, <3>2 DEF Newest
    <3>4. ASSUME NEW d \in Newest(S) PROVE d = c
      <4>1. d \in S /\ c <= d
        BY <3>1 DEF Newest
      <4> QED BY <2>6, <3>2, <4>1
    <3>5. Newest(S) = {c}
      BY <3>3, <3>4
    <3> QED BY <3>5 DEF Calls, S
  <2>9. ASSUME NEW k \in Compacted(mem, Here)
        PROVE  c >= k \/ (mem[k].ref \in Here /\ c >= mem[k].ref)
    <3>1. k \in Here /\ k \in Nat /\ mem[k].type = "compaction" /\ mem[k].ref \in Nat
      BY <2>1, <2>3, UpNat DEF Compacted, Newest, Of, Compaction
    <3>2. t >= k \/ (mem[k].ref \in Here /\ t >= mem[k].ref)
      BY DEF Of, Shows, Shown
    <3>3. CASE t >= k
      <4>1. k < t
        BY <2>2, <2>6, <3>1, <3>3
      <4>2. ~(c < k)
        BY <2>7, <3>1, <4>1 DEF Meta
      <4> QED BY <2>6, <3>1, <4>2
    <3>4. CASE t < k /\ mem[k].ref \in Here /\ t >= mem[k].ref
      <4>1. CutOK(mem, mem[k].up, mem[k].ref)
        BY <2>1, <2>3, <3>1 DEF Paired, CutsOK, Of
      <4>2. t \in Of(mem, mem[k].up, {"tool"}) /\ mem[k].ref <= t
        BY <2>2, <2>3, <2>6, <3>1, <3>4 DEF Of
      <4>3. PICK d \in Of(mem, mem[k].up, {"call"}) : mem[k].ref <= d /\ d < t
        BY <4>1, <4>2 DEF CutOK
      <4>4. d \in Here /\ d \in Nat /\ mem[d].type = "call"
        BY <2>3, <3>1 DEF Of
      <4>5. ~(c < d)
        BY <2>7, <4>3, <4>4 DEF Meta
      <4> QED BY <2>6, <3>1, <3>4, <4>3, <4>4, <4>5
    <3> QED BY <2>6, <3>1, <3>2, <3>3, <3>4
  <2>10. c \in Shows
    BY <2>6, <2>9 DEF Shows, Shown
  <2> QED BY <2>8, <2>10
<1>4. Spec => []TypeOK /\ []SavedInv
  BY TypeCorrect, SavedHolds, PTL
<1> QED BY <1>1, <1>2, <1>3, <1>4, PTL DEF Spec
=============================================================================
