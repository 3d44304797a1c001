---------------------------- MODULE SessionTree ----------------------------
(***************************************************************************)
(* The session of the agent runtime: an append-only tree of entries with a  *)
(* leaf (session-manager.ts), its file, compaction of the path to the leaf  *)
(* (compaction.ts), navigation with and without a summary of the abandoned  *)
(* branch (agent-session.ts, branch-summarization.ts) and forks.            *)
(* Entries are numbered in the order of their creation, which is the order  *)
(* of the file; a text written by a model is the set of messages it was     *)
(* written from.  A step is what runs between two awaits.                   *)
(***************************************************************************)
EXTENDS Naturals, FiniteSets

CONSTANTS
    MaxEntries,   \* bound: entries created in one session file
    MaxMoves,     \* bound: navigations, reopenings and forks
    MaxFaults,    \* bound: writes that fail half way
    Occurring     \* types of the entries that occur, of Types

ASSUME ConstantsAssumption ==
    /\ MaxEntries \in Nat /\ MaxMoves \in Nat /\ MaxFaults \in Nat
    /\ Occurring \subseteq {"user", "call", "answer", "tool", "info", "label", "unlabel"}

VARIABLES
    mem,      \* byId: what the process holds, [ids -> Entry]
    leaf,     \* leafId, 0 for null
    next,     \* the entries created so far
    running,  \* _isAgentRunActive
    job,      \* {} or the one compaction whose summary is being written, and
              \* the path it is written of
    trip,     \* {} or the one navigation whose summary is being written
    disk,     \* "none", "file", or "bad" for a file whose header is torn
    file,     \* what a load of the file gives, [ids -> Entry]
    flushed,  \* the file holds what fileEntries holds
    torn,     \* the file ends in the middle of a line
    faults,   \* writes that failed
    moves     \* what MaxMoves bounds

view == <<mem, leaf, next>>
store == <<disk, file, flushed, torn, faults>>
vars == <<view, running, job, trip, store, moves>>

Ids == 1..MaxEntries
\* "user" stands for every message that starts a turn, of the user or of an
\* extension; "call" is a reply that calls a tool, "answer" one that does not;
\* "summary" is a branch summary.  "stray" is a compaction that was saved on another
\* branch than it was written for: the code tells it from no other, the properties do.
Spoken == {"user", "call", "answer", "tool"}
Meta == {"info", "label", "unlabel"}
Compaction == {"compaction", "stray"}
Types == Spoken \cup Meta \cup Compaction \cup {"summary"}

\* up: the ids from the root to the entry, which the parent ids chain;
\* ref: the target of a label or firstKeptEntryId; sum: what a summary tells.
Entry == [type : Types, up : SUBSET Ids, ref : 0..MaxEntries, sum : SUBSET Ids]

Empty == [i \in {} |-> 0]

Init ==
    /\ mem = Empty /\ leaf = 0 /\ next = 0
    /\ running = FALSE /\ job = {} /\ trip = {}
    /\ disk = "none" /\ file = Empty /\ flushed = FALSE
    /\ torn = FALSE /\ faults = 0 /\ moves = 0

---------------------------------------------------------------------------
(* Reading the tree                                                         *)

Of(m, S, T) == {i \in S : m[i].type \in T}
Newest(S) == {i \in S : \A j \in S : j <= i}    \* at most one
Oldest(S) == {i \in S : \A j \in S : i <= j}

\* buildSessionPath and getBranch: an entry that is missing ends the walk.
Path(m, l) ==
    IF l \notin DOMAIN m THEN {}
    ELSE {i \in m[l].up : \A j \in m[l].up : j >= i => j \in DOMAIN m}

\* The last compaction of a path, and buildContextEntries.
Compacted(m, P) == Newest(Of(m, P, Compaction))
Shown(m, P) ==
    {i \in P : \A c \in Compacted(m, P) :
        i >= c \/ (m[c].ref \in P /\ i >= m[c].ref)}

\* What the text of some entries tells: the messages, and what summaries tell.
Tells(m, S) == Of(m, S, Spoken) \cup UNION {m[i].sum : i \in S}

Calls(m, t) == Newest({i \in m[t].up : i < t} \cap Of(m, DOMAIN m, {"call"}))
HasAssistant(m) == Of(m, DOMAIN m, {"call", "answer"}) # {}
\* labelsById: the entries whose last label was not a removal.
Labelled(m) ==
    {t \in DOMAIN m :
        \E l \in Newest({j \in Of(m, DOMAIN m, {"label", "unlabel"}) : m[j].ref = t}) :
            m[l].type = "label"}

---------------------------------------------------------------------------
(* Writing: _appendEntry and _persist                                       *)

Put(m, e, x) == [i \in DOMAIN m \cup {e} |-> IF i = e THEN x ELSE m[i]]

\* The line is glued to a torn one: neither can be read.
WriteLine(m, e) ==
    /\ torn' = FALSE /\ UNCHANGED <<disk, flushed, faults>>
    /\ file' = IF torn THEN file ELSE Put(file, e, m[e])

\* The disk is full, or the machine stops, in the middle of a write.
Fault == faults < MaxFaults /\ faults' = faults + 1 /\ torn' = TRUE
TearLine == Fault /\ UNCHANGED <<disk, file, flushed>>

\* The first write of the whole session, which fails if the file is there.
WriteAll(m) ==
    \/ disk = "none" /\ disk' = "file" /\ file' = m /\ flushed' = TRUE
       /\ UNCHANGED <<torn, faults>>
    \/ /\ disk = "none" /\ Fault /\ UNCHANGED flushed
       /\ \/ disk' = "bad" /\ UNCHANGED file
          \/ \E i \in DOMAIN m :
                disk' = "file" /\ file' = [j \in {k \in DOMAIN m : k < i} |-> m[j]]
    \/ disk # "none" /\ UNCHANGED store

PersistLast(m, e) ==              \* the first write forgets what came before
    IF flushed THEN WriteLine(m, e) \/ TearLine
    ELSE IF HasAssistant(m)
         THEN /\ disk' = "file" /\ flushed' = TRUE /\ UNCHANGED <<torn, faults>>
              /\ file' = [i \in {e} |-> m[i]]
         ELSE UNCHANGED store

Persist(m, e) ==
    IF flushed THEN WriteLine(m, e) \/ TearLine
    ELSE IF HasAssistant(m) THEN WriteAll(m)
    ELSE UNCHANGED store

\* A new entry below p; the memory has it whatever becomes of the write.
AppendBelow(p, type, ref, sum) ==
    LET e == next + 1
        above == IF p \in DOMAIN mem THEN mem[p].up ELSE {}
        m == Put(mem, e, [type |-> type, up |-> above \cup {e},
                          ref |-> ref, sum |-> sum])
    IN  /\ next < MaxEntries
        /\ next' = e /\ leaf' = e /\ mem' = m /\ UNCHANGED moves
        /\ Persist(m, e)
Append(type, ref, sum) == AppendBelow(leaf, type, ref, sum)

---------------------------------------------------------------------------
(* The conversation                                                         *)

Last == Newest(Path(mem, leaf) \ Of(mem, Path(mem, leaf), Meta))
LastIs(T) == \E i \in Last : mem[i].type \in T
Busy == job # {} \/ trip # {}

\* prompt: while a summary is being written the text waits in the editor's
\* queue.  A message of an extension needs no run.
Prompt ==
    /\ ~running /\ ~Busy
    /\ Append("user", 0, {}) /\ running' = TRUE /\ UNCHANGED <<job, trip>>
Note ==
    /\ ~running
    /\ Append("user", 0, {}) /\ UNCHANGED <<running, job, trip>>

\* message_end of the agent's run.
Reply(type) ==
    /\ running /\ job = {} /\ ~LastIs({"call"}) /\ type \in Occurring
    /\ Append(type, 0, {}) /\ UNCHANGED <<running, job, trip>>
ToolResult ==
    /\ running /\ job = {} /\ LastIs({"call"})
    /\ Append("tool", 0, {}) /\ UNCHANGED <<running, job, trip>>
RunEnds ==
    /\ running /\ job = {} /\ ~LastIs({"call"})
    /\ running' = FALSE /\ UNCHANGED <<view, job, trip, store, moves>>

\* Model and thinking level changes, names and labels, at any time.
Mark(type, t) ==
    /\ type \in Occurring
    /\ t \in (IF type = "info" THEN {0} ELSE DOMAIN mem)
    /\ Append(type, t, {}) /\ UNCHANGED <<running, job, trip>>

---------------------------------------------------------------------------
(* Compaction                                                               *)

\* prepareCompaction: what is kept since the last compaction.
Boundary(P) ==
    {i \in P : \A c \in Compacted(mem, P) :
        i >= (IF mem[c].ref \in P THEN mem[c].ref ELSE c + 1)}

\* findCutPoint ends at message k, chosen by its tokens, and goes back over
\* the metadata before it.
Reach(R, k) ==
    {i \in R : i <= k /\ \A j \in R : (i <= j /\ j < k) => mem[j].type \in Meta}
CutAnywhere(R) == Of(mem, R, Spoken \cup {"summary"})     \* also at tool results
CutPoints(R) == Of(mem, R, {"user", "call", "answer", "summary"})
\* findTurnStartIndex: the turn that a cut at f splits, if it starts in R.
TurnStart(R, f) == Newest({i \in Of(mem, R, {"user", "summary"}) : i <= f})

\* compact: the history goes into the previous summary, the prefix of a split
\* turn gets a text of its own.
Dropped(R, f) == {i \in R : i < f} \ Of(mem, R, Meta \cup Compaction)
HistoryOnly(P, R, f) ==           \* the prefix of a split turn is not told
    LET history == {i \in Dropped(R, f) : \A t \in TurnStart(R, f) : i < t}
        previous == IF history = {} THEN {} ELSE Compacted(mem, P)
    IN  [first |-> f, sum |-> Tells(mem, history \cup previous), of |-> P]
CompactionOf(P, R, f) ==
    LET prefix == {i \in Dropped(R, f) : \E t \in TurnStart(R, f) : i >= t}
        history == Dropped(R, f) \ prefix
        previous == IF history = {} THEN {} ELSE Compacted(mem, P)
    IN  [first |-> f, sum |-> Tells(mem, history \cup prefix \cup previous), of |-> P]

BeginCompaction ==
    LET P == Path(mem, leaf)
        R == Boundary(P)
    IN  /\ job = {}
        /\ running => ~LastIs({"call"})
        /\ Newest(P) \cap Of(mem, P, Compaction) = {}
        /\ \E k \in CutPoints(R) : \E f \in Oldest(Reach(R, k)) :
              Dropped(R, f) # {} /\ job' = {CompactionOf(P, R, f)}
        /\ UNCHANGED <<view, running, trip, store, moves>>

\* It is saved below the leaf, wherever the user has moved it meanwhile.
Kind(c) == IF c.of \subseteq Path(mem, leaf) THEN "compaction" ELSE "stray"
SaveCompaction ==
    \E c \in job :
        /\ Append(Kind(c), c.first, c.sum)
        /\ job' = {} /\ UNCHANGED <<running, trip>>

\* The summary fails or is aborted.
CancelSummary ==
    /\ \/ job # {} /\ job' = {} /\ UNCHANGED trip
       \/ trip # {} /\ trip' = {} /\ UNCHANGED job
    /\ UNCHANGED <<view, running, store, moves>>

---------------------------------------------------------------------------
(* Navigation                                                               *)

\* The new leaf: a user's message goes back to the editor.
Landing(t) ==
    IF mem[t].type # "user" THEN {t}
    ELSE IF mem[t].up = {t} THEN {0}
    ELSE Newest(mem[t].up \ {t}) \cap DOMAIN mem

Move == moves < MaxMoves /\ moves' = moves + 1

\* A summary that is being written does not keep the user from moving on.
MayNavigate(t) == ~running /\ t \in DOMAIN mem \ {leaf}

Navigate(t) ==
    /\ MayNavigate(t)
    /\ \E l \in Landing(t) : leaf' = l
    /\ Move /\ UNCHANGED <<mem, next, running, job, trip, store>>

\* collectEntriesForBranchSummary; the text leaves tool results out.
BeginTrip(t) ==
    LET left == Path(mem, leaf) \ Path(mem, t)
    IN  /\ MayNavigate(t) /\ trip = {} /\ left # {}
        /\ trip' = {[to |-> t, sum |-> Tells(mem, left \ Of(mem, left, {"tool"}))]}
        /\ Move /\ UNCHANGED <<view, running, job, store>>

SaveTrip ==
    \E b \in trip : \E l \in Landing(b.to) :
        /\ AppendBelow(l, "summary", 0, b.sum)
        /\ trip' = {} /\ UNCHANGED <<running, job>>

---------------------------------------------------------------------------
(* Other sessions                                                           *)

NoWork == running' = FALSE /\ job' = {} /\ trip' = {}

NewSession ==
    /\ mem # Empty
    /\ mem' = Empty /\ leaf' = 0 /\ next' = 0 /\ NoWork
    /\ disk' = "none" /\ file' = Empty /\ flushed' = FALSE /\ torn' = FALSE
    /\ UNCHANGED <<faults, moves>>

\* A crash or a quit at any time, and the same session opened again.
Reopen ==
    /\ disk = "file" /\ mem' = file /\ NoWork
    /\ IF file = Empty THEN leaf' = 0 ELSE leaf' \in Newest(DOMAIN file)
    /\ flushed' = TRUE
    /\ Move /\ UNCHANGED <<next, disk, file, torn, faults>>

\* createBranchedSession: labels are left out of the path, the entries chained
\* anew, and the labels they bear written again at the end.
Branched(l) == Path(file, l) \ Of(file, Path(file, l), {"label", "unlabel"})
NoMarks(keep) == {}               \* the labels are not written again
Marks(keep) == Labelled(file) \cap keep
Fork(l) ==
    LET keep == Branched(l)
        L == Marks(keep)
        end == next + Cardinality(L)
        Session(to) ==
            [i \in keep \cup ((next + 1)..end) |->
                IF i \in keep THEN [file[i] EXCEPT !.up = @ \cap keep]
                ELSE [type |-> "label", up |-> keep \cup ((next + 1)..i),
                      ref |-> to[i], sum |-> {}]]
    IN  /\ Move /\ disk = "file" /\ l \in DOMAIN mem \cap DOMAIN file
        /\ end <= MaxEntries
        /\ \E to \in [(next + 1)..end -> L] :
              /\ \A i, j \in (next + 1)..end : i < j => to[i] < to[j]
              /\ mem' = Session(to)
        /\ next' = end /\ NoWork
        /\ IF mem' = Empty THEN leaf' = 0 ELSE leaf' \in Newest(DOMAIN mem')
        /\ torn' = FALSE /\ UNCHANGED faults
        /\ IF HasAssistant(mem')
           THEN disk' = "file" /\ file' = mem' /\ flushed' = TRUE
           ELSE disk' = "none" /\ file' = Empty /\ flushed' = FALSE

\* forkFrom copies the readable lines to a new file and opens it.
ForkFrom ==
    /\ disk = "file" /\ mem' = file /\ NoWork
    /\ IF file = Empty THEN leaf' = 0 ELSE leaf' \in Newest(DOMAIN file)
    /\ flushed' = TRUE /\ torn' = FALSE
    /\ Move /\ UNCHANGED <<next, disk, file, faults>>

---------------------------------------------------------------------------
Talk == \/ Prompt \/ Note \/ ToolResult \/ RunEnds
        \/ \E type \in {"call", "answer"} : Reply(type)
        \/ \E type \in Meta, t \in Ids \cup {0} : Mark(type, t)
Summaries == \/ BeginCompaction \/ SaveCompaction \/ CancelSummary \/ SaveTrip
             \/ \E t \in Ids : Navigate(t) \/ BeginTrip(t)
Sessions == NewSession \/ Reopen \/ ForkFrom \/ \E l \in Ids : Fork(l)

Next == Talk \/ Summaries \/ Sessions
Spec == Init /\ [][Next]_vars

---------------------------------------------------------------------------
TreeOK ==
    /\ next \in 0..MaxEntries /\ leaf \in DOMAIN mem \cup {0}
    /\ faults \in Nat /\ moves \in Nat
    /\ DOMAIN mem \subseteq 1..next /\ \A i \in DOMAIN mem : mem[i] \in Entry
    /\ DOMAIN file \subseteq 1..next /\ \A i \in DOMAIN file : file[i] \in Entry
    /\ flushed \in BOOLEAN /\ torn \in BOOLEAN /\ disk \in {"none", "file", "bad"}
WorkOK ==
    /\ running \in BOOLEAN
    /\ job \subseteq [first : Ids, sum : SUBSET Ids, of : SUBSET Ids]
    /\ trip \subseteq [to : Ids, sum : SUBSET Ids]
\* Entries, the leaf and the summaries being written are what they look like.
TypeOK == TreeOK /\ WorkOK

Here == Path(mem, leaf)
Shows == Shown(mem, Here)

\* Everything said on the path to the leaf is before the model, as a message
\* or in a summary: UPDATE_SUMMARIZATION_PROMPT, "PRESERVE all existing
\* information from the previous summary".
NothingForgotten == Of(mem, Here, Spoken) \subseteq Tells(mem, Shows)

\* What compaction took off the path was summarised at least once, for as long
\* as every compaction of the path is on the branch it was written for and
\* still finds the entry at which it began to keep.
Anchored == \A c \in Of(mem, Here, Compaction) :
                mem[c].type = "compaction" /\ mem[c].ref \in Here
DroppedWasSummarised ==
    Anchored => Of(mem, Here, Spoken)
                  \subseteq Shows \cup Tells(mem, Of(mem, Here, Compaction))

\* The model never gets a tool result without the call it answers: compaction
\* does not cut between the two (findValidCutPoints), nor do forks, as long as
\* no write failed and the last compaction is on the branch it was written for.
ToolResultsFollowCalls ==
    faults = 0 /\ Of(mem, Compacted(mem, Here), {"stray"}) = {} =>
        \A t \in Of(mem, Shows, {"tool"}) :
            Calls(mem, t) # {} /\ Calls(mem, t) \subseteq Shows

\* A load of the file gives nothing that the process does not hold.  What it lacks:
\* two lines at most for each failed write, its own and the one glued to it, once
\* the first write is done; everything before that, when no reply is there yet;
\* and, where the first write failed, everything from some entry on, for as long
\* as the session lasts, since "wx" refuses the file it has left (_persist).
Lost == DOMAIN mem \ DOMAIN file
SavedExceptFailed ==
    /\ \A i \in DOMAIN file : i \in DOMAIN mem /\ file[i] = mem[i]
    /\ flushed => Cardinality(Lost) <= 2 * faults
    /\ disk = "none" => ~HasAssistant(mem)
    /\ ~flushed /\ disk # "none" =>
          faults > 0 /\ Lost # {} /\ \A i \in Lost, j \in DOMAIN file : j < i

\* A fork has the messages, the context and the labels of the path it is of,
\* unless a compaction of the path began to keep at a label.
ForkKeeps ==
    [][\A l \in Ids : Fork(l) =>
        LET P == Path(file, l)
            Q == Path(mem', leaf')
        IN  /\ Of(mem', Q, Types \ {"label"}) = Branched(l)
            /\ Labelled(mem') = Labelled(file) \cap Branched(l)
            /\ (\A c \in Of(file, P, Compaction) : file[c].ref \in Branched(l))
                  => Of(mem', Shown(mem', Q), Spoken) = Of(file, Shown(file, P), Spoken)]_vars
=============================================================================
