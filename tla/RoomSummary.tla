----------------------------- MODULE RoomSummary -----------------------------
(***************************************************************************)
(* The running summary of a room (summary.ts): when its messages outgrow   *)
(* the recent window, the oldest unsummarised ones are folded into a new   *)
(* summary event, which covers everything up to a seq. A summon is given   *)
(* the latest summary and of the messages after the seq it covers the      *)
(* newest, up to a limit (assembly.ts, messagesAfterSeq); what is in       *)
(* neither is out of the room's memory.                                    *)
(*                                                                         *)
(* A message takes its seq when its insert starts and is seen when it      *)
(* commits. Abstracted: the text is the set of messages it was made from.  *)
(***************************************************************************)
EXTENDS Naturals, Sequences, FiniteSets, FiniteSetsExt

CONSTANTS
    Folds,          \* runs of maintainRoomSummary
    ProcessOf,      \* the process each runs in
    MaxMessages,    \* bound: messages of the room
    Window,         \* RECENT_WINDOW_MESSAGES
    Trigger,        \* SUMMARY_TRIGGER_BATCH
    MaxFold         \* MAX_FOLD_PER_RUN

Process == {ProcessOf[f] : f \in Folds}

ASSUME SummaryAssumption ==
    /\ ProcessOf \in [Folds -> Process]
    /\ MaxMessages \in Nat /\ Window \in Nat /\ Trigger \in Nat /\ MaxFold \in Nat \ {0}

VARIABLES
    taken,      \* the seqs that messages have taken: 1..taken
    committed,  \* those whose insert has committed
    late,       \* those that committed when a summary already covered their seq
    summaries,  \* the room.summary events in the order of their seq: covers, count, and what went in
    fold        \* Folds -> where the run is, the summary it read, how many it takes, the batch

summaryVars == <<taken, committed, late, summaries, fold>>

Messages == 1..MaxMessages
NoSummary == [covers |-> 0, count |-> 0, from |-> {}]
Summary == [covers : 0..MaxMessages, count : 0..MaxMessages, from : SUBSET Messages]
NoFold == [pc |-> "none", prev |-> NoSummary, takes |-> 0, batch |-> {}]

SummaryTypeOK ==
    /\ taken \in 0..MaxMessages /\ committed \subseteq 1..taken /\ late \subseteq committed
    /\ \A i \in DOMAIN summaries : summaries[i] \in Summary
    /\ fold \in [Folds -> [pc : {"none", "count", "batch", "append", "over"}, prev : Summary,
                           takes : 0..MaxFold, batch : SUBSET Messages]]
    /\ \A f \in Folds : Cardinality(fold[f].batch) <= MaxFold

SummaryInit ==
    /\ taken = 0 /\ committed = {} /\ late = {} /\ summaries = <<>>
    /\ fold = [f \in Folds |-> NoFold]

-----------------------------------------------------------------------------
(* latestRoomSummary: by the seq of the event, not by what it covers.      *)
LatestSummary == IF summaries = <<>> THEN NoSummary ELSE summaries[Len(summaries)]
Floor == LatestSummary.covers

After(n) == {m \in committed : m > n}

Newest(S, n) == {m \in S : Cardinality({o \in S : o > m}) < n}

\* Mutant: the window leaves no slack for a fold that is on its way.
VerbatimTight == Newest(After(Floor), Window)

\* What a summon is given word for word.
Verbatim == Newest(After(Floor), Window + Trigger)

TakeSeq ==
    /\ taken < MaxMessages /\ taken' = taken + 1
    /\ UNCHANGED <<committed, late, summaries, fold>>

\* A fold has gone past the seq of a message.
Passed(m) == \/ \E i \in DOMAIN summaries : m <= summaries[i].covers
             \/ \E f \in Folds : \E b \in fold[f].batch : m <= b

CommitMessage(m) ==
    /\ m \in 1..taken \ committed
    /\ committed' = committed \cup {m}
    /\ late' = IF Passed(m) THEN late \cup {m} ELSE late
    /\ UNCHANGED <<taken, summaries, fold>>

\* Mutant: nothing keeps a process from folding a room twice at once.
IdleAlways(f) == TRUE

\* `summarising`: this process is not at this room.
IdleHere(f) == \A o \in Folds : ProcessOf[o] = ProcessOf[f] => fold[o].pc \in {"none", "over"}

ReadLatest(f) ==
    /\ fold[f].pc = "none" /\ IdleHere(f)
    /\ fold' = [fold EXCEPT ![f].pc = "count", ![f].prev = LatestSummary]
    /\ UNCHANGED <<taken, committed, late, summaries>>

AtMost(n, k) == IF n <= k THEN n ELSE k

\* countMessagesAfter: below the trigger the run ends.
CountTail(f) ==
    LET tail == Cardinality(After(fold[f].prev.covers)) IN
    /\ fold[f].pc = "count"
    /\ fold' = IF tail <= Window + Trigger THEN [fold EXCEPT ![f].pc = "over"]
               ELSE [fold EXCEPT ![f].pc = "batch", ![f].takes = AtMost(tail - Window, MaxFold)]
    /\ UNCHANGED <<taken, committed, late, summaries>>

\* Mutant: LIMIT leaves room for one more.
OldestAndOne(S, n) == {m \in S : Cardinality({o \in S : o < m}) <= n}

Oldest(S, n) == {m \in S : Cardinality({o \in S : o < m}) < n}

\* messageBatchAfter: the oldest beyond what the summary covers.
ReadBatch(f) ==
    /\ fold[f].pc = "batch"
    /\ fold' = [fold EXCEPT ![f].pc = "append",
                            ![f].batch = Oldest(After(fold[f].prev.covers), fold[f].takes)]
    /\ UNCHANGED <<taken, committed, late, summaries>>

\* The ceiling, no adapter, a provider's failure or an empty answer end the run without a summary.
GiveUp(f) ==
    /\ fold[f].pc \in {"batch", "append"}
    /\ fold' = [fold EXCEPT ![f].pc = "over"]
    /\ UNCHANGED <<taken, committed, late, summaries>>

\* Mutant: the new summary is made from the batch alone.
FoldedBatch(p, b) == [covers |-> Max(b), count |-> p.count + Cardinality(b), from |-> b]

\* The earlier summary and the batch, in one.
Folded(p, b) == [covers |-> Max(b), count |-> p.count + Cardinality(b), from |-> p.from \cup b]

Covered(n) == \E i \in DOMAIN summaries : summaries[i].covers = n

\* appendRoomSummary: the index keeps one summary per covered seq, the first.
AppendSummary(f) ==
    LET s == Folded(fold[f].prev, fold[f].batch) IN
    /\ fold[f].pc = "append"
    /\ fold' = [fold EXCEPT ![f].pc = "over"]
    /\ summaries' = IF Covered(s.covers) THEN summaries ELSE Append(summaries, s)
    /\ UNCHANGED <<taken, committed, late>>

SummaryNext ==
    \/ TakeSeq
    \/ \E m \in Messages : CommitMessage(m)
    \/ \E f \in Folds : ReadLatest(f) \/ CountTail(f) \/ ReadBatch(f) \/ GiveUp(f) \/ AppendSummary(f)

SummarySpec == SummaryInit /\ [][SummaryNext]_summaryVars

-----------------------------------------------------------------------------
\* The tail is longer than what leaves countMessagesAfter content.
FoldIsDue == Cardinality(After(Floor)) > Window + Trigger

(* Whatever two processes fold at once, every summary was made from each    *)
(* message up to the seq it covers and counts them once; apart from those   *)
(* that committed after a fold had gone past their seq. And a summon is     *)
(* given each message, folded or word for word: one it is not given was     *)
(* late like that, or it is among the oldest of a tail that is due to be    *)
(* folded and is not yet, because the fold is on its way or gave up. These  *)
(* two are neither summarised nor recent, against "never both and never     *)
(* neither" (assembly.ts:416).                                              *)
NothingForgotten ==
    /\ \A i \in DOMAIN summaries :
        /\ {m \in committed \ late : m <= summaries[i].covers} \subseteq summaries[i].from
        /\ summaries[i].count = Cardinality(summaries[i].from)
    /\ \A m \in committed \ (LatestSummary.from \cup Verbatim) :
        IF m <= Floor THEN m \in late ELSE FoldIsDue /\ \A o \in Verbatim : o > m

(* A window's worth of the latest messages is always given word for word,   *)
(* whatever is folded and whichever summary is the last one.                *)
RecentStayVerbatim == Newest(committed, Window) \subseteq Verbatim

(* The room's memory is whole: folded or word for word.                     *)
MemoryIsWhole == NothingForgotten /\ RecentStayVerbatim

(* "The tail oscillates in [WINDOW, WINDOW + BATCH]" (summary.ts:47): the   *)
(* next fold of a long tail has somewhere to go, it does not end at a seq   *)
(* that a summary already covers, where every retry ends too.               *)
NextFoldAdvances ==
    Cardinality(After(Floor)) >= Window + MaxFold => ~Covered(Max(Oldest(After(Floor), MaxFold)))
=============================================================================
