------------------------- MODULE TaskLedger_proofs -------------------------
(***************************************************************************)
(* Proofs about TaskLedger for every set of commands, overlapping at will, *)
(* and every number of crashes: what writing the event first and the row   *)
(* second does guarantee.  (That the two agree at rest is what it does not *)
(* guarantee: see the runs.)                                               *)
(***************************************************************************)
EXTENDS TaskLedger, TLAPS

Entries == 1..Len(log)

\* The event of a command that is about to update the row is in the log.
EventFirst ==
    \A c \in Commands : pc[c] = "appended" =>
        \E i \in Entries :
            /\ log[i].state = goal[c].state
            /\ Kind[c] = "handoff" =>
                  log[i].type = "task.handoff" /\ log[i].assignee = goal[c].assignee

\* A command moves the task to a real state.
RealGoal == \A c \in Commands : pc[c] \in {"read", "appended"} => goal[c].state # "none"

\* Before the insert nothing has run and nothing is logged.
InsertFirst == row.state = "none" => log = <<>> /\ \A c \in Commands : pc[c] = "idle"

\* The one command that inserted the row has not announced it yet.
OneBirth ==
    \A c \in Commands : pc[c] = "inserted" =>
        /\ \A i \in Entries : log[i].type # "task.created"
        /\ \A d \in Commands : pc[d] = "inserted" => d = c

Inv == RowFromLog /\ CreatedOnce /\ EventFirst /\ RealGoal /\ InsertFirst /\ OneBirth
LedgerInv == TypeOK /\ Inv

-----------------------------------------------------------------------------

\* Every step keeps every variable's type.
LEMMA TypeStep == TypeOK /\ [Next]_vars => TypeOK'
<1> SUFFICES ASSUME TypeOK, [Next]_vars PROVE TypeOK'
  OBVIOUS
<1> USE DEF TypeOK, Running
<1>1. CASE Crash
  BY <1>1, BoundsAssumption DEF Crash
<1>2. ASSUME NEW c \in Commands, InsertTask(c) PROVE TypeOK'
  <2>1. \A s \in {"working", "input-required"} :
          [state |-> s, assignee |-> Origin] \in Rows /\ s \in States
    BY OriginAssumption DEF Rows, States
  <2> QED BY <1>2, <2>1 DEF InsertTask, Begin
<1>3. ASSUME NEW c \in Commands, FindTask(c) PROVE TypeOK'
  <2>1. [row EXCEPT !.state = "input-required"] \in Rows
    BY DEF Rows, States
  <2> QED BY <1>3, <2>1 DEF FindTask, Begin
<1>4. ASSUME NEW c \in Commands, ReadForMove(c) PROVE TypeOK'
  <2>1. \A s \in {"done", "held"} : [row EXCEPT !.state = s] \in Rows
    BY DEF Rows, States
  <2> QED BY <1>4, <2>1 DEF ReadForMove, Begin
<1>5. ASSUME NEW c \in Commands, ReadForHandoff(c) PROVE TypeOK'
  <2>1. \A m \in Members : [state |-> "submitted", assignee |-> m] \in Rows
    BY DEF Rows, States
  <2> QED BY <1>5, <2>1 DEF ReadForHandoff, Begin
<1>6. ASSUME NEW c \in Commands, Abandon(c) PROVE TypeOK'
  BY <1>6 DEF Abandon
<1>7. ASSUME NEW c \in Commands, UpdateRow(c) PROVE TypeOK'
  <2>1. goal[c] \in Rows /\ [row EXCEPT !.state = goal[c].state] \in Rows
    BY DEF Rows
  <2>2. row' \in Rows
    BY <1>7, <2>1 DEF UpdateRow
  <2> QED BY <1>7, <2>2 DEF UpdateRow
<1>8. ASSUME NEW c \in Commands, AnnounceTask(c) \/ AppendEvent(c) PROVE TypeOK'
  <2>1. \A t \in {"task.created", "task.state", "task.handoff"} : Logged(c, t) \in Events
    BY DEF Logged, Rows, Events
  <2>2. PICK t \in {"task.created", "task.state", "task.handoff"} : log' = Append(log, Logged(c, t))
    BY <1>8 DEF AnnounceTask, AppendEvent
  <2>3. log' \in Seq(Events)
    BY <2>1, <2>2
  <2> QED BY <1>8, <2>3 DEF AnnounceTask, AppendEvent
<1>9. CASE UNCHANGED vars
  BY <1>9 DEF vars
<1> QED BY <1>1, <1>2, <1>3, <1>4, <1>5, <1>6, <1>7, <1>8, <1>9 DEF Next, Step

\* Every variable keeps its type, however the commands overlap.
LEMMA TypeInvariant == Spec => []TypeOK
<1>1. Init => TypeOK
  <2> SUFFICES ASSUME Init PROVE TypeOK
    OBVIOUS
  <2>1. NoRow \in Rows /\ birth \in States /\ log \in Seq(Events)
    BY OriginAssumption DEF Init, NoRow, Rows, States
  <2>2. crashes \in 0..MaxCrashes
    BY BoundsAssumption DEF Init
  <2>3. overlapped \in BOOLEAN
    BY DEF Init
  <2>4. row \in Rows /\ pc \in [Commands -> Running \cup {"idle", "over", "dead"}]
        /\ copy \in [Commands -> Rows] /\ goal \in [Commands -> Rows]
    BY <2>1 DEF Init
  <2> QED BY <2>1, <2>2, <2>3, <2>4 DEF TypeOK
<1> QED BY <1>1, TypeStep, PTL DEF Spec

\* Appending keeps what the log held and adds one entry.
LEMMA LogGrows ==
    ASSUME TypeOK, NEW c \in Commands, NEW t \in {"task.created", "task.state", "task.handoff"},
           log' = Append(log, Logged(c, t))
    PROVE  /\ Entries' = Entries \cup {Len(log) + 1}
           /\ \A i \in Entries : log'[i] = log[i]
           /\ log'[Len(log) + 1] = Logged(c, t)
           /\ log' # <<>>
<1>1. log \in Seq(Events) /\ Logged(c, t) \in Events
  BY DEF TypeOK, Logged, Rows, Events
<1> QED BY <1>1 DEF Entries

\* The insert, the announcement and the event of a transition or a handoff.
LEMMA InsertStep ==
    ASSUME LedgerInv, NEW c \in Commands, InsertTask(c) PROVE Inv'
<1> USE DEF LedgerInv, TypeOK
<1>1. /\ row.state = "none" /\ row'.state \in {"working", "input-required"}
      /\ birth' = row'.state /\ UNCHANGED log /\ log = <<>>
      /\ pc' = [pc EXCEPT ![c] = "inserted"] /\ goal' = [goal EXCEPT ![c] = row']
      /\ \A d \in Commands : pc[d] = "idle"
  BY DEF InsertTask, Inv, InsertFirst
<1>2. Entries = {} /\ Entries' = {}
  BY <1>1 DEF Entries
<1>3. RowFromLog' /\ CreatedOnce' /\ InsertFirst' /\ RealGoal'
  BY <1>1, <1>2 DEF RowFromLog, CreatedOnce, InsertFirst, RealGoal, Running
<1>4. EventFirst' /\ OneBirth'
  BY <1>1, <1>2 DEF EventFirst, OneBirth, Running
<1> QED BY <1>3, <1>4 DEF Inv

\* What the first event of a created task keeps.
LEMMA AnnounceStep ==
    ASSUME LedgerInv, NEW c \in Commands, AnnounceTask(c) PROVE Inv'
<1> USE DEF LedgerInv, TypeOK
<1> DEFINE n == Len(log) + 1
<1>1. /\ pc[c] = "inserted" /\ pc' = [pc EXCEPT ![c] = "over"]
      /\ log' = Append(log, Logged(c, "task.created"))
      /\ UNCHANGED <<row, birth, goal>>
  BY DEF AnnounceTask
<1>2. /\ Entries' = Entries \cup {n}
      /\ \A i \in Entries : log'[i] = log[i]
      /\ log'[n] = Logged(c, "task.created")
  BY <1>1, LogGrows
<1>3. RowFromLog'
  BY <1>1, <1>2 DEF Inv, RowFromLog, LoggedStates, Entries
<1>4. CreatedOnce'
  BY <1>1, <1>2 DEF Inv, CreatedOnce, OneBirth, Entries
<1>5. EventFirst'
  <2> SUFFICES ASSUME NEW d \in Commands, pc'[d] = "appended"
               PROVE  \E i \in Entries' :
                         /\ log'[i].state = goal[d].state
                         /\ Kind[d] = "handoff" =>
                               log'[i].type = "task.handoff" /\ log'[i].assignee = goal[d].assignee
    BY <1>1 DEF EventFirst
  <2>1. pc[d] = "appended" /\ goal' = goal
    BY <1>1
  <2>2. PICK i \in Entries :
           /\ log[i].state = goal[d].state
           /\ Kind[d] = "handoff" =>
                 log[i].type = "task.handoff" /\ log[i].assignee = goal[d].assignee
    BY <2>1 DEF Inv, EventFirst
  <2>3. i \in Entries' /\ log'[i] = log[i]
    BY <1>2
  <2> QED BY <2>2, <2>3
<1>6. RealGoal' /\ InsertFirst'
  BY <1>1 DEF Inv, RealGoal, InsertFirst, Running
<1>7. OneBirth'
  BY <1>1 DEF Inv, OneBirth
<1> QED BY <1>3, <1>4, <1>5, <1>6, <1>7 DEF Inv

\* What the event of a command keeps.
LEMMA EventStep ==
    ASSUME LedgerInv, NEW c \in Commands, AppendEvent(c) PROVE Inv'
<1> USE DEF LedgerInv, TypeOK
<1> DEFINE n == Len(log) + 1
<1>1. PICK t \in {"task.state", "task.handoff"} :
         /\ t = IF Kind[c] = "handoff" THEN "task.handoff" ELSE "task.state"
         /\ log' = Append(log, Logged(c, t))
  BY DEF AppendEvent
<1>2. /\ pc[c] = "read" /\ pc' = [pc EXCEPT ![c] = "appended"]
      /\ UNCHANGED <<row, birth, goal>>
  BY DEF AppendEvent
<1>3. /\ Entries' = Entries \cup {n}
      /\ \A i \in Entries : log'[i] = log[i]
      /\ log'[n] = Logged(c, t)
  BY <1>1, LogGrows
<1>4. /\ log'[n].type = t /\ log'[n].state = goal[c].state
      /\ log'[n].assignee = goal[c].assignee
  BY <1>3 DEF Logged
<1>5. RowFromLog'
  BY <1>2, <1>3 DEF Inv, RowFromLog, LoggedStates, Entries
<1>6. CreatedOnce'
  BY <1>2, <1>3, <1>4, <1>1 DEF Inv, CreatedOnce, Entries
<1>7. EventFirst'
  <2> SUFFICES ASSUME NEW d \in Commands, pc'[d] = "appended"
               PROVE  \E i \in Entries' :
                         /\ log'[i].state = goal[d].state
                         /\ Kind[d] = "handoff" =>
                               log'[i].type = "task.handoff" /\ log'[i].assignee = goal[d].assignee
    BY <1>2 DEF EventFirst
  <2>1. CASE d = c
    BY <2>1, <1>1, <1>3, <1>4
  <2>2. CASE d # c
    BY <2>2, <1>2, <1>3 DEF Inv, EventFirst
  <2> QED BY <2>1, <2>2
<1>8. RealGoal' /\ InsertFirst'
  BY <1>2 DEF Inv, RealGoal, InsertFirst, Running
<1>9. OneBirth'
  <2>1. \A d \in Commands : pc'[d] = "inserted" => pc[d] = "inserted"
    BY <1>2
  <2>2. \A i \in Entries' : (i \in Entries /\ log'[i] = log[i]) \/ log'[i].type # "task.created"
    BY <1>1, <1>3, <1>4
  <2>3. \A d \in Commands : pc'[d] = "inserted" =>
           /\ \A i \in Entries : log[i].type # "task.created"
           /\ \A e \in Commands : pc[e] = "inserted" => e = d
    BY <2>1 DEF Inv, OneBirth
  <2>4. \A d \in Commands : pc'[d] = "inserted" =>
           \A e \in Commands : pc'[e] = "inserted" => e = d
    BY <2>1, <2>3
  <2>5. \A d \in Commands : pc'[d] = "inserted" =>
           \A i \in Entries' : log'[i].type # "task.created"
    BY <2>2, <2>3
  <2> QED BY <2>4, <2>5 DEF OneBirth
<1> QED BY <1>5, <1>6, <1>7, <1>8, <1>9 DEF Inv

\* The update of the row, which the logged event precedes.
LEMMA UpdateStep ==
    ASSUME LedgerInv, NEW c \in Commands, UpdateRow(c) PROVE Inv'
<1> USE DEF LedgerInv, TypeOK
<1>1. /\ pc[c] = "appended" /\ pc' = [pc EXCEPT ![c] = "over"]
      /\ UNCHANGED <<log, birth, goal>>
  BY DEF UpdateRow
<1>2. row'.state = goal[c].state
  BY DEF UpdateRow, Rows
<1>3. goal[c].state # "none" /\ goal[c].state \in LoggedStates
  BY <1>1 DEF Inv, RealGoal, EventFirst, LoggedStates, Entries
<1>4. RowFromLog' /\ InsertFirst'
  BY <1>1, <1>2, <1>3 DEF RowFromLog, InsertFirst, LoggedStates
<1>5. CreatedOnce'
  BY <1>1 DEF Inv, CreatedOnce
<1>6. EventFirst' /\ RealGoal' /\ OneBirth'
  BY <1>1 DEF Inv, EventFirst, RealGoal, OneBirth, Entries
<1> QED BY <1>4, <1>5, <1>6 DEF Inv

\* Reading the row, giving up and a crash change neither the row nor the log.
LEMMA OtherStep ==
    ASSUME LedgerInv,
           \/ Crash \/ UNCHANGED vars
           \/ \E c \in Commands :
                 FindTask(c) \/ ReadForMove(c) \/ ReadForHandoff(c) \/ Abandon(c)
    PROVE  Inv'
<1> USE DEF LedgerInv, TypeOK
<1>1. UNCHANGED <<row, log, birth>>
  BY DEF Crash, vars, FindTask, ReadForMove, ReadForHandoff, Abandon
<1> DEFINE Quiet ==
      \A c \in Commands :
        /\ pc'[c] = "inserted" => pc[c] = "inserted"
        /\ pc'[c] = "appended" => pc[c] = "appended" /\ goal'[c] = goal[c]
        /\ pc'[c] = "read" => goal'[c].state # "none"
        /\ pc'[c] # "idle" => pc[c] # "idle" \/ row.state # "none"
<1>2. Quiet
  <2>1. CASE Crash
    BY <2>1 DEF Crash, Running, Inv, RealGoal
  <2>2. CASE UNCHANGED vars
    BY <2>2 DEF vars, Inv, RealGoal
  <2>3. ASSUME NEW d \in Commands, FindTask(d) PROVE Quiet
    <3>1. row.state # "none" /\ row \in Rows
      BY <2>3 DEF FindTask
    <3>2. [row EXCEPT !.state = "input-required"].state = "input-required"
      BY <3>1 DEF Rows
    <3>3. \/ /\ pc' = [pc EXCEPT ![d] = "over"]
             /\ goal' = [goal EXCEPT ![d] = row]
          \/ /\ pc' = [pc EXCEPT ![d] = "read"]
             /\ goal' = [goal EXCEPT ![d] = [row EXCEPT !.state = "input-required"]]
      BY <2>3 DEF FindTask
    <3>4. \A c \in Commands : c # d => pc'[c] = pc[c] /\ goal'[c] = goal[c]
      BY <3>3
    <3>5. pc'[d] \in {"over", "read"} /\ (pc'[d] = "read" => goal'[d].state = "input-required")
      BY <3>2, <3>3
    <3>6. \A c \in Commands : pc[c] = "read" => goal[c].state # "none"
      BY DEF Inv, RealGoal
    <3> QED BY <3>1, <3>4, <3>5, <3>6
  <2>4. ASSUME NEW d \in Commands, ReadForMove(d) \/ ReadForHandoff(d) PROVE Quiet
    <3>1. row.state # "none"
      BY <2>4 DEF ReadForMove, ReadForHandoff, Known, Inv, InsertFirst
    <3> QED BY <2>4, <3>1 DEF ReadForMove, ReadForHandoff, Begin, Rows, Inv, RealGoal
  <2>5. ASSUME NEW d \in Commands, Abandon(d) PROVE Quiet
    BY <2>5 DEF Abandon, Inv, RealGoal
  <2> QED BY <2>1, <2>2, <2>3, <2>4, <2>5
<1>3. RowFromLog' /\ CreatedOnce'
  BY <1>1 DEF Inv, RowFromLog, CreatedOnce, LoggedStates
<1>4. EventFirst' /\ RealGoal'
  BY <1>1, <1>2 DEF Inv, EventFirst, RealGoal, Entries
<1>5. InsertFirst' /\ OneBirth'
  BY <1>1, <1>2 DEF Inv, InsertFirst, OneBirth, Entries
<1> QED BY <1>3, <1>4, <1>5 DEF Inv

\* The invariant the three theorems rest on.
LEMMA LedgerInvariant == Spec => []LedgerInv
<1>1. Init => Inv
  BY DEF Init, NoRow, Inv, RowFromLog, CreatedOnce, EventFirst, RealGoal, InsertFirst, OneBirth
<1>2. LedgerInv /\ TypeOK' /\ [Next]_vars => LedgerInv'
  BY InsertStep, AnnounceStep, EventStep, UpdateStep, OtherStep DEF LedgerInv, Next, Step
<1> QED BY <1>1, <1>2, TypeInvariant, PTL DEF Spec, LedgerInv

\* However the commands overlap and wherever the process dies, the row shows no state that neither
\* an event nor the insert put there.
THEOREM RowFromLogHolds == Spec => []RowFromLog
<1>1. LedgerInv => RowFromLog
  BY DEF LedgerInv, Inv
<1> QED BY <1>1, LedgerInvariant, PTL

\* A replayed cause creates its task once.
THEOREM CreatedOnceHolds == Spec => []CreatedOnce
<1>1. LedgerInv => CreatedOnce
  BY DEF LedgerInv, Inv
<1> QED BY <1>1, LedgerInvariant, PTL

\* No interleaving moves a task to another member but the update of a logged handoff.
THEOREM HolderMovesByHandoffHolds == Spec => HolderMovesByHandoff
<1> DEFINE ByHandoff ==
      \E c \in Commands, i \in 1..Len(log) :
         /\ Kind[c] = "handoff" /\ pc[c] = "appended" /\ pc'[c] = "over"
         /\ log[i].type = "task.handoff" /\ log[i].assignee = row'.assignee
<1>1. ASSUME LedgerInv, [Next]_vars, row.state # "none", row'.assignee # row.assignee
      PROVE  ByHandoff
  <2> USE DEF LedgerInv, TypeOK
  <2>1. \/ \E c \in Commands : UpdateRow(c)
        \/ UNCHANGED row
    BY <1>1 DEF Next, Step, vars, Crash, InsertTask, FindTask, AnnounceTask, ReadForMove,
       ReadForHandoff, AppendEvent, Abandon
  <2>2. PICK c \in Commands : UpdateRow(c)
    BY <1>1, <2>1
  <2>3. pc[c] = "appended" /\ pc'[c] = "over"
    BY <1>1, <2>2 DEF UpdateRow
  <2>4. Kind[c] = "handoff" /\ row' = goal[c]
    BY <1>1, <2>2 DEF UpdateRow, Rows
  <2>5. PICK i \in Entries : log[i].type = "task.handoff" /\ log[i].assignee = goal[c].assignee
    BY <1>1, <2>3, <2>4 DEF Inv, EventFirst
  <2> QED BY <2>3, <2>4, <2>5 DEF Entries
<1>2. LedgerInv /\ [Next]_vars => [row.state # "none" /\ row'.assignee # row.assignee => ByHandoff]_vars
  BY <1>1
<1> QED BY <1>2, LedgerInvariant, PTL DEF Spec, HolderMovesByHandoff

-----------------------------------------------------------------------------
(* What the log is worth when commands do not overlap. *)

\* Somebody has written its event and not yet the row.
Ahead == \E c \in Commands : pc[c] = "appended"

\* The row shows one of the last states of the log.
Behind(by) == \E k \in 0..by : k < Len(log) /\ row.state = log[Len(log) - k].state

\* The row is what the last event says.
Level == log # <<>> => row.state = log[Len(log)].state /\ row.assignee = log[Len(log)].assignee

\* One command runs at a time, on the row it read.
InTurn ==
    /\ \A c, d \in Commands : pc[c] \in Running /\ pc[d] \in Running => c = d
    /\ \A c \in Commands : pc[c] = "inserted" => log = <<>> /\ goal[c] = row
    /\ \A c \in Commands : pc[c] = "read" => copy[c] = row
    /\ \A c \in Commands : pc[c] \in {"read", "appended"} /\ Kind[c] # "handoff" =>
          goal[c].assignee = row.assignee
    /\ \A c \in Commands : pc[c] = "appended" =>
          log # <<>> /\ log[Len(log)].state = goal[c].state /\ log[Len(log)].assignee = goal[c].assignee

\* A task that is created is behind by its crashes, and by the event of the command that is between
\* its two writes.
Follows ==
    /\ Created => Behind(crashes) \/ (Ahead /\ Behind(crashes + 1))
    /\ crashes = 0 => (Ahead \/ Level)
    /\ crashes = 0 => \A i \in 2..Len(log) :
          log[i].from.state = log[i-1].state /\ log[i].from.assignee = log[i-1].assignee

QuietInv == ~overlapped => InTurn /\ Follows

\* What is behind by few is behind by more.
LEMMA BehindByMore == ASSUME NEW m \in Nat, NEW n \in Nat, m <= n, Behind(m) PROVE Behind(n)
BY DEF Behind

\* A step that writes nothing.
LEMMA NothingWritten ==
    ASSUME UNCHANGED <<row, log>> PROVE (Created' <=> Created) /\ (Level' <=> Level) /\
           (\A n \in Nat : Behind(n)' <=> Behind(n))
BY DEF Created, Level, Behind

\* A command that begins alone reads what is.
LEMMA QuietBegin ==
    ASSUME LedgerInv, QuietInv, ~overlapped', NEW c \in Commands,
           InsertTask(c) \/ FindTask(c) \/ ReadForMove(c) \/ ReadForHandoff(c)
    PROVE  InTurn' /\ Follows'
<1> USE DEF LedgerInv, TypeOK
<1>1. Active = {} /\ ~overlapped /\ pc[c] = "idle"
  BY DEF InsertTask, FindTask, ReadForMove, ReadForHandoff, Begin
<1>2. \A d \in Commands : pc[d] \notin Running
  BY <1>1 DEF Active
<1>3. InTurn /\ Follows
  BY <1>1 DEF QuietInv
<1>4. ~Ahead
  BY <1>2 DEF Ahead, Running
<1>5. CASE InsertTask(c)
  <2>1. log = <<>> /\ log' = log /\ goal' = [goal EXCEPT ![c] = row'] /\
        pc' = [pc EXCEPT ![c] = "inserted"]
    BY <1>5 DEF InsertTask, Inv, InsertFirst
  <2>2. InTurn'
    BY <1>2, <2>1 DEF InTurn, Running
  <2>3. Follows'
    BY <2>1 DEF Follows, Created, Level
  <2> QED BY <2>2, <2>3
<1>6. CASE FindTask(c) \/ ReadForMove(c) \/ ReadForHandoff(c)
  <2>1. UNCHANGED <<row, log, crashes>> /\ copy' = [copy EXCEPT ![c] = row]
    BY <1>6 DEF FindTask, ReadForMove, ReadForHandoff
  <2>2. pc' = [pc EXCEPT ![c] = "over"] \/ pc' = [pc EXCEPT ![c] = "read"]
    BY <1>6 DEF FindTask, ReadForMove, ReadForHandoff
  <2>3. Kind[c] # "handoff" => goal'[c].assignee = row.assignee
    BY <1>6 DEF FindTask, ReadForMove, ReadForHandoff, Rows
  <2>4. InTurn'
    BY <1>2, <2>1, <2>2, <2>3 DEF InTurn, Running
  <2>5. Follows'
    BY <1>3, <1>4, <2>1, NothingWritten DEF Follows
  <2> QED BY <2>4, <2>5
<1> QED BY <1>5, <1>6

\* The announcement of a task is the first of its events.
LEMMA QuietAnnounce ==
    ASSUME LedgerInv, QuietInv, ~overlapped', NEW c \in Commands, AnnounceTask(c)
    PROVE  InTurn' /\ Follows'
<1> USE DEF LedgerInv, TypeOK
<1>1. /\ pc[c] = "inserted" /\ pc' = [pc EXCEPT ![c] = "over"] /\
         log' = Append(log, Logged(c, "task.created"))
      /\ UNCHANGED <<row, copy, goal, crashes>> /\ ~overlapped
  BY DEF AnnounceTask
<1>2. InTurn
  BY <1>1 DEF QuietInv
<1>3. log = <<>> /\ goal[c] = row /\ \A d \in Commands : d # c => pc[d] \notin Running
  BY <1>1, <1>2 DEF InTurn, Running
<1>4. Logged(c, "task.created") \in Events
  BY DEF Logged, Rows, Events
<1>5. log' = <<Logged(c, "task.created")>>
  BY <1>1, <1>3, <1>4
<1>6. Len(log') = 1 /\ log'[1].state = row'.state /\ log'[1].assignee = row'.assignee /\ log' # <<>>
  BY <1>1, <1>3, <1>5 DEF Logged
<1>7. Level' /\ Behind(crashes)'
  <2>1. Level'
    BY <1>6 DEF Level
  <2>2. 0 \in 0..crashes' /\ 0 < Len(log') /\ Len(log') - 0 = 1
    BY <1>1, <1>6, BoundsAssumption
  <2> QED BY <1>6, <2>1, <2>2 DEF Behind
<1>8. Follows'
  BY <1>6, <1>7 DEF Follows
<1>9. InTurn'
  BY <1>1, <1>3 DEF InTurn, Running
<1> QED BY <1>8, <1>9

\* The event of a transition or a handoff moves from what the row is.
LEMMA QuietEvent ==
    ASSUME LedgerInv, QuietInv, ~overlapped', NEW c \in Commands, AppendEvent(c)
    PROVE  InTurn' /\ Follows'
<1> USE DEF LedgerInv, TypeOK
<1> DEFINE n == Len(log) + 1
<1>1. PICK t \in {"task.state", "task.handoff"} : log' = Append(log, Logged(c, t))
  BY DEF AppendEvent
<1>2. /\ pc[c] = "read" /\ pc' = [pc EXCEPT ![c] = "appended"]
      /\ UNCHANGED <<row, copy, goal, crashes>> /\ ~overlapped
  BY DEF AppendEvent
<1>3. InTurn /\ Follows
  BY <1>2 DEF QuietInv
<1>4. copy[c] = row /\ ~Ahead /\ \A d \in Commands : d # c => pc[d] \notin Running
  BY <1>2, <1>3 DEF InTurn, Ahead, Running
<1>5. Logged(c, t) \in Events
  BY DEF Logged, Rows, Events
<1>6. /\ Len(log') = n /\ n \in Nat \ {0} /\ log'[n] = Logged(c, t) /\
         \A i \in 1..Len(log) : log'[i] = log[i]
  BY <1>1, <1>5
<1>7. /\ log'[n].state = goal[c].state /\ log'[n].assignee = goal[c].assignee /\ log'[n].type = t
      /\ log'[n].from = row
  BY <1>4, <1>6 DEF Logged
<1>8. InTurn'
  BY <1>2, <1>3, <1>4, <1>6, <1>7 DEF InTurn, Running
<1>9. Created' => Created
  <2>1. \A i \in 1..Len(log') : i = n \/ i \in 1..Len(log)
    BY <1>6
  <2> QED BY <1>6, <1>7, <2>1 DEF Created
<1>10. Created' => Behind(crashes + 1)'
  <2> SUFFICES ASSUME Created PROVE Behind(crashes + 1)'
    BY <1>9
  <2>1. PICK k \in 0..crashes : k < Len(log) /\ row.state = log[Len(log) - k].state
    BY <1>3, <1>4 DEF Follows, Behind
  <2>2. k + 1 \in 0..(crashes' + 1) /\ k + 1 < Len(log') /\ Len(log') - (k + 1) = Len(log) - k /\
        Len(log) - k \in 1..Len(log)
    BY <1>2, <1>6, <2>1
  <2> QED BY <1>2, <1>6, <2>1, <2>2 DEF Behind
<1>11. Ahead'
  BY <1>2 DEF Ahead
<1>12. crashes' = 0 => \A i \in 2..Len(log') : log'[i].from.state = log'[i-1].state /\
       log'[i].from.assignee = log'[i-1].assignee
  <2> SUFFICES ASSUME crashes = 0, NEW i \in 2..n
               PROVE  log'[i].from.state = log'[i-1].state /\ log'[i].from.assignee = log'[i-1].assignee
    BY <1>2, <1>6
  <2>1. CASE i = n
    <3>1. i - 1 = Len(log) /\ i - 1 \in 1..Len(log) /\ log # <<>>
      BY <2>1
    <3>2. row.state = log[Len(log)].state /\ row.assignee = log[Len(log)].assignee
      BY <1>3, <1>4, <3>1 DEF Follows, Level
    <3> QED BY <1>6, <1>7, <2>1, <3>1, <3>2
  <2>2. CASE i # n
    <3>1. i \in 2..Len(log) /\ i \in 1..Len(log) /\ i - 1 \in 1..Len(log)
      BY <2>2
    <3> QED BY <1>3, <1>6, <3>1 DEF Follows
  <2> QED BY <2>1, <2>2
<1>13. Follows'
  BY <1>10, <1>11, <1>12 DEF Follows
<1> QED BY <1>8, <1>13

\* With the update the row has caught up.
LEMMA QuietUpdate ==
    ASSUME LedgerInv, QuietInv, ~overlapped', NEW c \in Commands, UpdateRow(c)
    PROVE  InTurn' /\ Follows'
<1> USE DEF LedgerInv, TypeOK
<1>1. /\ pc[c] = "appended" /\ pc' = [pc EXCEPT ![c] = "over"]
      /\ row' = (IF Kind[c] = "handoff" THEN goal[c] ELSE [row EXCEPT !.state = goal[c].state])
      /\ UNCHANGED <<log, copy, goal, crashes>> /\ ~overlapped
  BY DEF UpdateRow
<1>2. InTurn /\ Follows
  BY <1>1 DEF QuietInv
<1>3. /\ log # <<>> /\ log[Len(log)].state = goal[c].state /\ log[Len(log)].assignee = goal[c].assignee
      /\ Kind[c] # "handoff" => goal[c].assignee = row.assignee
      /\ \A d \in Commands : d # c => pc[d] \notin Running
  BY <1>1, <1>2 DEF InTurn, Running
<1>4. row'.state = goal[c].state /\ row'.assignee = goal[c].assignee
  BY <1>1, <1>3 DEF Rows
<1>5. Level' /\ Behind(crashes)'
  <2>1. 0 \in 0..crashes' /\ 0 < Len(log') /\ Len(log') - 0 = Len(log)
    BY <1>1, <1>3, BoundsAssumption
  <2> QED BY <1>1, <1>3, <1>4, <2>1 DEF Level, Behind
<1>6. Follows'
  BY <1>1, <1>2, <1>5 DEF Follows
<1>7. InTurn'
  BY <1>1, <1>3 DEF InTurn, Running
<1> QED BY <1>6, <1>7

\* Giving up and crashing write nothing; an event whose command dies is one the row stays behind by.
LEMMA QuietEnd ==
    ASSUME LedgerInv, QuietInv, ~overlapped', Crash \/ UNCHANGED vars \/ \E c \in Commands : Abandon(c)
    PROVE  InTurn' /\ Follows'
<1> USE DEF LedgerInv, TypeOK
<1>1. UNCHANGED <<row, log, copy, goal, overlapped>>
  BY DEF Crash, vars, Abandon
<1>2. InTurn /\ Follows
  BY <1>1 DEF QuietInv
<1>3. \A c \in Commands : pc'[c] \in Running => pc'[c] = pc[c]
  BY DEF Crash, vars, Abandon, Running
<1>4. InTurn'
  BY <1>1, <1>2, <1>3 DEF InTurn, Running
<1>5. CASE Crash
  <2>1. crashes' = crashes + 1 /\ crashes' # 0 /\ crashes \in Nat /\ crashes' \in Nat
    BY <1>5, BoundsAssumption DEF Crash
  <2>2. Created' => Behind(crashes')
    BY <1>1, <1>2, <2>1, BehindByMore, NothingWritten DEF Follows
  <2>3. Behind(crashes') => Behind(crashes)'
    BY <1>1 DEF Behind
  <2> QED BY <1>4, <2>1, <2>2, <2>3 DEF Follows
<1>6. CASE UNCHANGED vars \/ \E c \in Commands : Abandon(c)
  <2>1. crashes' = crashes /\ (Ahead' <=> Ahead)
    BY <1>6 DEF vars, Abandon, Ahead
  <2> QED BY <1>1, <1>2, <1>4, <2>1, NothingWritten DEF Follows, Behind
<1> QED BY <1>5, <1>6

\* So it always holds.
LEMMA QuietInvHolds == Spec => []QuietInv
<1>1. Init => QuietInv
  BY DEF Init, QuietInv, InTurn, Follows, Created, Level, Running
<1>2. ASSUME LedgerInv, QuietInv, [Next]_vars PROVE QuietInv'
  <2> SUFFICES ASSUME ~overlapped' PROVE InTurn' /\ Follows'
    BY DEF QuietInv
  <2> QED BY <1>2, QuietBegin, QuietAnnounce, QuietEvent, QuietUpdate, QuietEnd DEF Next, Step
<1> QED BY <1>1, <1>2, LedgerInvariant, PTL DEF Spec

\* As long as commands run one after the other, the log is a history, each event moving on from the
\* last, and the row is behind it by no more events than there were crashes.
THEOREM QuietHistoryHolds == Spec => []QuietHistory
<1>1. ASSUME LedgerInv, QuietInv PROVE QuietHistory
  <2>1. RowBehindByCrashes
    <3> SUFFICES ASSUME ~overlapped, AtRest, Created PROVE Behind(crashes)
      BY DEF RowBehindByCrashes, Behind
    <3>1. ~Ahead
      BY DEF AtRest, Active, Ahead, Running
    <3> QED BY <1>1, <3>1 DEF QuietInv, Follows
  <2>2. HistoryIsAChain
    BY <1>1 DEF HistoryIsAChain, QuietInv, Follows
  <2> QED BY <2>1, <2>2 DEF QuietHistory
<1> QED BY <1>1, LedgerInvariant, QuietInvHolds, PTL
=============================================================================
