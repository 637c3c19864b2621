----------------------------- MODULE TaskLedger -----------------------------
(***************************************************************************)
(* One task: its row in `tasks` and its events in the log, written by      *)
(* commands that overlap (apps/api/src/tasks.ts, and its callers fireSummon*)
(* in commands/summon.ts, moveTask in agent.ts and commands/handoff.ts).   *)
(*                                                                         *)
(* Nothing here is a transaction: a command reads the row, appends the     *)
(* event, then updates the row, and each of the three is a round trip to   *)
(* the database during which the other commands run.                       *)
(*                                                                         *)
(* Abstracted: the task's action, intent, reasons and mandate hashes.      *)
(***************************************************************************)
EXTENDS Naturals, Sequences, FiniteSets

CONSTANTS
    Commands,     \* the commands that touch this task
    Kind,         \* [Commands -> {"summon", "turn", "handoff"}]
    Members,      \* who may hold the task
    Origin,       \* the member the summon addressed
    MaxActive,    \* bound: commands running at once
    MaxCrashes    \* bound: crashes of the process

ASSUME KindAssumption == Kind \in [Commands -> {"summon", "turn", "handoff"}]
ASSUME OriginAssumption == Origin \in Members
ASSUME BoundsAssumption == MaxActive \in Nat /\ MaxCrashes \in Nat

VARIABLES
    row,       \* the tasks row: [state, assignee], state "none" before the insert
    log,       \* this task's events, in seq order
    birth,     \* the state the row was inserted with
    pc,        \* where each command is suspended
    copy,      \* the row each command read, kept across its awaits
    goal,      \* the row each command means to leave
    crashes,
    overlapped \* history: some command began while another was running

vars == <<row, log, birth, pc, copy, goal, crashes, overlapped>>

States == {"none", "submitted", "working", "input-required", "held", "done"}
Rows == [state : States, assignee : Members]
Events == [type : {"task.created", "task.state", "task.handoff"},
           state : States, from : Rows, assignee : Members]

\* Suspended after reading the row or inserting it, or between the event and the update.
Running == {"inserted", "read", "appended"}

TypeOK ==
    /\ row \in Rows
    /\ log \in Seq(Events)
    /\ birth \in States
    /\ pc \in [Commands -> Running \cup {"idle", "over", "dead"}]
    /\ copy \in [Commands -> Rows]
    /\ goal \in [Commands -> Rows]
    /\ crashes \in 0..MaxCrashes
    /\ overlapped \in BOOLEAN

NoRow == [state |-> "none", assignee |-> Origin]

Init ==
    /\ row = NoRow
    /\ log = <<>>
    /\ birth = "none"
    /\ pc = [c \in Commands |-> "idle"]
    /\ copy = [c \in Commands |-> NoRow]
    /\ goal = [c \in Commands |-> NoRow]
    /\ crashes = 0
    /\ overlapped = FALSE

Active == {d \in Commands : pc[d] \in Running}

Begin(c) ==
    /\ pc[c] = "idle"
    /\ Cardinality(Active) < MaxActive
    /\ overlapped' = (overlapped \/ Active # {})

\* The task's id has reached the room: some summon got past its task.
Known == \E c \in Commands : Kind[c] = "summon" /\ pc[c] = "over"

-----------------------------------------------------------------------------
(* fireSummon: the task is inserted, or the one of an earlier call is found. *)

\* ensureTask's insert: working when the member has a route, input-required when not.
InsertTask(c) ==
    /\ Kind[c] = "summon"
    /\ Begin(c)
    /\ row.state = "none"
    /\ \E s \in {"working", "input-required"} :
          /\ row' = [state |-> s, assignee |-> Origin]
          /\ birth' = s
    /\ copy' = [copy EXCEPT ![c] = row']
    /\ goal' = [goal EXCEPT ![c] = row']
    /\ pc' = [pc EXCEPT ![c] = "inserted"]
    /\ UNCHANGED <<log, crashes>>

\* Mutant: a replay announces the task it found.
FindAndAnnounce(c) ==
    /\ Kind[c] = "summon"
    /\ Begin(c)
    /\ row.state # "none"
    /\ copy' = [copy EXCEPT ![c] = row]
    /\ goal' = [goal EXCEPT ![c] = row]
    /\ pc' = [pc EXCEPT ![c] = "inserted"]
    /\ UNCHANGED <<row, log, birth, crashes>>

\* ensureTask's conflict: a replay of the cause.  With a route the row is left alone; without
\* one the task is about to be moved to input-required.
FindTask(c) ==
    /\ Kind[c] = "summon"
    /\ Begin(c)
    /\ row.state # "none"
    /\ copy' = [copy EXCEPT ![c] = row]
    /\ \/ /\ pc' = [pc EXCEPT ![c] = "over"]
          /\ goal' = [goal EXCEPT ![c] = row]
       \/ /\ pc' = [pc EXCEPT ![c] = "read"]
          /\ goal' = [goal EXCEPT ![c] = [row EXCEPT !.state = "input-required"]]
    /\ UNCHANGED <<row, log, birth, crashes>>

Logged(c, type) ==
    [type |-> type, state |-> goal[c].state, from |-> copy[c], assignee |-> goal[c].assignee]

\* taskCreatedEvent, by the command that inserted the row only.  (The transition to
\* input-required that may follow finds its own copy already there.)
AnnounceTask(c) ==
    /\ pc[c] = "inserted"
    /\ log' = Append(log, Logged(c, "task.created"))
    /\ pc' = [pc EXCEPT ![c] = "over"]
    /\ UNCHANGED <<row, birth, copy, goal, crashes, overlapped>>

-----------------------------------------------------------------------------
(* moveTask and the summon's transition; handoffCommand. *)

\* moveTask: getTask, then transitionTask(done) or transitionTask(held).
ReadForMove(c) ==
    /\ Kind[c] = "turn"
    /\ Begin(c)
    /\ Known
    /\ copy' = [copy EXCEPT ![c] = row]
    /\ \E s \in {"done", "held"} : goal' = [goal EXCEPT ![c] = [row EXCEPT !.state = s]]
    /\ pc' = [pc EXCEPT ![c] = "read"]
    /\ UNCHANGED <<row, log, birth, crashes>>

\* handoffCommand: getTask; its checks (party, roster, the receiver's mandate) use the copy.
ReadForHandoff(c) ==
    /\ Kind[c] = "handoff"
    /\ Begin(c)
    /\ Known
    /\ copy' = [copy EXCEPT ![c] = row]
    /\ \E m \in Members :
          goal' = [goal EXCEPT ![c] = [state |-> "submitted", assignee |-> m]]
    /\ pc' = [pc EXCEPT ![c] = "read"]
    /\ UNCHANGED <<row, log, birth, crashes>>

\* Mutant: the row is updated before the event is appended.
AppendAfterUpdate(c) ==
    /\ pc[c] = "read"
    /\ row' = IF Kind[c] = "handoff" THEN goal[c] ELSE [row EXCEPT !.state = goal[c].state]
    /\ pc' = [pc EXCEPT ![c] = "appended"]
    /\ UNCHANGED <<log, birth, copy, goal, crashes, overlapped>>

\* The event of transitionTask or handoffTask, from the copy and not from the row.
AppendEvent(c) ==
    /\ pc[c] = "read"
    /\ Kind[c] # "handoff" => copy[c].state # goal[c].state
    /\ log' = Append(log, Logged(c, IF Kind[c] = "handoff" THEN "task.handoff" ELSE "task.state"))
    /\ pc' = [pc EXCEPT ![c] = "appended"]
    /\ UNCHANGED <<row, birth, copy, goal, crashes, overlapped>>

\* transitionTask finds the state already there, or the handoff is refused.
Abandon(c) ==
    /\ pc[c] = "read"
    /\ Kind[c] # "handoff" => copy[c].state = goal[c].state
    /\ pc' = [pc EXCEPT ![c] = "over"]
    /\ UNCHANGED <<row, log, birth, copy, goal, crashes, overlapped>>

\* Mutant: a handoff updates the assignee and forgets the state.
UpdateAssigneeOnly(c) ==
    /\ pc[c] = "appended"
    /\ row' = IF Kind[c] = "handoff" THEN [row EXCEPT !.assignee = goal[c].assignee]
              ELSE [row EXCEPT !.state = goal[c].state]
    /\ pc' = [pc EXCEPT ![c] = "over"]
    /\ UNCHANGED <<log, birth, copy, goal, crashes, overlapped>>

\* Mutant: the whole copy is written back, with the assignee it had when it was read.
UpdateWholeRow(c) ==
    /\ pc[c] = "appended"
    /\ row' = goal[c]
    /\ pc' = [pc EXCEPT ![c] = "over"]
    /\ UNCHANGED <<log, birth, copy, goal, crashes, overlapped>>

\* A transition updates the state column, a handoff the assignee and the state.
UpdateRow(c) ==
    /\ pc[c] = "appended"
    /\ row' = IF Kind[c] = "handoff" THEN goal[c] ELSE [row EXCEPT !.state = goal[c].state]
    /\ pc' = [pc EXCEPT ![c] = "over"]
    /\ UNCHANGED <<log, birth, copy, goal, crashes, overlapped>>

\* The process dies: its commands stop where they are suspended.
Crash ==
    /\ crashes < MaxCrashes
    /\ crashes' = crashes + 1
    /\ pc' = [c \in Commands |-> IF pc[c] \in Running THEN "dead" ELSE pc[c]]
    /\ UNCHANGED <<row, log, birth, copy, goal, overlapped>>

Step(c) ==
    \/ InsertTask(c) \/ FindTask(c) \/ AnnounceTask(c)
    \/ ReadForMove(c) \/ ReadForHandoff(c)
    \/ AppendEvent(c) \/ Abandon(c) \/ UpdateRow(c)

Next == Crash \/ \E c \in Commands : Step(c)

Spec == Init /\ [][Next]_vars

-----------------------------------------------------------------------------
(* Properties. *)

\* rebuild(): the state the events imply, the last one's.
Rebuild(l) == IF l = <<>> THEN "none" ELSE l[Len(l)].state

LoggedStates == {log[i].state : i \in 1..Len(log)}
Created == \E i \in 1..Len(log) : log[i].type = "task.created"
AtRest == Active = {}

\* Event first, row second: however the commands overlap and wherever the process dies, the row
\* never shows a state that nothing in the log (or the insert itself) put there.
RowFromLog == row.state # "none" => row.state \in LoggedStates \cup {birth}

\* A task changes hands only by the update of a handoff the log already holds: a transition that
\* read the row before the handoff cannot give the task back to the member it was taken from.
HolderMovesByHandoff ==
    [][row.state # "none" /\ row'.assignee # row.assignee =>
          \E c \in Commands, i \in 1..Len(log) :
             /\ Kind[c] = "handoff" /\ pc[c] = "appended" /\ pc'[c] = "over"
             /\ log[i].type = "task.handoff" /\ log[i].assignee = row'.assignee]_vars

\* One task is created once in the log, however often its cause is replayed.
CreatedOnce ==
    \A i, j \in 1..Len(log) :
        log[i].type = "task.created" /\ log[j].type = "task.created" => i = j

\* As long as commands do not overlap, the row at rest is behind the log by at most one event for
\* each crash, and agrees with it when there was none: what tasks.ts:16 calls recoverable.
RowBehindByCrashes ==
    ~overlapped /\ AtRest /\ Created =>
        \E k \in 0..crashes : k < Len(log) /\ row.state = log[Len(log) - k].state

\* As long as commands do not overlap and the process does not die, every event says truly what it moved from,
\* so the log reads as a history and a handoff names the member who held the task.
HistoryIsAChain ==
    ~overlapped /\ crashes = 0 =>
        \A i \in 2..Len(log) :
            /\ log[i].from.state = log[i-1].state
            /\ log[i].from.assignee = log[i-1].assignee

\* As long as commands do not overlap, the log is a history and the row follows it.
QuietHistory == RowBehindByCrashes /\ HistoryIsAChain

\* "A projection that cannot be rebuilt from the log is a bug" (README.md:141) and "if this
\* disagrees with the tasks row, the row is wrong" (tasks.ts:268): at rest they agree.
RowIsRebuildable == AtRest /\ Created => row.state = Rebuild(log)
=============================================================================
