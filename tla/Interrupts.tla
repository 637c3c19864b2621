----------------------------- MODULE Interrupts -----------------------------
(***************************************************************************)
(* Claims on a person's attention: raiseInterrupt and downgradeInterrupt   *)
(* (interrupts.ts), called once for each human of a principal by a raised  *)
(* hand (raiseHand.ts), a decision that needs a signature (coSign.ts) and  *)
(* an order that stops (runOrders.ts).  The budget of a raiser is counted  *)
(* from the events of the day; a row keyed by what the claim is about and  *)
(* whom it addresses is inserted first, the event is appended after it.    *)
(*                                                                         *)
(* Left out: the halt of a task by a BLOCKER (no caller names a task), the *)
(* sentences, and the push that follows (PushSends).                       *)
(***************************************************************************)
EXTENDS Naturals, FiniteSets, FiniteSetsExt

CONSTANTS
    Calls,        \* calls of a command that raises, each made once
    Raisers, Abouts,
    Humans,       \* numbers: the humans of the principal, in the order they are listed
    AboutOf,      \* [Calls -> Abouts]: a retried call has the same subject
    RaiserOf,     \* [Abouts -> Raisers]: whose work it is, and who is charged
    UrgencyOf,    \* [Calls -> Urgencies]
    Limit,        \* interrupts_per_day of the raisers' mandates
    Lowerings,    \* downgrades a recipient sends, from any of their devices
    MaxDays,      \* bound: midnights
    MaxIntCrashes \* bound: restarts

Urgencies == {"BLOCKER", "DECISION", "FYI"}
ASSUME CallsAssumption ==
    RaiserOf \in [Abouts -> Raisers] /\ AboutOf \in [Calls -> Abouts] /\ UrgencyOf \in [Calls -> Urgencies]
ASSUME HumansAssumption == Humans \subseteq Nat /\ Humans # {} /\ Abouts # {}
ASSUME FiniteAssumption == IsFiniteSet(Calls) /\ IsFiniteSet(Lowerings) /\ IsFiniteSet(Abouts \X Humans)
\* Whom no call could charge is no raiser.
ASSUME RaisersAssumption == \A r \in Raisers : \E c \in Calls : RaiserOf[AboutOf[c]] = r
ASSUME IntBoundsAssumption == Limit \in Nat /\ MaxDays \in Nat /\ MaxIntCrashes \in Nat

VARIABLES
    claim,      \* about, human -> the row's urgency, or "none"
    raised,     \* the <<about, human>> of interrupt.raised events
    lowered,    \* about, human -> how many interrupt.downgraded events
    spent,      \* raiser -> what today's events charge them
    raise,      \* the calls that raise
    lower,      \* the downgrades
    told,       \* <<call, human>>: the caller was answered that this human is told
    days, intCrashes

intVars == <<claim, raised, lowered, spent, raise, lower, told, days, intCrashes>>

Keys == Abouts \X Humans
Cost(urgency) == IF urgency = "FYI" THEN 0 ELSE 1
\* Mutant: a DECISION is lowered to nothing.
LowerThanNone(urgency) == IF urgency = "BLOCKER" THEN "DECISION" ELSE "none"

LowerThan(urgency) == IF urgency = "BLOCKER" THEN "DECISION" ELSE "FYI"
Rank(urgency) == CASE urgency = "BLOCKER" -> 2 [] urgency = "DECISION" -> 1 [] OTHER -> 0
Key(c) == <<AboutOf[c], Min(raise[c].todo)>>

\* A call goes through the humans in their order; the one it is at is the first it has left.
Ahead(r) == [pc |-> "next", todo |-> r.todo \ {Min(r.todo)}]

Through == [pc |-> "over", key |-> CHOOSE k \in Keys : TRUE, to |-> "FYI"]

IntTypeOK ==
    /\ claim \in [Keys -> Urgencies \cup {"none"}]
    /\ raised \subseteq Keys /\ lowered \in [Keys -> Nat] /\ spent \in [Raisers -> Nat]
    /\ raise \in [Calls -> [pc : {"none", "next", "insert", "append", "over"},
                            todo : SUBSET Humans]]
    /\ lower \in [Lowerings -> [pc : {"none", "append", "write", "over"}, key : Keys,
                                to : Urgencies]]
    /\ told \subseteq Calls \X Humans /\ days \in 0..MaxDays /\ intCrashes \in 0..MaxIntCrashes

IntInit ==
    /\ claim = [k \in Keys |-> "none"]
    /\ raised = {} /\ lowered = [k \in Keys |-> 0] /\ spent = [r \in Raisers |-> 0]
    /\ raise = [c \in Calls |-> [pc |-> "none", todo |-> {}]]
    /\ lower = [d \in Lowerings |-> [Through EXCEPT !.pc = "none"]]
    /\ told = {} /\ days = 0 /\ intCrashes = 0

-----------------------------------------------------------------------------
(* Raising. *)

\* raiseHandCommand, raiseDecisionInterrupts, raiseOrderInterrupts: the humans of the
\* principal who are in the room, one after the other.
StartRaising(c) ==
    /\ raise[c].pc = "none"
    /\ raise' = [raise EXCEPT ![c].pc = "next", ![c].todo = Humans]
    /\ UNCHANGED <<claim, raised, lowered, spent, lower, told, days, intCrashes>>

\* Mutant: the budget is not read.
AffordsAlways(c) == TRUE

\* budgetFor: what the raiser's mandate allows today, less what today's events have charged.
Affords(c) ==
    LET used == spent[RaiserOf[AboutOf[c]]]
    IN  Cost(UrgencyOf[c]) <= (IF used >= Limit THEN 0 ELSE Limit - used)

\* raiseInterrupt up to the insert: the budget is read, and a claim it does not cover is refused.
ReadBudget(c) ==
    /\ raise[c].pc = "next" /\ raise[c].todo # {}
    /\ raise' = [raise EXCEPT ![c] = IF Affords(c) THEN [@ EXCEPT !.pc = "insert"] ELSE Ahead(@)]
    /\ UNCHANGED <<claim, raised, lowered, spent, lower, told, days, intCrashes>>

\* Mutant: every call that finds the row appends the event as well.
InsertAndGoOn(c) ==
    LET k == Key(c) IN
    /\ raise[c].pc = "insert"
    /\ claim' = [claim EXCEPT ![k] = UrgencyOf[c]]
    /\ raise' = [raise EXCEPT ![c].pc = "append"]
    /\ UNCHANGED <<raised, lowered, spent, lower, told, days, intCrashes>>

\* ON CONFLICT DO NOTHING: the first caller goes on to the event, a later one is answered
\* with the row it found and nothing else happens.
InsertClaim(c) ==
    LET k == Key(c) IN
    /\ raise[c].pc = "insert"
    /\ IF claim[k] = "none"
       THEN /\ claim' = [claim EXCEPT ![k] = UrgencyOf[c]]
            /\ raise' = [raise EXCEPT ![c].pc = "append"]
            /\ UNCHANGED told
       ELSE /\ raise' = [raise EXCEPT ![c] = Ahead(@)]
            /\ told' = told \cup {<<c, k[2]>>}
            /\ UNCHANGED claim
    /\ UNCHANGED <<raised, lowered, spent, lower, days, intCrashes>>

\* Mutant: the caller is answered and the event is left for later.
AppendLater(c) ==
    /\ raise[c].pc = "append"
    /\ raise' = [raise EXCEPT ![c] = Ahead(@)]
    /\ told' = told \cup {<<c, Key(c)[2]>>}
    /\ UNCHANGED <<claim, raised, lowered, spent, lower, days, intCrashes>>

\* The interrupt.raised event, which is what is charged.
AppendRaised(c) ==
    /\ raise[c].pc = "append"
    /\ raised' = raised \cup {Key(c)}
    /\ spent' = [spent EXCEPT ![RaiserOf[AboutOf[c]]] = @ + Cost(UrgencyOf[c])]
    /\ raise' = [raise EXCEPT ![c] = Ahead(@)]
    /\ told' = told \cup {<<c, Key(c)[2]>>}
    /\ UNCHANGED <<claim, lowered, lower, days, intCrashes>>

RaisingEnds(c) ==
    /\ raise[c].pc = "next" /\ raise[c].todo = {}
    /\ raise' = [raise EXCEPT ![c].pc = "over"]
    /\ UNCHANGED <<claim, raised, lowered, spent, lower, told, days, intCrashes>>

-----------------------------------------------------------------------------
(* Lowering. *)

\* downgradeInterrupt: the recipient's row is read, and the step down is chosen from it ...
ReadClaim(d) == \E k \in Keys :
    /\ lower[d].pc = "none" /\ claim[k] \in {"BLOCKER", "DECISION"}
    /\ lower' = [lower EXCEPT ![d] = [pc |-> "append", key |-> k, to |-> LowerThan(claim[k])]]
    /\ UNCHANGED <<claim, raised, lowered, spent, raise, told, days, intCrashes>>

\* ... the event charges the raiser ...
AppendLowered(d) ==
    LET k == lower[d].key IN
    /\ lower[d].pc = "append"
    /\ lowered' = [lowered EXCEPT ![k] = @ + 1]
    /\ spent' = [spent EXCEPT ![RaiserOf[k[1]]] = @ + 1]
    /\ lower' = [lower EXCEPT ![d].pc = "write"]
    /\ UNCHANGED <<claim, raised, raise, told, days, intCrashes>>

\* Mutant: the row goes all the way down on one charge.
WriteLowest(d) ==
    /\ lower[d].pc = "write"
    /\ claim' = [claim EXCEPT ![lower[d].key] = "FYI"]
    /\ lower' = [lower EXCEPT ![d] = Through]
    /\ UNCHANGED <<raised, lowered, spent, raise, told, days, intCrashes>>

\* ... and the row is written, whatever it has become.
WriteLowered(d) ==
    /\ lower[d].pc = "write"
    /\ claim' = [claim EXCEPT ![lower[d].key] = lower[d].to]
    /\ lower' = [lower EXCEPT ![d] = Through]
    /\ UNCHANGED <<raised, lowered, spent, raise, told, days, intCrashes>>

-----------------------------------------------------------------------------
\* Midnight UTC: the events of the day before no longer count.
Midnight ==
    /\ days < MaxDays /\ days' = days + 1
    /\ spent' = [r \in Raisers |-> 0]
    /\ UNCHANGED <<claim, raised, lowered, raise, lower, told, intCrashes>>

\* The process restarts; rows and events stay, calls do not.
IntCrash ==
    /\ intCrashes < MaxIntCrashes /\ intCrashes' = intCrashes + 1
    /\ raise' = [c \in Calls |-> IF raise[c].pc = "none" THEN raise[c]
                                 ELSE [pc |-> "over", todo |-> {}]]
    /\ lower' = [d \in Lowerings |-> IF lower[d].pc = "none" THEN lower[d]
                                     ELSE Through]
    /\ UNCHANGED <<claim, raised, lowered, spent, told, days>>

IntNext ==
    \/ \E c \in Calls : StartRaising(c) \/ ReadBudget(c) \/ InsertClaim(c) \/ AppendRaised(c)
                        \/ RaisingEnds(c)
    \/ \E d \in Lowerings : ReadClaim(d) \/ AppendLowered(d) \/ WriteLowered(d)
    \/ Midnight
    \/ IntCrash

IntSpec == IntInit /\ [][IntNext]_intVars

-----------------------------------------------------------------------------
(* Properties. *)

\* limits.interrupts_per_day: the budget is read before the claim and spent after it, so each
\* call of the same raiser that is under way beside another may overspend by one claim, and
\* by no more, whatever number of humans it addresses.  Downgrades are charged beyond it.
BudgetHolds == \A r \in Raisers :
    spent[r] <= Limit + Cardinality({c \in Calls : RaiserOf[AboutOf[c]] = r}) - 1 + Cardinality(Lowerings)

\* A claim is told once: an event for every row that is not still being written, and none
\* without a row; only a crash between the two leaves a row nobody was told of.
ClaimIsTold == \A k \in Keys :
    /\ k \in raised => claim[k] # "none"
    /\ claim[k] # "none" => k \in raised \/ intCrashes > 0
                            \/ \E c \in Calls : raise[c].pc = "append" /\ Key(c) = k

\* An answer is worth something: a caller answered that a human is told was first, or found
\* the row of a call that has told them, is about to, or was lost in a crash.
AnswerIsClaim == \A c \in Calls, h \in Humans : <<c, h>> \in told =>
    \/ <<AboutOf[c], h>> \in raised
    \/ intCrashes > 0
    \/ \E u \in Calls : u # c /\ raise[u].pc = "append" /\ Key(u) = <<AboutOf[c], h>>

\* One attention, one charge: the events never charge more claims than there are rows.
ChargedOnce == days = 0 => \A r \in Raisers :
    LET mine == {k \in Keys : RaiserOf[k[1]] = r /\ claim[k] # "none"}
    IN  spent[r] <= Cardinality(mine) + Cardinality({d \in Lowerings : lower[d].pc \in {"write", "over"}})

\* A downgrade is a signal that costs: a row is never lower than some raise of it less the
\* steps the log charged.
LoweringIsCharged == \A k \in Keys : claim[k] # "none" =>
    \E c \in Calls : AboutOf[c] = k[1] /\ Rank(UrgencyOf[c]) <= Rank(claim[k]) + lowered[k]

\* Attention is told once and every answer about it is true.
ToldOnce == ClaimIsTold /\ AnswerIsClaim

\* Attention is paid for: within the budget, once for each claim, and every step down.
PaidOnce == BudgetHolds /\ ChargedOnce /\ LoweringIsCharged

\* A human is interrupted once, and it is paid for once.
InterruptsHold == ToldOnce /\ PaidOnce
=============================================================================
