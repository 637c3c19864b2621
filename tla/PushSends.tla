----------------------------- MODULE PushSends ------------------------------
(***************************************************************************)
(* Telling a phone: the subscriptions of a principal's devices (push.ts)   *)
(* and notifyPrincipal (push-send.ts), dispatched and never awaited by an  *)
(* interrupt that is already recorded.  It reads the devices, reads the    *)
(* hour's deliveries once, and then sends to one device after the other,   *)
(* writing a row of push_sends for every attempt.                          *)
(*                                                                         *)
(* Abstracted: the payload (it names a room and an urgency, no text).  An  *)
(* FYI and a deployment without keys send nothing and are left out.        *)
(***************************************************************************)
EXTENDS Naturals, FiniteSets, FiniteSetsExt

CONSTANTS
    Principals,
    Endpoints,      \* numbers: the addresses browsers were given, in the order of their rows
    Allowed,        \* those whose origin is a browser vendor's push service
    Notices,        \* notifications, each dispatched once
    PrincipalOf,    \* [Notices -> Principals]
    Throttle,       \* THROTTLE_PER_HOUR
    MaxHours,       \* bound: windows that pass
    MaxPushFaults   \* bound: statements that throw, and restarts

Nobody == "nobody"
ASSUME PushAssumption ==
    /\ Endpoints \subseteq Nat /\ Allowed \subseteq Endpoints /\ Nobody \notin Principals
    /\ IsFiniteSet(Endpoints) /\ IsFiniteSet(Notices)
    /\ PrincipalOf \in [Notices -> Principals]
    /\ Throttle \in Nat /\ MaxHours \in Nat /\ MaxPushFaults \in Nat

VARIABLES
    owner,      \* endpoint -> the principal of its row
    dead,       \* endpoints the vendor has dropped
    push,       \* the notifications: where each is, and the devices it has left
    buzzed,     \* <<notice, endpoint>>: what the vendor accepted
    unheard,    \* those of them whose answer never came back
    sends,      \* the rows of push_sends: notice, endpoint, outcome
    hour,       \* principal -> deliveries recorded in the rolling hour
    crowd,      \* principal -> the most notifications ever under way at once
    hours, pushFaults

pushVars == <<owner, dead, push, buzzed, unheard, sends, hour, crowd, hours, pushFaults>>

Outcomes == {"delivered", "refused_endpoint", "refused_throttle", "failed", "gone"}
NoEndpoint == 0
Sending == {"send", "record", "touch", "failed", "forget", "gone"}

PushTypeOK ==
    /\ owner \in [Endpoints -> Principals \cup {Nobody}] /\ dead \subseteq Endpoints
    /\ push \in [Notices -> [pc : {"none", "throttle", "over"} \cup Sending, subs : SUBSET Endpoints]]
    /\ \A n \in Notices : push[n].pc \in Sending <=> push[n].pc # "throttle" /\ push[n].subs # {}
    /\ buzzed \subseteq Notices \X Endpoints /\ unheard \subseteq buzzed
    /\ sends \subseteq Notices \X (Endpoints \cup {NoEndpoint}) \X Outcomes
    /\ hour \in [Principals -> Nat] /\ crowd \in [Principals -> 0..Cardinality(Notices)]
    /\ hours \in 0..MaxHours /\ pushFaults \in 0..MaxPushFaults

PushInit ==
    /\ owner = [e \in Endpoints |-> Nobody]
    /\ dead = {} /\ buzzed = {} /\ unheard = {} /\ sends = {} /\ hours = 0 /\ pushFaults = 0
    /\ push = [n \in Notices |-> [pc |-> "none", subs |-> {}]]
    /\ hour = [p \in Principals |-> 0] /\ crowd = [p \in Principals |-> 0]

-----------------------------------------------------------------------------
(* The devices. *)

\* upsertSubscription: an address the browser shows again moves to whoever shows it.
Subscribe(e, p) ==
    /\ e \notin dead /\ owner[e] # p /\ owner' = [owner EXCEPT ![e] = p]
    /\ UNCHANGED <<dead, push, buzzed, unheard, sends, hour, crowd, hours, pushFaults>>

\* deleteSubscription, of one's own.
Unsubscribe(e) ==
    /\ owner[e] # Nobody /\ owner' = [owner EXCEPT ![e] = Nobody]
    /\ UNCHANGED <<dead, push, buzzed, unheard, sends, hour, crowd, hours, pushFaults>>

\* The browser or its vendor drops the address, for good.
DropAddress(e) ==
    /\ e \notin dead /\ dead' = dead \cup {e}
    /\ UNCHANGED <<owner, push, buzzed, unheard, sends, hour, crowd, hours, pushFaults>>

-----------------------------------------------------------------------------
(* A notification. *)

Device(n) == Min(push[n].subs)
PushTo(n, pc) == push' = [push EXCEPT ![n].pc = pc]
PushOver(n) == push' = [push EXCEPT ![n] = [pc |-> "over", subs |-> {}]]
\* Mutant: the loop does not end.
OnwardAlways(n) == push' = [push EXCEPT ![n] = [pc |-> "send", subs |-> @.subs \ {Device(n)}]]

\* After the row of an attempt, the next device, if there is one.
Onward(n) ==
    IF push[n].subs = {Device(n)} THEN PushOver(n)
    ELSE push' = [push EXCEPT ![n] = [pc |-> "send", subs |-> @.subs \ {Device(n)}]]
Throws == pushFaults < MaxPushFaults /\ pushFaults' = pushFaults + 1

\* subscriptionsFor: the devices of the moment; none ends it without a row.
ReadDevices(n) ==
    LET subs == {e \in Endpoints : owner[e] = PrincipalOf[n]} IN
    /\ push[n].pc = "none"
    /\ push' = [push EXCEPT ![n] = [pc |-> IF subs = {} THEN "over" ELSE "throttle", subs |-> subs]]
    /\ UNCHANGED <<owner, dead, buzzed, unheard, sends, hour, crowd, hours, pushFaults>>

\* Mutant: the hour is not looked at.
ThrottledNever(p) == FALSE
Throttled(p) == hour[p] >= Throttle

\* sendsInWindow, once for all the devices, and one row for a person who was told enough.
ReadHour(n) ==
    LET p == PrincipalOf[n]
        beside == {u \in Notices : PrincipalOf[u] = p /\ push[u].pc \in Sending}
    IN
    /\ push[n].pc = "throttle"
    /\ IF Throttled(p)
       THEN /\ PushOver(n) /\ UNCHANGED crowd
            /\ sends' = sends \cup {<<n, NoEndpoint, "refused_throttle">>}
       ELSE /\ PushTo(n, "send") /\ UNCHANGED sends
            /\ crowd' = [crowd EXCEPT ![p] = Max({@, Cardinality(beside) + 1})]
    /\ UNCHANGED <<owner, dead, buzzed, unheard, hour, hours, pushFaults>>

\* An address outside the closed list of origins is refused before anything is sent.
RefuseEndpoint(n) ==
    /\ push[n].pc = "send" /\ Device(n) \notin Allowed
    /\ sends' = sends \cup {<<n, Device(n), "refused_endpoint">>}
    /\ Onward(n)
    /\ UNCHANGED <<owner, dead, buzzed, unheard, hour, crowd, hours, pushFaults>>

\* Mutant: an address is taken for gone when the vendor cannot be reached.
RefusalGone(n) == {"forget"}
\* What a send that was not taken means: no such address (404, 410), or any other failure.
Refusal(n) == IF Device(n) \in dead THEN {"forget", "failed"} ELSE {"failed"}

\* Mutant: an answer that does not come counts as one that did.
SendHeard(n) ==
    /\ push[n].pc = "send" /\ Device(n) \in Allowed
    /\ \/ /\ Device(n) \notin dead /\ buzzed' = buzzed \cup {<<n, Device(n)>>} /\ PushTo(n, "record")
          /\ unheard' \in {unheard, unheard \cup {<<n, Device(n)>>}}
       \/ (\E pc \in Refusal(n) : PushTo(n, pc)) /\ UNCHANGED <<buzzed, unheard>>
    /\ UNCHANGED <<owner, dead, sends, hour, crowd, hours, pushFaults>>

\* webpush.sendNotification: the vendor takes the message, or the call throws, or both when
\* the answer is lost on its way back (the status is 0: a failure).
SendPush(n) ==
    /\ push[n].pc = "send" /\ Device(n) \in Allowed
    /\ \/ /\ Device(n) \notin dead /\ buzzed' = buzzed \cup {<<n, Device(n)>>}
          /\ \/ PushTo(n, "record") /\ UNCHANGED unheard
             \/ PushTo(n, "failed") /\ unheard' = unheard \cup {<<n, Device(n)>>}
       \/ (\E pc \in Refusal(n) : PushTo(n, pc)) /\ UNCHANGED <<buzzed, unheard>>
    /\ UNCHANGED <<owner, dead, sends, hour, crowd, hours, pushFaults>>

\* Mutant: what was delivered leaves no row.
RecordNothing(n) ==
    /\ push[n].pc = "record" /\ PushTo(n, "touch")
    /\ UNCHANGED <<owner, dead, buzzed, unheard, sends, hour, crowd, hours, pushFaults>>

\* The row of a delivery; when it cannot be written, the catch block takes the send for failed.
RecordDelivered(n) ==
    /\ push[n].pc = "record"
    /\ \/ /\ PushTo(n, "touch") /\ sends' = sends \cup {<<n, Device(n), "delivered">>}
          /\ hour' = [hour EXCEPT ![PrincipalOf[n]] = @ + 1] /\ UNCHANGED pushFaults
       \/ Throws /\ PushTo(n, "failed") /\ UNCHANGED <<sends, hour>>
    /\ UNCHANGED <<owner, dead, buzzed, unheard, crowd, hours>>

\* markDelivered, inside the same try block.
Touch(n) ==
    /\ push[n].pc = "touch"
    /\ \/ Onward(n) /\ UNCHANGED pushFaults
       \/ Throws /\ PushTo(n, "failed")
    /\ UNCHANGED <<owner, dead, buzzed, unheard, sends, hour, crowd, hours>>

\* Mutant: the address is kept.
ForgetNothing(n) ==
    /\ push[n].pc = "forget" /\ PushTo(n, "gone")
    /\ UNCHANGED <<owner, dead, buzzed, unheard, sends, hour, crowd, hours, pushFaults>>

\* deleteByEndpoint: the address is gone, whoever's it is by now; a throw ends the notification.
Forget(n) ==
    /\ push[n].pc = "forget"
    /\ \/ owner' = [owner EXCEPT ![Device(n)] = Nobody] /\ PushTo(n, "gone") /\ UNCHANGED pushFaults
       \/ Throws /\ PushOver(n) /\ UNCHANGED owner
    /\ UNCHANGED <<dead, buzzed, unheard, sends, hour, crowd, hours>>

\* The row of a failure; a throw here leaves the loop.
RecordFailed(n) ==
    /\ push[n].pc \in {"failed", "gone"}
    /\ \/ /\ sends' = sends \cup {<<n, Device(n), push[n].pc>>}
          /\ Onward(n) /\ UNCHANGED pushFaults
       \/ Throws /\ PushOver(n) /\ UNCHANGED sends
    /\ UNCHANGED <<owner, dead, buzzed, unheard, hour, crowd, hours>>

-----------------------------------------------------------------------------
\* An hour passes: the window is rolling, here it empties at once.
HourPasses ==
    /\ hours < MaxHours /\ hours' = hours + 1
    /\ hour' = [p \in Principals |-> 0]
    /\ UNCHANGED <<owner, dead, push, buzzed, unheard, sends, crowd, pushFaults>>

\* The process dies with the sends it had dispatched.
PushCrash ==
    /\ Throws
    /\ push' = [n \in Notices |-> IF push[n].pc = "none" THEN push[n] ELSE [pc |-> "over", subs |-> {}]]
    /\ UNCHANGED <<owner, dead, buzzed, unheard, sends, hour, crowd, hours>>

PushNext ==
    \/ \E e \in Endpoints : (\E p \in Principals : Subscribe(e, p)) \/ Unsubscribe(e) \/ DropAddress(e)
    \/ \E n \in Notices : \/ ReadDevices(n) \/ ReadHour(n) \/ RefuseEndpoint(n) \/ SendPush(n)
                          \/ RecordDelivered(n) \/ Touch(n) \/ Forget(n) \/ RecordFailed(n)
    \/ HourPasses
    \/ PushCrash

PushSpec == PushInit /\ [][PushNext]_pushVars

-----------------------------------------------------------------------------
(* Properties. *)

\* The record is the truth about what was attempted ("the log of what was actually attempted"):
\* a delivery row means that the vendor took the message and said so.  Unless a statement threw
\* or died, a message it took has that row, or it is being written, and none that calls it
\* failed; but for one whose answer was lost, which the log calls failed though the phone has it.
RecordsAreSends ==
    /\ \A n \in Notices, e \in Endpoints :
          <<n, e, "delivered">> \in sends => <<n, e>> \in buzzed /\ <<n, e>> \notin unheard
    /\ pushFaults = 0 => \A b \in buzzed :
          LET says(outcome) == <<b[1], b[2], outcome>> \in sends
              at(pc) == push[b[1]].pc = pc /\ Device(b[1]) = b[2]
          IN  IF b \in unheard THEN says("failed") \/ at("failed")
              ELSE (says("delivered") \/ at("record")) /\ ~says("failed")

\* The throttle is read once for all the devices of a person: an hour delivers beyond it only
\* what the notifications that were under way together had left to send.
ThrottleHolds == \A p \in Principals :
    hour[p] > 0 => hour[p] <= Throttle - 1 + crowd[p] * Cardinality(Allowed)

\* A vendor's word that an address is gone is acted on, and on nothing less: a "gone" row is of
\* a dropped address that no principal has any more, so no later notification tries it.
GoneIsDeleted == \A n \in Notices, e \in Endpoints :
    <<n, e, "gone">> \in sends => e \in dead /\ owner[e] = Nobody
\* The rows of push_sends say what was done to a person's phones, and bound it.
SendsAreTrue == RecordsAreSends /\ GoneIsDeleted /\ ThrottleHolds
=============================================================================
