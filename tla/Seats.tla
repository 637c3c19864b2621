-------------------------------- MODULE Seats --------------------------------
(***************************************************************************)
(* How a room gets its members: createRoom and admitMember (events.ts),    *)
(* the admit command (commands/admit.ts), and the room codes of            *)
(* room-codes.ts, by which a person takes a guest seat: one principal with *)
(* an agent, whose human member is named and enrolled when the code is     *)
(* redeemed, in one transaction with the credential they leave with.       *)
(*                                                                         *)
(* A code is named by the call that mints it. Abstracted: names and        *)
(* labels; a lapsed code keeps its row; the roster's static checks.        *)
(***************************************************************************)
EXTENDS Naturals, FiniteSets

CONSTANTS
    Mints,          \* calls of mintRoomCode, and the codes they make
    SeatOf,         \* the guest principal each is for
    Redeems,        \* calls of redeemRoomCode: a person each
    CodeOf,         \* [Redeems -> Mints]: the code each presents
    MaxFailures,    \* bound: redemptions that fail halfway
    Posts,          \* members who post a room of one name
    Guests          \* members who are only ever admitted

Seat == {SeatOf[m] : m \in Mints}

ASSUME SeatAssumption ==
    /\ SeatOf \in [Mints -> Seat] /\ CodeOf \in [Redeems -> Mints]
    /\ MaxFailures \in Nat /\ Posts \cap Guests = {} /\ "none" \notin Posts

VARIABLES
    roomCode,   \* Mints -> the row of room_codes: "none", "open", "lapsed" or "spent"
    minting,    \* Mints -> where the call is
    redeeming,  \* Redeems -> where the call is; "claimed", "seated" and "paid" hold the row's lock
    seated,     \* <<seat, person>>: who holds the human member of a seat, by name and enrolment
    paid,       \* <<seat, person>>: the credentials that work
    raced,      \* mints that had passed the check for a spent seat when the seat was spent
    failures,
    roomOwner,  \* rooms.created_by of the one room, or "none"
    enrolled,   \* room_members of that room
    admitting   \* <<actor, target>>: admits past the owner's check

seatVars == <<roomCode, minting, redeeming, seated, paid, raced, failures, roomOwner, enrolled, admitting>>

People == Posts \cup Guests
InTransaction == {"claimed", "seated", "paid"}
SeatFor(r) == SeatOf[CodeOf[r]]

SeatTypeOK ==
    /\ roomCode \in [Mints -> {"none", "open", "lapsed", "spent"}]
    /\ minting \in [Mints -> {"none", "insert", "minted", "refused"}]
    /\ redeeming \in [Redeems -> InTransaction \cup {"none", "refused", "failed", "redeemed"}]
    /\ seated \subseteq Seat \X Redeems /\ paid \subseteq Seat \X Redeems
    /\ raced \subseteq Mints /\ failures \in 0..MaxFailures
    /\ roomOwner \in Posts \cup {"none"} /\ enrolled \subseteq People
    /\ admitting \subseteq People \X People

SeatInit ==
    /\ roomCode = [m \in Mints |-> "none"] /\ minting = [m \in Mints |-> "none"]
    /\ redeeming = [r \in Redeems |-> "none"]
    /\ seated = {} /\ paid = {} /\ raced = {} /\ failures = 0
    /\ roomOwner = "none" /\ enrolled = {} /\ admitting = {}

roomVars == <<roomOwner, enrolled, admitting>>
codeVars == <<roomCode, minting, redeeming, seated, paid, raced, failures>>

-----------------------------------------------------------------------------
(* Minting. *)

CodesOf(s) == {m \in Mints : SeatOf[m] = s}

\* Mutant: the check looks for the code that is being minted.
SpentSeatNever(s) == FALSE

\* The seat has a redeemed code.
SpentSeat(s) == \E m \in CodesOf(s) : roomCode[m] = "spent"

CheckSpent(m) ==
    /\ minting[m] = "none"
    /\ minting' = [minting EXCEPT ![m] = IF SpentSeat(SeatOf[m]) THEN "refused" ELSE "insert"]
    /\ UNCHANGED <<roomCode, redeeming, seated, paid, raced, failures, roomVars>>

\* The insert: the index keeps one unredeemed code per seat, the lapsed ones included.
InsertCode(m) ==
    /\ minting[m] = "insert"
    /\ IF \E n \in CodesOf(SeatOf[m]) : roomCode[n] \in {"open", "lapsed"}
         THEN minting' = [minting EXCEPT ![m] = "refused"] /\ UNCHANGED roomCode
         ELSE /\ minting' = [minting EXCEPT ![m] = "minted"]
              /\ roomCode' = [roomCode EXCEPT ![m] = "open"]
    /\ UNCHANGED <<redeeming, seated, paid, raced, failures, roomVars>>

Lapse(m) ==
    /\ roomCode[m] = "open" /\ roomCode' = [roomCode EXCEPT ![m] = "lapsed"]
    /\ UNCHANGED <<minting, redeeming, seated, paid, raced, failures, roomVars>>

-----------------------------------------------------------------------------
(* Redeeming: one transaction, the code's row locked from the claim on. *)

\* Mutant: the row is read without FOR UPDATE.
UnlockedFor(r) == TRUE

Unlocked(r) == \A q \in Redeems : redeeming[q] \in InTransaction => CodeOf[q] # CodeOf[r]

\* The claim waits for the row's lock, and reads the row as the holder left it.
Claim(r) ==
    /\ redeeming[r] = "none" /\ Unlocked(r)
    /\ redeeming' = [redeeming EXCEPT ![r] = IF roomCode[CodeOf[r]] = "open" THEN "claimed" ELSE "refused"]
    /\ UNCHANGED <<roomCode, minting, seated, paid, raced, failures, roomVars>>

\* The human member, the principal's name, both enrolments and the code's stamp: the
\* transaction's own until it commits.
TakeSeat(r) ==
    /\ redeeming[r] = "claimed"
    /\ redeeming' = [redeeming EXCEPT ![r] = "seated"]
    /\ UNCHANGED <<roomCode, minting, seated, paid, raced, failures, roomVars>>

\* Mutant: the credential is issued on a connection of its own.
IssuedAtOnce(r) == {<<SeatFor(r), r>>}

\* Mutant: the seat and the person change places.
IssuedSwapped(r) == {<<r, SeatFor(r)>>}

\* What is seen of the credential before the commit: nothing, it is issued on the
\* transaction's client.
IssuedBefore(r) == {}

IssueSeatCredential(r) ==
    /\ redeeming[r] = "seated"
    /\ redeeming' = [redeeming EXCEPT ![r] = "paid"]
    /\ paid' = paid \cup IssuedBefore(r)
    /\ UNCHANGED <<roomCode, minting, seated, raced, failures, roomVars>>

\* The seat is renamed after the person who redeemed last.
CommitRedemption(r) ==
    /\ redeeming[r] = "paid"
    /\ redeeming' = [redeeming EXCEPT ![r] = "redeemed"]
    /\ roomCode' = [roomCode EXCEPT ![CodeOf[r]] = "spent"]
    /\ seated' = {h \in seated : h[1] # SeatFor(r)} \cup {<<SeatFor(r), r>>}
    /\ paid' = paid \cup {<<SeatFor(r), r>>}
    /\ raced' = raced \cup {m \in CodesOf(SeatFor(r)) : minting[m] = "insert"}
    /\ UNCHANGED <<minting, failures, roomVars>>

\* Any statement of the transaction throws, or its process dies: ROLLBACK.
RollBack(r) ==
    /\ failures < MaxFailures /\ redeeming[r] \in InTransaction
    /\ redeeming' = [redeeming EXCEPT ![r] = "failed"] /\ failures' = failures + 1
    /\ UNCHANGED <<roomCode, minting, seated, paid, raced, roomVars>>

-----------------------------------------------------------------------------
(* Rooms and the admit command. *)

\* Mutant: a repeated POST takes the room over.
OwnerLast(h) == h

\* ON CONFLICT DO NOTHING: the first to post owns the room.
OwnerAfter(h) == IF roomOwner = "none" THEN h ELSE roomOwner

\* createRoom: the caller is enrolled in the same transaction, in a room that was there
\* already as in a new one.
CreateRoom(h) ==
    /\ roomOwner' = OwnerAfter(h) /\ enrolled' = enrolled \cup {h}
    /\ <<roomOwner', enrolled'>> # <<roomOwner, enrolled>>
    /\ UNCHANGED <<codeVars, admitting>>

\* admitCommand up to the read of the target's membership: the actor owns the room.
StartAdmit(h, g) ==
    /\ roomOwner = h /\ g \notin enrolled /\ <<h, g>> \notin admitting
    /\ admitting' = admitting \cup {<<h, g>>}
    /\ UNCHANGED <<codeVars, roomOwner, enrolled>>

\* admitMember: idempotent, whatever joined meanwhile.
AdmitMember(h, g) ==
    /\ <<h, g>> \in admitting
    /\ admitting' = admitting \ {<<h, g>>} /\ enrolled' = enrolled \cup {g}
    /\ UNCHANGED <<codeVars, roomOwner>>

SeatNext ==
    \/ \E m \in Mints : CheckSpent(m) \/ InsertCode(m) \/ Lapse(m)
    \/ \E r \in Redeems : \/ Claim(r) \/ TakeSeat(r) \/ IssueSeatCredential(r)
                          \/ CommitRedemption(r) \/ RollBack(r)
    \/ \E h \in Posts : CreateRoom(h) \/ \E g \in People : StartAdmit(h, g) \/ AdmitMember(h, g)

SeatSpec == SeatInit /\ [][SeatNext]_seatVars

-----------------------------------------------------------------------------
(* A code seats one person: two who present it at once do not both leave   *)
(* with a credential.                                                      *)
CodeSeatsOne ==
    \A q, r \in Redeems : redeeming[q] = "redeemed" /\ redeeming[r] = "redeemed" /\ q # r
        => CodeOf[q] # CodeOf[r]

(* All or nothing: whoever has a working credential redeemed a code, which *)
(* is spent, and whoever redeemed holds the seat or was followed in it by  *)
(* a later redemption; a redemption that failed leaves the code usable.    *)
RedeemedOrNothing ==
    /\ \A p \in paid : redeeming[p[2]] = "redeemed" /\ roomCode[CodeOf[p[2]]] = "spent"
    /\ \A r \in Redeems : redeeming[r] = "redeemed"
         => <<SeatFor(r), r>> \in paid /\ \E q \in Redeems : <<SeatFor(r), q>> \in seated
    /\ \A m \in Mints : roomCode[m] = "spent" => \E r \in Redeems : redeeming[r] = "redeemed" /\ CodeOf[r] = m

(* "A SPENT SEAT STAYS SPENT" (room-codes.ts:100), up to the race that is   *)
(* there: apart from mints that had passed the check when the seat was      *)
(* spent, one code of a seat is ever redeemed, so one person has it.        *)
SecondHolderRaced ==
    \A s \in Seat : Cardinality({m \in CodesOf(s) \ raced : roomCode[m] = "spent"}) <= 1

(* The same without the exception: what the comment says.                   *)
SpentStaysSpent == \A s \in Seat : Cardinality({m \in CodesOf(s) : roomCode[m] = "spent"}) <= 1

(* An admit under way is the owner's: the room it was checked against has   *)
(* not changed hands since, whoever posts the room's id again.              *)
AdmitIsTheOwners == \A a \in admitting : a[1] = roomOwner
(* A seat is taken once, whole, and by leave of the room's owner.           *)
SeatsHold == CodeSeatsOne /\ RedeemedOrNothing /\ SecondHolderRaced /\ AdmitIsTheOwners
=============================================================================
