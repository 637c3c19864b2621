------------------------------ MODULE Browser -------------------------------
(***************************************************************************)
(* A person's browser and the web tier between it and the API: the cookie  *)
(* a redeemed code leaves (session.ts, api/join), the credential every     *)
(* route of the web tier acts with, the pages that need one, and the       *)
(* switch for notifications (PushControl.tsx), one in every open room, all *)
(* sharing the browser's one permission, subscription and cookie.          *)
(*                                                                         *)
(* A session is named by the code that gives it.  Abstracted: names, keys  *)
(* and texts; the redemption itself (Seats) and the sends (PushSends); a   *)
(* browser in which nothing can be installed or pushed; an address that    *)
(* the browser or its vendor drops by itself (PushSends.DropAddress), and a    *)
(* page reloaded in the middle of the requests of its switch.              *)
(***************************************************************************)
EXTENDS Naturals, FiniteSets

CONSTANTS
    Tabs,
    Sessions,           \* the codes a person was sent, and the credentials they give
    Deployments,        \* whom PLAYROOM_WEB_TOKEN may act as, or NoToken where it is not set
    NoToken,
    MaxAddresses,       \* bound: subscriptions the browser makes
    MaxBrowserFaults    \* bound: requests that throw, answers that are lost

ASSUME BrowserAssumption ==
    /\ NoToken \notin Sessions /\ Sessions \cap Deployments = {}
    /\ MaxAddresses \in Nat /\ MaxBrowserFaults \in Nat

VARIABLES
    deployment,     \* whom this deployment's own token acts as
    jar,            \* the session cookie, or NoToken
    invite,         \* Sessions -> "open" or "spent"
    entered,        \* sessions whose cookie has reached the browser
    over,           \* sessions that have expired or were revoked
    tab,            \* Tabs -> the screen: where it is, with which code, acting as whom
    permission,     \* what the person answered the browser
    address,        \* the browser's subscription; 0 for none
    made,           \* subscriptions made so far
    phoneRow,       \* address -> whose row of push_subscriptions, or NoToken
    switch,         \* Tabs -> what the control shows, what it is doing, and about which address
    deed,           \* whom the last request was recorded as, and whether a session had entered or ended by then
    clicked,        \* the person has asked for notifications
    unremoved,      \* addresses given up after an answer that removed no row
    crossed,        \* addresses registered by one room while another was giving them up
    browserFaults

webVars == <<deployment, jar, invite, entered, over, tab, deed>>
phoneVars == <<permission, address, made, phoneRow, switch, clicked, unremoved, crossed>>
browserVars == <<webVars, phoneVars, browserFaults>>

Address == 1..MaxAddresses
Anyone == Sessions \cup Deployments \cup {NoToken}
Shown == {"checking", "off", "on", "blocked", "unconfigured", "error"}

BrowserTypeOK ==
    /\ deployment \in Deployments /\ jar \in Sessions \cup {NoToken} /\ entered \cup over \subseteq Sessions
    /\ invite \in [Sessions -> {"open", "spent"}]
    /\ tab \in [Tabs -> [at : {"closed", "start", "join", "joining", "redeemed", "failed", "page", "room"},
                         code : Sessions \cup {NoToken}, as : Anyone]]
    /\ permission \in {"default", "granted", "denied"}
    /\ made \in 0..MaxAddresses /\ address \in 0..made /\ phoneRow \in [Address -> Anyone]
    /\ switch \in [Tabs -> [shows : Shown, about : 0..MaxAddresses, removed : BOOLEAN,
                            doing : {"nothing", "state", "key", "ask", "subscribe", "post", "delete", "drop"}]]
    /\ deed \in [by : Anyone, joined : BOOLEAN, ended : BOOLEAN]
    /\ clicked \in BOOLEAN /\ unremoved \cup crossed \subseteq Address
    /\ browserFaults \in 0..MaxBrowserFaults

Closed == [at |-> "closed", code |-> NoToken, as |-> NoToken]
Mounted == [shows |-> "checking", about |-> 0, removed |-> FALSE, doing |-> "nothing"]

BrowserInit ==
    /\ deployment \in Deployments /\ jar = NoToken /\ entered = {} /\ over = {} /\ deed = [by |-> NoToken, joined |-> FALSE, ended |-> FALSE]
    /\ invite = [s \in Sessions |-> "open"] /\ tab = [t \in Tabs |-> Closed]
    /\ permission = "default" /\ address = 0 /\ made = 0 /\ phoneRow = [e \in Address |-> NoToken]
    /\ switch = [t \in Tabs |-> Mounted]
    /\ clicked = FALSE /\ unremoved = {} /\ crossed = {} /\ browserFaults = 0

Faulty == browserFaults < MaxBrowserFaults /\ browserFaults' = browserFaults + 1

-----------------------------------------------------------------------------
(* The web tier. *)

\* Mutant: the deployment's own token comes first.
DeploymentFirst == IF deployment # NoToken THEN deployment ELSE jar

\* viewerCredential: the session where there is one, else the deployment's token.
Viewer == IF jar # NoToken THEN jar ELSE deployment

\* The API takes the credential of a request.
Authenticated == Viewer # NoToken /\ Viewer \notin over
Recorded == deed' = [by |-> Viewer, joined |-> entered # {}, ended |-> over # {}]

\* A room's page is loaded: without any credential it is the join screen instead, and where the
\* roster cannot be read with the credential there is no page at all.
Screen == [Closed EXCEPT !.at = IF Viewer = NoToken THEN "join"
                                ELSE IF Authenticated THEN "page" ELSE "failed"]
Loads(t) == tab' = [tab EXCEPT ![t] = Screen] /\ switch' = [switch EXCEPT ![t] = Mounted]

OpenRoomPage(t) ==
    /\ tab[t].at \notin {"joining", "redeemed"} /\ switch[t].doing = "nothing"
    /\ Loads(t) /\ <<tab', switch'>> # <<tab, switch>>
    /\ UNCHANGED <<deployment, jar, invite, entered, over, deed, permission, address, made, phoneRow,
                   clicked, unremoved, crossed, browserFaults>>

OpenForm(t, at) ==
    /\ tab[t].at \in {"closed", "page", "room"} /\ switch[t].doing = "nothing"
    /\ tab' = [tab EXCEPT ![t] = [Closed EXCEPT !.at = at]] /\ switch' = [switch EXCEPT ![t] = Mounted]
    /\ UNCHANGED <<deployment, jar, invite, entered, over, deed, permission, address, made, phoneRow,
                   clicked, unremoved, crossed, browserFaults>>

\* JoinForm: one request at a time from one form.
SubmitCode(t, s) ==
    /\ tab[t].at = "join" /\ tab' = [tab EXCEPT ![t].at = "joining", ![t].code = s]
    /\ UNCHANGED <<deployment, jar, invite, entered, over, deed, phoneVars, browserFaults>>

\* POST /redeem behind api/join: a code that is open is spent, any other is refused.
RedeemCode(t) ==
    /\ tab[t].at = "joining"
    /\ IF invite[tab[t].code] = "open"
         THEN /\ invite' = [invite EXCEPT ![tab[t].code] = "spent"]
              /\ tab' = [tab EXCEPT ![t].at = "redeemed"]
         ELSE tab' = [tab EXCEPT ![t].at = "join"] /\ UNCHANGED invite
    /\ UNCHANGED <<deployment, jar, entered, over, deed, phoneVars, browserFaults>>

\* Mutant: the answer sets no cookie.
CookieForgotten(s) == {jar}
\* The cookie the answer sets lasts as long as the credential: none, where that has run out.
CookiesOf(s) == IF s \in over THEN {s, NoToken} ELSE {s}

\* The answer of api/join sets the cookie, and the form goes on to the room's page.
EnterJoined(t) ==
    /\ tab[t].at = "redeemed"
    /\ jar' \in CookiesOf(tab[t].code) /\ entered' = entered \cup {tab[t].code}
    /\ UNCHANGED <<deployment, invite, over, deed, permission, address, made, phoneRow,
                   clicked, unremoved, crossed, browserFaults>>
    /\ tab' = [tab EXCEPT ![t] = Screen'] /\ switch' = [switch EXCEPT ![t] = Mounted]

LoseJoin(t) ==
    /\ tab[t].at \in {"joining", "redeemed"} /\ Faulty
    /\ tab' = [tab EXCEPT ![t].at = "join"]
    /\ UNCHANGED <<deployment, jar, invite, entered, over, deed, phoneVars>>

\* CreateRoomForm and api/rooms: the room is the credential's, and the browser goes to it.
CreateARoom(t) ==
    /\ tab[t].at = "start" /\ Authenticated /\ Recorded
    /\ \/ Loads(t) /\ UNCHANGED browserFaults
       \/ Faulty /\ UNCHANGED <<tab, switch>>
    /\ UNCHANGED <<deployment, jar, invite, entered, over, permission, address, made, phoneRow,
                   clicked, unremoved, crossed>>

\* The room's page asks for a ticket and opens its socket, which acts as whoever the ticket was for.
Enter(t) ==
    /\ tab[t].at = "page" /\ Authenticated /\ Recorded
    /\ tab' = [tab EXCEPT ![t].at = "room", ![t].as = Viewer]
    /\ UNCHANGED <<deployment, jar, invite, entered, over, phoneVars, browserFaults>>

\* The socket is lost: the page asks again, as it did at first.
LoseSocket(t) ==
    /\ tab[t].at = "room" /\ tab' = [tab EXCEPT ![t].at = "page", ![t].as = NoToken]
    /\ UNCHANGED <<deployment, jar, invite, entered, over, deed, phoneVars, browserFaults>>

\* A credential ends: it runs out, and the cookie with it, or it is revoked and the cookie stays.
SessionEnds(s) ==
    /\ invite[s] = "spent" /\ s \notin over /\ over' = over \cup {s}
    /\ jar' \in {jar, IF jar = s THEN NoToken ELSE jar}
    /\ UNCHANGED <<deployment, invite, entered, tab, deed, phoneVars, browserFaults>>

-----------------------------------------------------------------------------
(* The switch. *)

SwitchIdle(t) == tab[t].at \in {"page", "room"} /\ switch[t].doing = "nothing"
Goes(t, doing) == switch' = [switch EXCEPT ![t].doing = doing]
Shows(t, shows) == switch' = [switch EXCEPT ![t] = [Mounted EXCEPT !.shows = shows]]

\* Mutant: the person is asked as soon as the room is there.
RefreshAsks(t) ==
    /\ SwitchIdle(t) /\ switch[t].shows = "checking" /\ Goes(t, "ask")
    /\ UNCHANGED <<webVars, permission, address, made, phoneRow, clicked, unremoved, crossed, browserFaults>>

\* refresh, when the control is mounted: nothing is asked of the person.
Refresh(t) ==
    /\ SwitchIdle(t) /\ switch[t].shows = "checking"
    /\ CASE permission = "denied" -> Shows(t, "blocked")
         [] permission # "denied" /\ address = 0 -> Shows(t, "off")
         [] OTHER -> Goes(t, "state")
    /\ UNCHANGED <<webVars, permission, address, made, phoneRow, clicked, unremoved, crossed, browserFaults>>

\* The answer of api/push/state, whatever it says: how many devices, not whether this is one.
ReadState(t) ==
    /\ switch[t].doing = "state"
    /\ \/ Shows(t, "on") /\ UNCHANGED browserFaults
       \/ Faulty /\ Shows(t, "error")
    /\ UNCHANGED <<webVars, permission, address, made, phoneRow, clicked, unremoved, crossed>>

\* turnOn: the key first.
TurnOn(t) ==
    /\ SwitchIdle(t) /\ switch[t].shows = "off" /\ Goes(t, "key") /\ clicked' = TRUE
    /\ UNCHANGED <<webVars, permission, address, made, phoneRow, unremoved, crossed, browserFaults>>

GetKey(t) ==
    /\ switch[t].doing = "key"
    /\ \/ Goes(t, "ask") /\ UNCHANGED browserFaults
       \/ Faulty /\ \E shows \in {"unconfigured", "error"} : Shows(t, shows)
    /\ UNCHANGED <<webVars, permission, address, made, phoneRow, clicked, unremoved, crossed>>

\* requestPermission: asked of the person once, remembered by the browser after that.
AskPermission(t) ==
    /\ switch[t].doing = "ask"
    /\ permission' \in IF permission = "default" THEN {"default", "granted", "denied"} ELSE {permission}
    /\ CASE permission' = "granted" -> Goes(t, "subscribe")
         [] permission' = "denied" -> Shows(t, "blocked")
         [] OTHER -> Shows(t, "off")
    /\ UNCHANGED <<webVars, address, made, phoneRow, clicked, unremoved, crossed, browserFaults>>

\* pushManager.subscribe gives the subscription there is, or makes one.
Obtain(t) ==
    /\ switch[t].doing = "subscribe"
    /\ \/ /\ address = 0 /\ made < MaxAddresses /\ made' = made + 1 /\ address' = made + 1
          /\ switch' = [switch EXCEPT ![t].doing = "post", ![t].about = address'] /\ UNCHANGED browserFaults
       \/ /\ address # 0 /\ switch' = [switch EXCEPT ![t].doing = "post", ![t].about = address]
          /\ UNCHANGED <<address, made, browserFaults>>
       \/ Faulty /\ Shows(t, "error") /\ UNCHANGED <<address, made>>
    /\ UNCHANGED <<webVars, permission, phoneRow, clicked, unremoved, crossed>>

GivenUp(e) == address # e \/ \E u \in Tabs : switch[u].doing = "drop" /\ switch[u].about = e

\* upsertSubscription for whoever the request acts as, and the answer.
Register(t) ==
    LET e == switch[t].about IN
    /\ switch[t].doing = "post"
    /\ \/ /\ Authenticated /\ Recorded /\ phoneRow' = [phoneRow EXCEPT ![e] = Viewer]
          /\ crossed' = IF GivenUp(e) THEN crossed \cup {e} ELSE crossed
          /\ \/ Shows(t, "on") /\ UNCHANGED browserFaults
             \/ Faulty /\ Shows(t, "error")
       \/ /\ ~Authenticated /\ Shows(t, "error") /\ UNCHANGED <<deed, phoneRow, crossed, browserFaults>>
       \/ Faulty /\ Shows(t, "error") /\ UNCHANGED <<deed, phoneRow, crossed>>
    /\ UNCHANGED <<deployment, jar, invite, entered, over, tab, permission, address, made, clicked, unremoved>>

\* Mutant: the browser first, the row afterwards.
TurnOffBrowserFirst(t) ==
    /\ SwitchIdle(t) /\ switch[t].shows = "on"
    /\ IF address = 0 THEN Shows(t, "off")
       ELSE switch' = [switch EXCEPT ![t].doing = "delete", ![t].about = address]
    /\ address' = 0
    /\ UNCHANGED <<webVars, permission, made, phoneRow, clicked, unremoved, crossed, browserFaults>>

\* turnOff: nothing to do where the browser has no subscription.
TurnOff(t) ==
    /\ SwitchIdle(t) /\ switch[t].shows = "on"
    /\ IF address = 0 THEN Shows(t, "off")
       ELSE switch' = [switch EXCEPT ![t].doing = "delete", ![t].about = address]
    /\ UNCHANGED <<webVars, permission, address, made, phoneRow, clicked, unremoved, crossed, browserFaults>>

\* deleteSubscription, where the row is the caller's.
RowWithout(e) == IF Authenticated /\ phoneRow[e] = Viewer THEN [phoneRow EXCEPT ![e] = NoToken] ELSE phoneRow

\* The server first, and its answer, a refusal too, is not looked at; only a throw ends it here.
Unregister(t) ==
    LET e == switch[t].about IN
    /\ switch[t].doing = "delete"
    /\ \/ /\ phoneRow' = RowWithout(e)
          /\ switch' = [switch EXCEPT ![t].doing = "drop", ![t].removed = phoneRow' # phoneRow] /\ UNCHANGED browserFaults
       \/ Faulty /\ phoneRow' \in {phoneRow, RowWithout(e)} /\ Shows(t, "error")
    /\ UNCHANGED <<webVars, permission, address, made, clicked, unremoved, crossed>>

\* Mutant: the browser keeps the subscription.
DropNothing(t) ==
    /\ switch[t].doing = "drop" /\ Shows(t, "off")
    /\ UNCHANGED <<webVars, permission, address, made, phoneRow, clicked, unremoved, crossed, browserFaults>>

\* sub.unsubscribe: the address is given up for good.
Drop(t) ==
    /\ switch[t].doing = "drop" /\ Shows(t, "off")
    /\ address' = IF address = switch[t].about THEN 0 ELSE address
    /\ unremoved' = IF switch[t].removed THEN unremoved ELSE unremoved \cup {switch[t].about}
    /\ UNCHANGED <<webVars, permission, made, phoneRow, clicked, crossed, browserFaults>>

BrowserNext ==
    \/ \E t \in Tabs :
        \/ OpenRoomPage(t) \/ (\E at \in {"start", "join"} : OpenForm(t, at))
        \/ (\E s \in Sessions : SubmitCode(t, s)) \/ RedeemCode(t) \/ EnterJoined(t) \/ LoseJoin(t)
        \/ CreateARoom(t) \/ Enter(t) \/ LoseSocket(t)
        \/ Refresh(t) \/ ReadState(t) \/ TurnOn(t) \/ GetKey(t) \/ AskPermission(t) \/ Obtain(t) \/ Register(t)
        \/ TurnOff(t) \/ Unregister(t) \/ Drop(t)
    \/ \E s \in Sessions : SessionEnds(s)

BrowserSpec == BrowserInit /\ [][BrowserNext]_browserVars

-----------------------------------------------------------------------------
(* Properties. *)

\* "A REDEEMED SESSION WINS OVER THE DEPLOYMENT'S OWN TOKEN, always" (session.ts:39): after a
\* person of this browser has entered with a code, nothing is recorded as the deployment's member
\* before a session has ended; and nothing is recorded as a session that did not enter here.
ActsAreTheirs ==
    /\ deed.by \in Deployments /\ deed.joined => deed.ended
    /\ deed.by \in Sessions => deed.by \in entered

\* "OFF ACTUALLY DELETES" (PushControl.tsx:15), up to what is there: a row whose address the
\* browser has given up was left by an answer that removed nothing (a refusal, a row that is
\* another principal's), or registered by a second room at that very time.
OrphansHaveACause ==
    \A e \in Address : phoneRow[e] # NoToken /\ address # e => e \in unremoved \cup crossed

Alone(t) == SwitchIdle(t) /\ \A u \in Tabs \ {t} : tab[u].at = "closed"

\* The switch of a browser's only room says what is: off is no subscription, on is one, with a
\* row behind it where no request failed and no session ended.
SwitchIsTrue == \A t \in Tabs : Alone(t) =>
    /\ switch[t].shows = "off" => address = 0
    /\ switch[t].shows = "on" => address # 0
    /\ switch[t].shows = "on" /\ browserFaults = 0 /\ over = {} => phoneRow[address] # NoToken

\* "ASKED FOR, HERE, after a click and never before it" (PushControl.tsx:119), in whichever room.
AskedFirst == permission # "default" \/ made > 0 => clicked /\ (made > 0 => permission = "granted")

BrowserHolds == ActsAreTheirs /\ OrphansHaveACause /\ SwitchIsTrue /\ AskedFirst

\* Not kept, and checked by no run. "Turning it off unsubscribes at the browser AND deletes the
\* row" (PushControl.tsx:17); the answer to the deletion is not looked at (PushControl.tsx:155).
OffDeletes == \A e \in Address : phoneRow[e] # NoToken => address = e
\* "every act it authenticates is attributed to that person" (session.ts:25): a socket opened
\* before the code was redeemed, or after the session ran out, is the deployment's.
RoomIsTheirs == \A t \in Tabs : tab[t].at = "room" /\ jar # NoToken => tab[t].as = jar
\* "Check your connection and try again" (JoinForm.tsx:50): the code may be spent by then.
TryAgainWorks == \A t \in Tabs : tab[t].at = "join" /\ tab[t].code # NoToken => invite[tab[t].code] = "open"
=============================================================================
