-------------------------------- MODULE Session --------------------------------
(***************************************************************************)
(* The session with a router: how it is lost and restored (tab bar), left  *)
(* (log-out) and exchanged for another (CircleOutUtil), on one main thread *)
(* whose handlers are the actions below.  Each of them can find a timer, a *)
(* reachability report or an answer that an earlier one left behind:       *)
(*   - SocketUtil keeps one socket; a new one silences the callbacks of    *)
(*     the one it replaces, and disconnect only asks for a close;          *)
(*   - AFNetworkReachabilityManager has one block for all its users, and   *)
(*     reports that were posted run it after stopMonitoring;               *)
(*   - a new tab bar frees the one before it, whose reports then do        *)
(*     nothing, unless one of its timers still holds it;                   *)
(*   - performSelector:afterDelay: timers and dispatch_after blocks are    *)
(*     never cancelled.                                                    *)
(* An address is identified with the router it leads to.  Of Tox, the way  *)
(* to a router without an address, a switch is modelled up to the request  *)
(* for the user; answers over Tox are not.                                 *)
(***************************************************************************)
EXTENDS Naturals, Sequences

CONSTANTS
  Routers,     \* the circles the user belongs to
  First,       \* the one the user is logged in to at the start
  MaxChoices,  \* bound: log-outs, log-ins and switches
  MaxFaults,   \* bound: lost connections, failed attempts, refused log-ins
  MaxPending,  \* bound: reports, timers and look-ups of one kind at a time
  PushInSwitch \* may the router log the user out before a finished switch
               \* has shown its tab bar?

NoRouter == "none"

ASSUME SessionConstants == /\ First \in Routers /\ NoRouter \notin Routers
                           /\ MaxChoices \in Nat /\ MaxFaults \in Nat
                           /\ MaxPending \in Nat \ {0}
                           /\ PushInSwitch \in BOOLEAN

VARIABLES
  app,      \* AppDelegate and RouterConfig: root view, flags, router
  socket,   \* SocketUtil.socket, what was asked on it, what it answered
  reach,    \* AFNetworkReachabilityManager and the searches it starts
  circle,   \* CircleOutUtil
  login,    \* LoginViewController: isClickLogin and what it will ask
  beats,    \* the timers HeartBeatUtil and SendCacheChatUtil run?
  roots,    \* dispatch_after blocks that change the root view, all 1.5 s ahead
  delayed,  \* connectSocket timers of the tab bar
  choices, faults

vars == <<app, socket, reach, circle, login, beats, roots, delayed, choices, faults>>

Count == 0 .. MaxPending
Links == {"down", "connecting", "up", "closing"}
\* The last answer to a log-in; "tox": what was asked went over Tox.
Results == {"none", "ok", "refused", "tox"}
\* An attempt over Tox: the log-in runs; the router is awaited, with a button to
\* cancel; the button alone is left; the router is there.
Toxes == {"no", "login", "wait", "button", "online"}

TypeOK ==
  /\ app \in [screen: {"login", "tabs"}, isLogOut: BOOLEAN, isSwitch: BOOLEAN,
              routerIp: Routers \cup {NoRouter}, toxid: Routers]
  /\ socket \in [link: Links, url: Routers, asked: SUBSET {"find", "login"},
                 result: Results]
  /\ reach \in [block: {"none", "tabs", "old", "search"}, rid: Routers,
                monitoring: BOOLEAN, reports: Count, lookups: [Routers -> Count]]
  /\ circle \in [isSwitchCircle: BOOLEAN, currentURL: Routers \cup {NoRouter},
                 isFindRequest: BOOLEAN, isLoginRequest: BOOLEAN,
                 findTimers: Count, loginTimers: Count, tox: Toxes,
                 toxSuccessCount: 0 .. 3]
  /\ login \in [clicked: BOOLEAN, asks: SUBSET {"find", "login"}]
  /\ beats \in [heart: BOOLEAN, resend: BOOLEAN]
  /\ roots \in Seq({"login", "tabs"})
  /\ delayed \in Count /\ choices \in Nat /\ faults \in Nat

\* After the first log-in.
Init ==
  /\ app = [screen |-> "tabs", isLogOut |-> FALSE, isSwitch |-> FALSE,
            routerIp |-> First, toxid |-> First]
  /\ socket = [link |-> "up", url |-> First, asked |-> {}, result |-> "ok"]
  /\ reach = [block |-> "none", rid |-> First, monitoring |-> FALSE,
              reports |-> 0, lookups |-> [r \in Routers |-> 0]]
  /\ circle = [isSwitchCircle |-> FALSE, currentURL |-> NoRouter,
               isFindRequest |-> FALSE, isLoginRequest |-> FALSE,
               findTimers |-> 0, loginTimers |-> 0, tox |-> "no",
               toxSuccessCount |-> 0]
  /\ login = [clicked |-> FALSE, asks |-> {}]
  /\ beats = [heart |-> TRUE, resend |-> TRUE]
  /\ roots = <<>>
  /\ delayed = 0 /\ choices = 0 /\ faults = 0

Choice == choices < MaxChoices /\ choices' = choices + 1
Fault == faults < MaxFaults /\ faults' = faults + 1

\* n more of what is pending; what is past the bound is not looked at.
More(n) == IF n < MaxPending THEN n + 1 ELSE n

\* connect: a new socket; nothing is heard of the old one any more.
Connect(url) == [link |-> "connecting", url |-> url, asked |-> {}, result |-> "none"]

\* disconnect: a close frame if connected, nothing otherwise.
Disconnect(s) == IF s.link = "up" THEN [s EXCEPT !.link = "closing"] ELSE s

\* startMonitoring with a new block: the present status is reported at once.
Monitor(block, rid) ==
  [reach EXCEPT !.block = block, !.rid = rid, !.monitoring = TRUE,
                !.reports = More(@)]

\* A new LoginViewController.
LoginPage == [clicked |-> FALSE, asks |-> {}]

\* setRootTabbarWithManager: the block of the tab bar before has lost its object.
Replaced(m) == IF m.block = "tabs" THEN [m EXCEPT !.block = "old"] ELSE m

\* The guard of the tab bar's observers; of socketDisconnectNoti.
Hears(a) == ~a.isLogOut /\ ~a.isSwitch
InSession(a) == a.screen = "tabs" /\ Hears(a)
LoginWaits(a) == a.screen = "login" /\ login.clicked

\* currentRouterNumber >= 0: what is sent goes to the router over Tox.
OverTox == circle.tox \in {"wait", "online"}
\* currentRouterNumber = -1; the view that awaits the router stays.
OffTox(c) == [c EXCEPT !.tox = IF @ = "wait" THEN "button"
                               ELSE IF @ = "online" THEN "no" ELSE @]

\* Who hears of the end of a search, and what each does but for the socket.
Finash(a) ==
  /\ circle' = IF circle.isSwitchCircle /\ a.routerIp = NoRouter
               THEN [circle EXCEPT !.tox = "login"]
               ELSE IF (circle.isSwitchCircle \/ LoginWaits(a)) /\ a.routerIp # NoRouter
               THEN OffTox(circle) ELSE circle
  /\ login' = IF LoginWaits(a) THEN [login EXCEPT !.asks = @ \cup {"find"}]
              ELSE login
Connects(a) == /\ a.routerIp # NoRouter
               /\ Hears(a) \/ circle.isSwitchCircle \/ LoginWaits(a)

\* Mutant: a search connects only if there is no connection.
GbFinashKeeps(a) ==
  /\ socket' = IF Connects(a) /\ socket.link = "down" THEN Connect(a.routerIp)
               ELSE socket
  /\ Finash(a)

\* GB_FINASH: a search has ended, in state a of the app.
GbFinash(a) ==
  /\ socket' = IF Connects(a) THEN Connect(a.routerIp) ELSE socket
  /\ Finash(a)

\* switchCircleFaield: the login page follows 1.5 seconds later.
FailedCircle(c) == OffTox([c EXCEPT !.isSwitchCircle = FALSE])
FailedApp(a) == [a EXCEPT !.isSwitch = FALSE, !.routerIp = NoRouter]
Later(screen) == IF Len(roots) < MaxPending THEN Append(roots, screen) ELSE roots
-----------------------------------------------------------------------------
\* loginAction, after the user picked a circle.
LogIn(r) ==
  /\ app.screen = "login" /\ ~circle.isSwitchCircle
  /\ Choice
  /\ app' = [app EXCEPT !.routerIp = NoRouter, !.toxid = r]
  /\ socket' = IF app.routerIp # NoRouter THEN Disconnect(socket) ELSE socket
  /\ \E asks \in {login.asks, login.asks \cup {"login"}} :
       /\ app.routerIp # NoRouter => "login" \in asks
       /\ login' = [clicked |-> TRUE, asks |-> asks]
  /\ circle' \in {circle, OffTox(circle)}
  /\ reach' = Monitor("search", r)
  /\ UNCHANGED <<beats, roots, delayed, faults>>

\* What every log-out does.
Leave ==
  /\ app' = [app EXCEPT !.screen = "login", !.isLogOut = TRUE, !.routerIp = NoRouter]
  /\ socket' = IF app.routerIp # NoRouter THEN Disconnect(socket) ELSE socket
  /\ circle' = IF app.routerIp # NoRouter THEN circle ELSE OffTox(circle)
  /\ login' = LoginPage
  /\ UNCHANGED <<reach, roots, delayed, faults>>

\* logOutApp: the user logs out, no notice covering the window; the resend timer runs on.
LogOut ==
  /\ app.screen = "tabs" /\ ~circle.isSwitchCircle
  /\ roots = <<>>
  /\ Choice
  /\ Leave
  /\ beats' = [beats EXCEPT !.heart = FALSE]

\* handlePushLogout, logoutWithType: the router logs the user out.
PushLogout ==
  /\ app.screen = "tabs" /\ ~app.isLogOut
  /\ socket.link \in {"up", "closing"}
  /\ PushInSwitch \/ roots = <<>>
  /\ Choice
  /\ Leave
  /\ beats' = [heart |-> FALSE, resend |-> FALSE]

\* circleOutProcessingWithRid: the user scanned the code of another circle.
SwitchCircle(r) ==
  /\ app.screen = "tabs" /\ ~app.isLogOut /\ ~circle.isSwitchCircle
  /\ roots = <<>>
  /\ r # app.toxid
  /\ Choice
  /\ IF app.routerIp # NoRouter
     THEN /\ app' = [app EXCEPT !.isLogOut = TRUE, !.isSwitch = TRUE,
                                !.routerIp = NoRouter, !.toxid = r]
          /\ circle' = [circle EXCEPT !.isSwitchCircle = TRUE,
                                      !.currentURL = app.routerIp]
          /\ socket' = Disconnect(socket)
          /\ beats' = [heart |-> FALSE, resend |-> FALSE]
     ELSE /\ app' = [app EXCEPT !.isLogOut = TRUE, !.toxid = r]
          /\ circle' = OffTox([circle EXCEPT !.isSwitchCircle = TRUE])
          /\ beats' = [beats EXCEPT !.heart = FALSE]
          /\ UNCHANGED socket
  /\ reach' = Monitor("search", r)
  /\ UNCHANGED <<login, roots, delayed, faults>>
-----------------------------------------------------------------------------
\* socketOnConnect: the switch asks for the user and for the answer within ten
\* seconds.  Mutant: the answer to an earlier switch counts.
AskedBefore(c) == [c EXCEPT !.findTimers = More(@)]
AsksFind(c) == [c EXCEPT !.isFindRequest = FALSE, !.findTimers = More(@)]

\* onConnect: every observer asks what it waits for.
Connected ==
  /\ socket.link = "connecting"
  /\ LET tabs == Hears(app)
         page == app.screen = "login"
         asks == IF page /\ "login" \in login.asks THEN {"login"}
                 ELSE IF page THEN login.asks ELSE {}
     IN  /\ socket' = [socket EXCEPT
                         !.link = "up",
                         !.result = IF OverTox THEN "tox" ELSE @,
                         !.asked = IF OverTox THEN {} ELSE
                           asks \cup (IF tabs THEN {"login"} ELSE {})
                                \cup (IF circle.isSwitchCircle THEN {"find"} ELSE {})]
         /\ login' = [login EXCEPT !.asks = @ \ asks]
         /\ beats' = IF tabs THEN [beats EXCEPT !.heart = FALSE] ELSE beats
  /\ circle' = IF circle.isSwitchCircle THEN AsksFind(circle) ELSE circle
  /\ UNCHANGED <<app, reach, roots, delayed, choices, faults>>

\* Mutants: a session is watched once its log-in is answered; every end of a
\* connection is taken for that of the cancelled one.
WatchesAnswered(a) == InSession(a) /\ a.routerIp # NoRouter /\ socket.result = "ok"
AnyEnd == TRUE

\* socketDisconnectNoti: does the tab bar wait for the network?
Watches(a) == InSession(a) /\ a.routerIp # NoRouter

\* socketOnDisconnect: the end of the connection that the switch cancelled.
CancelledEnd == socket.url = circle.currentURL

\* onDisconnect: CircleOutUtil is told first, the tab bar second.
Disconnected ==
  /\ socket.link # "down"
  /\ IF socket.link = "closing" THEN UNCHANGED faults ELSE Fault
  /\ LET fails == circle.isSwitchCircle /\ ~CancelledEnd
         a == IF fails THEN FailedApp(app) ELSE app
     IN  /\ app' = a
         /\ circle' = IF fails THEN FailedCircle(circle) ELSE circle
         /\ roots' = IF fails THEN Later("login") ELSE roots
         /\ beats' = IF InSession(a) THEN [beats EXCEPT !.resend = FALSE] ELSE beats
         /\ reach' = IF Watches(a) THEN Monitor("tabs", reach.rid) ELSE reach
  /\ socket' = [socket EXCEPT !.link = "down", !.asked = {}, !.result = "none"]
  /\ UNCHANGED <<login, delayed, choices>>

\* recivceUserFind: the router knows the user, who logs in.
Found ==
  /\ "find" \in socket.asked
  /\ LET heard == circle.isSwitchCircle \/ LoginWaits(app)
     IN  /\ app' = IF heard THEN [app EXCEPT !.toxid = socket.url] ELSE app
         /\ socket' = [socket EXCEPT !.asked = (@ \ {"find"}) \cup
                                     (IF heard /\ ~OverTox THEN {"login"} ELSE {})]
  /\ circle' = IF circle.isSwitchCircle
               THEN [circle EXCEPT !.isFindRequest = TRUE, !.isLoginRequest = FALSE,
                                   !.loginTimers = More(@)]
               ELSE circle
  /\ UNCHANGED <<reach, login, beats, roots, delayed, choices, faults>>

\* handleLogin, RetCode 0: the timers start, whoever asked.
LoggedIn ==
  /\ "login" \in socket.asked
  /\ LET done == circle.isSwitchCircle /\ (app.routerIp # NoRouter \/ OverTox)
         opens == LoginWaits(app)
     IN  /\ app' = [app EXCEPT
                      !.toxid = socket.url,
                      !.screen = IF opens THEN "tabs" ELSE @,
                      !.isLogOut = @ /\ ~done /\ ~opens,
                      !.isSwitch = @ /\ ~done]
         /\ circle' = IF circle.isSwitchCircle
                      THEN [circle EXCEPT !.isLoginRequest = TRUE,
                                          !.isSwitchCircle = ~done]
                      ELSE IF opens /\ app.routerIp # NoRouter THEN OffTox(circle)
                      ELSE circle
         /\ roots' = IF done THEN Later("tabs") ELSE roots
         /\ login' = IF opens THEN LoginPage ELSE login
         /\ reach' = IF opens THEN Replaced(reach) ELSE reach
  /\ socket' = [socket EXCEPT !.asked = @ \ {"login"}, !.result = "ok"]
  /\ beats' = [heart |-> TRUE, resend |-> TRUE]
  /\ UNCHANGED <<delayed, choices, faults>>

\* handleLogin, any other RetCode.
LoginRefused ==
  /\ "login" \in socket.asked
  /\ Fault
  /\ IF circle.isSwitchCircle
     THEN /\ app' = FailedApp(app)
          /\ circle' = FailedCircle([circle EXCEPT !.isLoginRequest = TRUE])
          /\ roots' = Later("login")
     ELSE UNCHANGED <<app, circle, roots>>
  /\ login' = IF LoginWaits(app) THEN [login EXCEPT !.clicked = FALSE] ELSE login
  /\ socket' = [socket EXCEPT !.asked = @ \ {"login"}, !.result = "refused"]
  /\ UNCHANGED <<reach, beats, delayed, choices>>
-----------------------------------------------------------------------------
\* switchCircleFaieldWithHintString, of a circle that becomes c.
SwitchFails(c) ==
  /\ app' = FailedApp(app) /\ circle' = FailedCircle(c)
  /\ roots' = Later("login")

\* checkFindRequstOutTime: what Tox was counted up to decides whether an
\* unanswered request is sent again, with its timer, or fails the switch.
FindTimeout ==
  /\ circle.findTimers > 0
  /\ LET c == [circle EXCEPT !.findTimers = @ - 1]
     IN  \/ /\ circle.isFindRequest
            /\ circle' = c
            /\ UNCHANGED <<app, socket, roots>>
         \/ /\ ~circle.isFindRequest /\ circle.toxSuccessCount = 2
            /\ socket' = IF socket.link = "up" /\ ~OverTox
                         THEN [socket EXCEPT !.asked = @ \cup {"find"}] ELSE socket
            /\ UNCHANGED <<app, circle, roots>>
         \/ /\ ~circle.isFindRequest /\ circle.toxSuccessCount # 2
            /\ SwitchFails(c)
            /\ UNCHANGED socket
  /\ UNCHANGED <<reach, login, beats, delayed, choices, faults>>

\* checkLoginRequstOutTime
LoginTimeout ==
  /\ circle.loginTimers > 0
  /\ LET c == [circle EXCEPT !.loginTimers = @ - 1]
     IN  IF circle.isLoginRequest
         THEN circle' = c /\ UNCHANGED <<app, roots>>
         ELSE SwitchFails(c)
  /\ UNCHANGED <<socket, reach, login, beats, delayed, choices, faults>>

\* toxConnectSuccessSendFindRequest: the count is never set back, so only the
\* first router that was ever reached over Tox is asked for the user.
ToxFinds(c) ==
  LET counted == [c EXCEPT !.toxSuccessCount = IF @ < 3 THEN @ + 1 ELSE @]
  IN  IF c.toxSuccessCount = 0 THEN AsksFind(counted) ELSE counted

\* loginToxWithShowHud, addRouterFriend: the log-in or the request fails.
ToxFails ==
  /\ circle.tox = "login"
  /\ SwitchFails([circle EXCEPT !.tox = "no"])
  /\ UNCHANGED <<socket, reach, login, beats, delayed, choices, faults>>

\* The log-in succeeds: the router is awaited, or online already; an address
\* found meanwhile makes the log-in void.
ToxLoggedIn ==
  /\ circle.tox = "login"
  /\ \/ circle' = [circle EXCEPT !.tox = "wait"]
     \/ circle' = ToxFinds([circle EXCEPT !.tox = "online"])
     \/ app.routerIp # NoRouter /\ circle' = [circle EXCEPT !.tox = "no"]
  /\ UNCHANGED <<app, socket, reach, login, beats, roots, delayed, choices, faults>>

\* toxAddRoterSuccess: the router is online; it may have been before.
ToxAdds ==
  /\ OverTox /\ circle.isSwitchCircle
  /\ circle' = ToxFinds([circle EXCEPT !.tox = "online"])
  /\ UNCHANGED <<app, socket, reach, login, beats, roots, delayed, choices, faults>>

\* The button of showConnectServerLoad, whatever became of the switch.
ToxCancelled ==
  /\ circle.tox \in {"wait", "button"}
  /\ SwitchFails([circle EXCEPT !.tox = "no"])
  /\ UNCHANGED <<socket, reach, login, beats, delayed, choices, faults>>

\* The dispatch_after blocks: setRootLoginWithType, setRootTabbarWithManager.
ShowRoot ==
  /\ roots # <<>>
  /\ roots' = Tail(roots)
  /\ LET tabs == Head(roots) = "tabs"
     IN  /\ app' = [app EXCEPT !.screen = Head(roots), !.isLogOut = @ /\ ~tabs]
         /\ circle' = IF tabs /\ app.routerIp # NoRouter THEN OffTox(circle) ELSE circle
         /\ reach' = IF tabs THEN Replaced(reach) ELSE reach
  /\ login' = LoginPage
  /\ UNCHANGED <<socket, beats, delayed, choices, faults>>
-----------------------------------------------------------------------------
\* The network changes while it is monitored.
NetworkChanges ==
  /\ reach.monitoring /\ reach.reports < MaxPending
  /\ Fault
  /\ reach' = [reach EXCEPT !.reports = @ + 1]
  /\ UNCHANGED <<app, socket, circle, login, beats, roots, delayed, choices>>

Reported(block) == /\ reach.block = block /\ reach.reports > 0
\* A report reaches its tab bar: the one that is shown, or one that a timer
\* (performSelector keeps its object) may hold.
TabsReported == Reported("tabs") \/ (Reported("old") /\ delayed > 0)
\* Mutant: a report is counted twice.
ConsumedTwice == [reach EXCEPT !.reports = @ - 2, !.monitoring = FALSE]
Consumed == [reach EXCEPT !.reports = @ - 1, !.monitoring = FALSE]

\* sendHtppRequestWithIs4g: off Wi-Fi the known address is tried after a second.
TabsReport ==
  /\ TabsReported
  /\ reach' = Consumed
  /\ delayed' = More(delayed)
  /\ UNCHANGED <<app, socket, circle, login, beats, roots, choices, faults>>

\* sendHtppRequestWithIs4g: on Wi-Fi the router is looked for.
TabsSearch ==
  /\ TabsReported
  /\ reach' = [Consumed EXCEPT !.block = "search", !.rid = app.toxid,
                               !.monitoring = TRUE, !.reports = reach.reports]
  /\ UNCHANGED <<app, socket, circle, login, beats, roots, delayed, choices, faults>>

\* The tab bar is gone: nothing is done, and monitoring goes on.
OldReport ==
  /\ Reported("old")
  /\ reach' = [reach EXCEPT !.reports = @ - 1]
  /\ UNCHANGED <<app, socket, circle, login, beats, roots, delayed, choices, faults>>

\* sendRadionMessageWithRouterid: the router answers the broadcast.
RadioAnswers ==
  /\ Reported("search")
  /\ reach' = Consumed
  /\ app' = [app EXCEPT !.routerIp = reach.rid, !.toxid = reach.rid]
  /\ GbFinash(app')
  /\ UNCHANGED <<beats, roots, delayed, choices, faults>>

\* Mutant: a known address is not tried.
RadioSilentStops ==
  /\ Reported("search")
  /\ reach' = IF app.routerIp # NoRouter THEN Consumed
              ELSE [Consumed EXCEPT !.lookups[app.toxid] = More(@)]
  /\ UNCHANGED <<app, socket, circle, login, beats, roots, delayed, choices, faults>>

\* sendFailedNoti: a known address is tried, else the server is asked for one.
RadioSilent ==
  /\ Reported("search")
  /\ IF app.routerIp # NoRouter
     THEN reach' = Consumed /\ GbFinash(app)
     ELSE /\ reach' = [Consumed EXCEPT !.lookups[app.toxid] = More(@)]
          /\ UNCHANGED <<socket, circle, login>>
  /\ UNCHANGED <<app, beats, roots, delayed, choices, faults>>

\* sendRequestWithRid: the answer of the server, or none.
LookedUp(r) ==
  /\ reach.lookups[r] > 0
  /\ reach' = [reach EXCEPT !.lookups[r] = @ - 1]
  /\ \/ app' = [app EXCEPT !.routerIp = r, !.toxid = r]
     \/ UNCHANGED app
  /\ GbFinash(app')
  /\ UNCHANGED <<beats, roots, delayed, choices, faults>>

\* connectSocket of the tab bar, a second after the report, whatever happened.
DelayedConnect ==
  /\ delayed > 0
  /\ delayed' = delayed - 1
  /\ socket' = IF app.routerIp # NoRouter THEN Connect(app.routerIp) ELSE socket
  /\ UNCHANGED <<app, reach, circle, login, beats, roots, choices, faults>>
-----------------------------------------------------------------------------
Answers == Found \/ LoggedIn \/ LoginRefused
ToxLogin == ToxFails \/ ToxLoggedIn
Timeouts == FindTimeout \/ LoginTimeout
Reports == TabsReport \/ TabsSearch \/ OldReport \/ RadioAnswers \/ RadioSilent

Next == \/ \E r \in Routers : LogIn(r) \/ SwitchCircle(r) \/ LookedUp(r)
        \/ LogOut \/ PushLogout
        \/ Connected \/ Disconnected \/ Answers \/ Timeouts
        \/ ToxLogin \/ ToxAdds \/ ToxCancelled
        \/ ShowRoot
        \/ NetworkChanges \/ Reports \/ DelayedConnect

Spec == Init /\ [][Next]_vars

\* An attempt to connect ends, and so does a close; the router answers; the main
\* queue serves every report, timer and answer; a Tox log-in ends, but neither the
\* router need come online nor the user cancel; a bound on the faults stands for a
\* network that is good in the end.
Fairness ==
  /\ WF_vars(Connected \/ (Disconnected /\ socket.link = "connecting"))
  /\ WF_vars(Disconnected /\ socket.link = "closing")
  /\ WF_vars(Found) /\ WF_vars(LoggedIn \/ LoginRefused)
  /\ WF_vars(FindTimeout) /\ WF_vars(LoginTimeout) /\ WF_vars(ToxLogin)
  /\ WF_vars(ShowRoot)
  /\ WF_vars(Reports) /\ WF_vars(DelayedConnect)
  /\ \A r \in Routers : WF_vars(LookedUp(r))

FairSpec == Spec /\ Fairness
-----------------------------------------------------------------------------
\* A session the tab bar shows, with a router to go back to.
HasSession == InSession(app) /\ app.routerIp # NoRouter

\* Something that will call connectSocket is under way.
Reconnecting ==
  \/ delayed > 0
  \/ reach.reports > 0 /\ reach.block \in {"tabs", "search"}

\* A session that lost its connection is never left alone: a report or a timer
\* will connect again, whatever log-outs, log-ins and switches came before
\* (socketDisconnectNoti, sendHtppRequestWithIs4g, sendFailedNoti).  The one
\* exception is a session whose connection was lost before its tab bar was shown:
\* what waits for the network then is the tab bar that is replaced.
NeverStranded ==
  HasSession /\ socket.link = "down" /\ reach.block # "old" => Reconnecting

\* A session is shown only on a connection to the router the app has as its own:
\* neither a cancelled socket that connects after all, nor the answer of a
\* replaced one, nor a late search is taken for it.
SessionOnItsRouter ==
  HasSession /\ socket.link = "up" => socket.url = app.routerIp

\* Something that looks for the router of a switch is under way.
Searching == \/ reach.reports > 0 /\ reach.block = "search"
             \/ \E r \in Routers : reach.lookups[r] > 0
             \/ circle.tox = "login"

\* A timer that ends an unanswered switch is running.
TimerWatches == \/ circle.findTimers > 0 /\ ~circle.isFindRequest
                \/ circle.loginTimers > 0 /\ ~circle.isLoginRequest

\* A switch waits for a router over Tox: with a button to cancel, or for good,
\* since a router reached over Tox before keeps this one from being asked.
ToxWaits == circle.tox = "wait"
ToxHangs == circle.tox = "online" /\ circle.toxSuccessCount > 1

\* A switch of circle is never left with nothing that ends it, whatever timers,
\* reports and answers of earlier switches and sessions run in between: it
\* searches, it connects, it can be cancelled, or a timer waits for the answer
\* (circleOutProcessingWithRid, gbFinashNoti, socketOnDisconnect,
\* checkFindRequstOutTime, checkLoginRequstOutTime).  The exceptions are those of
\* SwitchEnds.
SwitchUnderWay ==
  circle.isSwitchCircle /\ app.toxid # circle.currentURL /\ ~ToxHangs =>
    Searching \/ ToxWaits \/ socket.link = "connecting" \/ TimerWatches

\* A session that lost its connection is connected again, and answered (or asked
\* over Tox), unless it ends: every report, timer and search leads back to
\* connectSocket.  The exception is that of NeverStranded.
Reconnects == HasSession ~> \/ socket.link = "up" /\ socket.result # "none"
                            \/ ~HasSession
                            \/ reach.block = "old"

\* A switch of circle ends, at the tab bar or the login page, unless it waits for
\* a router over Tox, or a log-in answered by the old router after the switch
\* began has set the search back to that router: then a failed attempt is taken
\* for the end of the old connection.
SwitchEnds ==
  circle.isSwitchCircle ~> \/ ~circle.isSwitchCircle
                           \/ app.toxid = circle.currentURL
                           \/ ToxWaits \/ ToxHangs
=============================================================================
