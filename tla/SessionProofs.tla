----------------------------- MODULE SessionProofs -----------------------------
(***************************************************************************)
(* Proofs about Session for any circles and any bounds.                    *)
(***************************************************************************)
EXTENDS Session, SequenceTheorems, TLAPS

AppType == [screen: {"login", "tabs"}, isLogOut: BOOLEAN, isSwitch: BOOLEAN,
            routerIp: Routers \cup {NoRouter}, toxid: Routers]
SocketType == [link: Links, url: Routers, asked: SUBSET {"find", "login"},
               result: Results]
ReachType == [block: {"none", "tabs", "old", "search"}, rid: Routers,
              monitoring: BOOLEAN, reports: Count, lookups: [Routers -> Count]]
CircleType == [isSwitchCircle: BOOLEAN, currentURL: Routers \cup {NoRouter},
               isFindRequest: BOOLEAN, isLoginRequest: BOOLEAN,
               findTimers: Count, loginTimers: Count, tox: Toxes,
               toxSuccessCount: 0 .. 3]
LoginType == [clicked: BOOLEAN, asks: SUBSET {"find", "login"}]
BeatsType == [heart: BOOLEAN, resend: BOOLEAN]
Screens == {"login", "tabs"}

Typed == /\ app \in AppType /\ socket \in SocketType /\ reach \in ReachType
         /\ circle \in CircleType /\ login \in LoginType
         /\ beats \in BeatsType /\ roots \in Seq(Screens)
         /\ delayed \in Count /\ choices \in Nat /\ faults \in Nat

LEMMA Types == (TypeOK <=> Typed) /\ (TypeOK' <=> Typed')
BY DEF TypeOK, Typed, AppType, SocketType, ReachType, CircleType, LoginType,
       BeatsType, Screens

-----------------------------------------------------------------------------
(***************************************************************************)
(* Types: what the helpers yield.                                          *)
(***************************************************************************)
LEMMA MoreType ==
  ASSUME NEW n \in Count
  PROVE  More(n) \in Count /\ More(n) > 0
BY SessionConstants DEF More, Count

LEMMA LessType ==
  ASSUME NEW n \in Count, n > 0
  PROVE  n - 1 \in Count
BY SessionConstants DEF Count

LEMMA ConnectType ==
  ASSUME NEW url \in Routers
  PROVE  Connect(url) \in SocketType
BY DEF Connect, SocketType, Links, Results

LEMMA DisconnectType ==
  ASSUME NEW s \in SocketType
  PROVE  Disconnect(s) \in SocketType
BY DEF Disconnect, SocketType, Links

LEMMA MonitorType ==
  ASSUME reach \in ReachType, NEW block \in {"tabs", "search"}, NEW rid \in Routers
  PROVE  Monitor(block, rid) \in ReachType
<1>1. More(reach.reports) \in Count
  BY MoreType DEF ReachType
<1>. QED BY <1>1 DEF Monitor, ReachType

LEMMA ReplacedType ==
  ASSUME NEW m \in ReachType
  PROVE  /\ Replaced(m) \in ReachType
         /\ Replaced(m).reports = m.reports /\ Replaced(m).lookups = m.lookups
         /\ Replaced(m).block = IF m.block = "tabs" THEN "old" ELSE m.block
BY DEF Replaced, ReachType

LEMMA OffToxType ==
  ASSUME NEW c \in CircleType
  PROVE  /\ OffTox(c) \in CircleType
         /\ OffTox(c).isSwitchCircle = c.isSwitchCircle
         /\ OffTox(c).isFindRequest = c.isFindRequest
         /\ OffTox(c).isLoginRequest = c.isLoginRequest
         /\ OffTox(c).findTimers = c.findTimers
         /\ OffTox(c).loginTimers = c.loginTimers
         /\ OffTox(c).currentURL = c.currentURL
         /\ OffTox(c).tox = "login" <=> c.tox = "login"
BY DEF OffTox, CircleType, Toxes

LEMMA ToxFindsType ==
  ASSUME NEW c \in CircleType
  PROVE  /\ ToxFinds(c) \in CircleType
         /\ ToxFinds(c).isSwitchCircle = c.isSwitchCircle
         /\ ToxFinds(c).currentURL = c.currentURL
         /\ ToxFinds(c).tox = c.tox
         /\ \/ ToxFinds(c).toxSuccessCount > 1
            \/ ToxFinds(c).findTimers > 0 /\ ~ToxFinds(c).isFindRequest
         /\ \/ ToxFinds(c).findTimers > 0 /\ ~ToxFinds(c).isFindRequest
            \/ /\ ToxFinds(c).findTimers = c.findTimers
               /\ ToxFinds(c).isFindRequest = c.isFindRequest
               /\ ToxFinds(c).loginTimers = c.loginTimers
               /\ ToxFinds(c).isLoginRequest = c.isLoginRequest
<1>. DEFINE n == IF c.toxSuccessCount < 3 THEN c.toxSuccessCount + 1 ELSE c.toxSuccessCount
            k == More(c.findTimers)
            d == [c EXCEPT !.toxSuccessCount = n]
<1>1. n \in 0 .. 3 /\ (c.toxSuccessCount # 0 => n > 1)
  BY DEF CircleType
<1>2. k \in Count /\ k > 0
  BY MoreType DEF CircleType
<1>3. /\ d = [c EXCEPT !.toxSuccessCount = IF @ < 3 THEN @ + 1 ELSE @]
      /\ d.findTimers = c.findTimers
  BY DEF CircleType
<1>4. ToxFinds(c) = IF c.toxSuccessCount = 0
                    THEN [d EXCEPT !.isFindRequest = FALSE, !.findTimers = k] ELSE d
  BY <1>3 DEF ToxFinds, AsksFind
<1>. HIDE DEF n, k
<1>. QED BY <1>1, <1>2, <1>4 DEF CircleType

LEMMA FailedType ==
  ASSUME NEW a \in AppType, NEW c \in CircleType
  PROVE  FailedApp(a) \in AppType /\ FailedCircle(c) \in CircleType
<1>1. [c EXCEPT !.isSwitchCircle = FALSE] \in CircleType
  BY DEF CircleType
<1>. QED BY <1>1, OffToxType DEF FailedApp, FailedCircle, AppType

LEMMA LaterType ==
  ASSUME roots \in Seq(Screens), NEW s \in Screens
  PROVE  Later(s) \in Seq(Screens)
BY AppendProperties DEF Later

LEMMA GbFinashType ==
  ASSUME NEW a \in AppType, GbFinash(a), socket \in SocketType,
         circle \in CircleType, login \in LoginType
  PROVE  socket' \in SocketType /\ circle' \in CircleType /\ login' \in LoginType
<1>1. socket' \in SocketType
  <2>1. a.routerIp # NoRouter => a.routerIp \in Routers
    BY DEF AppType
  <2>. QED BY <2>1, ConnectType DEF GbFinash, Connects
<1>2. circle' \in CircleType
  <2>1. [circle EXCEPT !.tox = "login"] \in CircleType
    BY DEF CircleType, Toxes
  <2>. QED BY <2>1, OffToxType DEF GbFinash, Finash
<1>3. login' \in LoginType
  BY DEF GbFinash, Finash, LoginType
<1>. QED BY <1>1, <1>2, <1>3

LEMMA ConsumedType ==
  ASSUME reach \in ReachType, reach.reports > 0
  PROVE  Consumed \in ReachType
<1>1. reach.reports - 1 \in Count
  BY LessType DEF ReachType
<1>. QED BY <1>1 DEF Consumed, ReachType

-----------------------------------------------------------------------------
(***************************************************************************)
(* Types: the actions.                                                     *)
(***************************************************************************)
Counters == delayed \in Count /\ choices \in Nat /\ faults \in Nat

LEMMA LeaveType ==
  ASSUME TypeOK, Leave, Choice
  PROVE  /\ app' \in AppType /\ socket' \in SocketType /\ login' \in LoginType
         /\ circle' \in CircleType /\ Counters'
<1>. USE Types DEF Typed
<1>1. app' \in AppType
  BY DEF Leave, AppType
<1>2. socket' \in SocketType
  BY DisconnectType DEF Leave
<1>3. login' \in LoginType
  BY DEF Leave, LoginPage, LoginType
<1>4. Counters'
  BY DEF Leave, Choice, Counters
<1>5. circle' \in CircleType
  BY OffToxType DEF Leave
<1>. QED BY <1>1, <1>2, <1>3, <1>4, <1>5

LEMMA UserTypes ==
  ASSUME TypeOK
  PROVE  /\ \A r \in Routers : LogIn(r) => TypeOK'
         /\ LogOut => TypeOK'
         /\ PushLogout => TypeOK'
         /\ \A r \in Routers : SwitchCircle(r) => TypeOK'
<1>. USE Types DEF Typed
<1>1. ASSUME NEW r \in Routers, LogIn(r)
      PROVE  TypeOK'
  <2>1. app' \in AppType
    BY <1>1 DEF LogIn, AppType
  <2>2. socket' \in SocketType
    BY <1>1, DisconnectType DEF LogIn
  <2>3. reach' \in ReachType
    BY <1>1, MonitorType DEF LogIn
  <2>4. login' \in LoginType
    BY <1>1 DEF LogIn, LoginType
  <2>5. Counters'
    BY <1>1 DEF LogIn, Choice, Counters
  <2>6. circle' \in CircleType
    BY <1>1, OffToxType DEF LogIn
  <2>. QED BY <1>1, <2>1, <2>2, <2>3, <2>4, <2>5, <2>6 DEF LogIn, Counters
<1>2. ASSUME LogOut
      PROVE  TypeOK'
  <2>1. beats' \in BeatsType
    BY <1>2 DEF LogOut, BeatsType
  <2>2. Leave /\ Choice
    BY <1>2 DEF LogOut
  <2>. QED BY <2>1, <2>2, LeaveType DEF Leave, Counters
<1>3. ASSUME PushLogout
      PROVE  TypeOK'
  <2>1. beats' \in BeatsType
    BY <1>3 DEF PushLogout, BeatsType
  <2>2. Leave /\ Choice
    BY <1>3 DEF PushLogout
  <2>. QED BY <2>1, <2>2, LeaveType DEF Leave, Counters
<1>4. ASSUME NEW r \in Routers, SwitchCircle(r)
      PROVE  TypeOK'
  <2>1. app' \in AppType
    <3>1. \/ app' = [app EXCEPT !.isLogOut = TRUE, !.isSwitch = TRUE,
                                !.routerIp = NoRouter, !.toxid = r]
          \/ app' = [app EXCEPT !.isLogOut = TRUE, !.toxid = r]
      BY <1>4 DEF SwitchCircle
    <3>. QED BY <3>1 DEF AppType
  <2>2. socket' \in SocketType
    BY <1>4, DisconnectType DEF SwitchCircle
  <2>3. reach' \in ReachType
    BY <1>4, MonitorType DEF SwitchCircle
  <2>4. circle' \in CircleType
    <3>1. app.routerIp \in Routers \cup {NoRouter}
      BY DEF AppType
    <3>2. \/ circle' = [circle EXCEPT !.isSwitchCircle = TRUE,
                                      !.currentURL = app.routerIp]
          \/ circle' = OffTox([circle EXCEPT !.isSwitchCircle = TRUE])
      BY <1>4 DEF SwitchCircle
    <3>3. [circle EXCEPT !.isSwitchCircle = TRUE] \in CircleType
      BY DEF CircleType
    <3>4. [circle EXCEPT !.isSwitchCircle = TRUE, !.currentURL = app.routerIp]
            \in CircleType
      BY <3>1 DEF CircleType
    <3>5. OffTox([circle EXCEPT !.isSwitchCircle = TRUE]) \in CircleType
      BY <3>3, OffToxType
    <3>. QED BY <3>2, <3>4, <3>5
  <2>5. beats' \in BeatsType
    <3>1. \/ beats' = [heart |-> FALSE, resend |-> FALSE]
          \/ beats' = [beats EXCEPT !.heart = FALSE]
      BY <1>4 DEF SwitchCircle
    <3>2. beats \in BeatsType
      OBVIOUS
    <3>3. [heart |-> FALSE, resend |-> FALSE] \in BeatsType
      BY DEF BeatsType
    <3>4. [beats EXCEPT !.heart = FALSE] \in BeatsType
      BY <3>2 DEF BeatsType
    <3>. QED BY <3>1, <3>3, <3>4
  <2>6. Counters'
    BY <1>4 DEF SwitchCircle, Choice, Counters
  <2>. QED BY <1>4, <2>1, <2>2, <2>3, <2>4, <2>5, <2>6 DEF SwitchCircle, Counters
<1>. QED BY <1>1, <1>2, <1>3, <1>4

LEMMA SocketTypes ==
  ASSUME TypeOK
  PROVE  /\ Connected => TypeOK'
         /\ Disconnected => TypeOK'
<1>. USE Types DEF Typed
<1>1. ASSUME Connected
      PROVE  TypeOK'
  <2>1. PICK asked \in SUBSET {"find", "login"} :
          socket' = [socket EXCEPT !.link = "up",
                       !.result = IF OverTox THEN "tox" ELSE @, !.asked = asked]
    <3>. DEFINE asks == IF app.screen = "login" /\ "login" \in login.asks THEN {"login"}
                        ELSE IF app.screen = "login" THEN login.asks ELSE {}
                asked == IF OverTox THEN {} ELSE
                           asks \cup (IF Hears(app) THEN {"login"} ELSE {})
                                \cup (IF circle.isSwitchCircle THEN {"find"} ELSE {})
    <3>1. asked \in SUBSET {"find", "login"}
      BY DEF LoginType
    <3>2. socket' = [socket EXCEPT !.link = "up",
                       !.result = IF OverTox THEN "tox" ELSE @, !.asked = asked]
      BY <1>1 DEF Connected
    <3>. QED BY <3>1, <3>2
  <2>2. socket' \in SocketType
    BY <2>1 DEF SocketType, Links, Results
  <2>3. PICK S : login' = [login EXCEPT !.asks = @ \ S]
    BY <1>1 DEF Connected
  <2>4. login' \in LoginType
    BY <2>3 DEF LoginType
  <2>5. beats' \in BeatsType
    BY <1>1 DEF Connected, BeatsType
  <2>6. circle' \in CircleType
    <3>1. More(circle.findTimers) \in Count
      BY MoreType DEF CircleType
    <3>. QED BY <1>1, <3>1 DEF Connected, AsksFind, CircleType
  <2>. QED BY <1>1, <2>2, <2>4, <2>5, <2>6 DEF Connected
<1>2. ASSUME Disconnected
      PROVE  TypeOK'
  <2>1. app' \in AppType /\ circle' \in CircleType
    BY <1>2, FailedType DEF Disconnected
  <2>2. roots' \in Seq(Screens)
    BY <1>2, LaterType DEF Disconnected, Screens
  <2>3. beats' \in BeatsType
    BY <1>2 DEF Disconnected, BeatsType
  <2>4. reach' \in ReachType
    <3>1. Monitor("tabs", reach.rid) \in ReachType
      BY MonitorType DEF ReachType
    <3>. QED BY <1>2, <3>1 DEF Disconnected
  <2>5. socket' \in SocketType
    BY <1>2 DEF Disconnected, SocketType, Links, Results
  <2>6. Counters'
    BY <1>2 DEF Disconnected, Fault, Counters
  <2>. QED BY <1>2, <2>1, <2>2, <2>3, <2>4, <2>5, <2>6 DEF Disconnected, Counters
<1>. QED BY <1>1, <1>2

LEMMA AnswerTypes ==
  ASSUME TypeOK
  PROVE  /\ Found => TypeOK'
         /\ LoggedIn => TypeOK'
         /\ LoginRefused => TypeOK'
<1>. USE Types DEF Typed
<1>1. ASSUME Found
      PROVE  TypeOK'
  <2>1. app' \in AppType
    BY <1>1 DEF Found, AppType, SocketType
  <2>2. socket' \in SocketType
    BY <1>1 DEF Found, SocketType
  <2>3. circle' \in CircleType
    <3>1. More(circle.loginTimers) \in Count
      BY MoreType DEF CircleType
    <3>. QED BY <1>1, <3>1 DEF Found, CircleType
  <2>. QED BY <1>1, <2>1, <2>2, <2>3 DEF Found
<1>2. ASSUME LoggedIn
      PROVE  TypeOK'
  <2>. DEFINE done == circle.isSwitchCircle /\ (app.routerIp # NoRouter \/ OverTox)
              opens == LoginWaits(app)
  <2>0. done \in BOOLEAN /\ opens \in BOOLEAN
    BY DEF LoginWaits, LoginType, CircleType
  <2>a. /\ app' = [app EXCEPT !.toxid = socket.url,
                     !.screen = IF opens THEN "tabs" ELSE @,
                     !.isLogOut = @ /\ ~done /\ ~opens, !.isSwitch = @ /\ ~done]
        /\ circle' = IF circle.isSwitchCircle
                     THEN [circle EXCEPT !.isLoginRequest = TRUE,
                                         !.isSwitchCircle = ~done]
                     ELSE IF opens /\ app.routerIp # NoRouter THEN OffTox(circle)
                     ELSE circle
        /\ roots' = IF done THEN Later("tabs") ELSE roots
        /\ login' = IF opens THEN LoginPage ELSE login
        /\ reach' = IF opens THEN Replaced(reach) ELSE reach
    BY <1>2 DEF LoggedIn
  <2>. HIDE DEF done, opens
  <2>1. app' \in AppType
    <3>1. (app.isLogOut /\ ~done /\ ~opens) \in BOOLEAN /\ (app.isSwitch /\ ~done) \in BOOLEAN
      OBVIOUS
    <3>. QED BY <2>a, <3>1 DEF AppType, SocketType
  <2>2. circle' \in CircleType
    <3>1. (~done) \in BOOLEAN
      OBVIOUS
    <3>2. [circle EXCEPT !.isLoginRequest = TRUE, !.isSwitchCircle = ~done] \in CircleType
      BY <3>1 DEF CircleType
    <3>. QED BY <2>a, <3>2, OffToxType
  <2>3. roots' \in Seq(Screens)
    BY <2>a, LaterType DEF Screens
  <2>4. login' \in LoginType
    BY <2>a DEF LoginPage, LoginType
  <2>5. socket' \in SocketType
    BY <1>2 DEF LoggedIn, SocketType, Results
  <2>6. beats' \in BeatsType
    BY <1>2 DEF LoggedIn, BeatsType
  <2>7. reach' \in ReachType
    BY <2>a, ReplacedType
  <2>. QED BY <1>2, <2>1, <2>2, <2>3, <2>4, <2>5, <2>6, <2>7 DEF LoggedIn
<1>3. ASSUME LoginRefused
      PROVE  TypeOK'
  <2>1. [circle EXCEPT !.isLoginRequest = TRUE] \in CircleType
    BY DEF CircleType
  <2>2. app' \in AppType /\ circle' \in CircleType
    BY <1>3, <2>1, FailedType DEF LoginRefused
  <2>3. roots' \in Seq(Screens)
    BY <1>3, LaterType DEF LoginRefused, Screens
  <2>4. login' \in LoginType
    BY <1>3 DEF LoginRefused, LoginType
  <2>5. socket' \in SocketType
    BY <1>3 DEF LoginRefused, SocketType, Results
  <2>6. faults' \in Nat
    BY <1>3 DEF LoginRefused, Fault
  <2>. QED BY <1>3, <2>2, <2>3, <2>4, <2>5, <2>6 DEF LoginRefused
<1>. QED BY <1>1, <1>2, <1>3

\* switchCircleFaield
LEMMA SwitchFailsType ==
  ASSUME TypeOK, NEW c \in CircleType, SwitchFails(c)
  PROVE  app' \in AppType /\ circle' \in CircleType /\ roots' \in Seq(Screens)
BY Types, FailedType, LaterType DEF Typed, SwitchFails, Screens

LEMMA TimeoutTypes ==
  ASSUME TypeOK
  PROVE  /\ FindTimeout => TypeOK'
         /\ LoginTimeout => TypeOK'
         /\ ShowRoot => TypeOK'
<1>. USE Types DEF Typed
<1>1. ASSUME FindTimeout
      PROVE  TypeOK'
  <2>. DEFINE c == [circle EXCEPT !.findTimers = @ - 1]
  <2>1. circle.findTimers - 1 \in Count
    BY <1>1, LessType DEF FindTimeout, CircleType
  <2>2. c \in CircleType
    BY <2>1 DEF CircleType
  <2>3. \/ circle' = c /\ UNCHANGED <<app, socket, roots>>
        \/ /\ socket' \in {socket, [socket EXCEPT !.asked = @ \cup {"find"}]}
           /\ UNCHANGED <<app, circle, roots>>
        \/ SwitchFails(c) /\ UNCHANGED socket
    BY <1>1 DEF FindTimeout
  <2>4. UNCHANGED <<reach, login, beats, delayed, choices, faults>>
    BY <1>1 DEF FindTimeout
  <2>5. [socket EXCEPT !.asked = @ \cup {"find"}] \in SocketType
    BY DEF SocketType
  <2>. HIDE DEF c
  <2>6. socket' \in SocketType
    BY <2>3, <2>5
  <2>7. app' \in AppType /\ circle' \in CircleType /\ roots' \in Seq(Screens)
    BY <2>2, <2>3, SwitchFailsType
  <2>. QED BY <2>4, <2>6, <2>7
<1>2. ASSUME LoginTimeout
      PROVE  TypeOK'
  <2>. DEFINE c == [circle EXCEPT !.loginTimers = @ - 1]
  <2>1. circle.loginTimers - 1 \in Count
    BY <1>2, LessType DEF LoginTimeout, CircleType
  <2>2. c \in CircleType
    BY <2>1 DEF CircleType
  <2>3. (circle' = c /\ UNCHANGED <<app, roots>>) \/ SwitchFails(c)
    BY <1>2 DEF LoginTimeout
  <2>4. UNCHANGED <<socket, reach, login, beats, delayed, choices, faults>>
    BY <1>2 DEF LoginTimeout
  <2>. HIDE DEF c
  <2>5. app' \in AppType /\ circle' \in CircleType /\ roots' \in Seq(Screens)
    BY <2>2, <2>3, SwitchFailsType
  <2>. QED BY <2>4, <2>5
<1>3. ASSUME ShowRoot
      PROVE  TypeOK'
  <2>1. Head(roots) \in Screens /\ roots' \in Seq(Screens)
    BY <1>3, HeadTailProperties DEF ShowRoot
  <2>2. app' \in AppType
    <3>1. (app.isLogOut /\ ~(Head(roots) = "tabs")) \in BOOLEAN
      OBVIOUS
    <3>. QED BY <1>3, <2>1, <3>1 DEF ShowRoot, AppType, Screens
  <2>3. login' \in LoginType
    BY <1>3 DEF ShowRoot, LoginPage, LoginType
  <2>4. circle' \in CircleType
    BY <1>3, OffToxType DEF ShowRoot
  <2>5. reach' \in ReachType
    BY <1>3, ReplacedType DEF ShowRoot
  <2>. QED BY <1>3, <2>1, <2>2, <2>3, <2>4, <2>5 DEF ShowRoot
<1>. QED BY <1>1, <1>2, <1>3

LEMMA ToxTypes ==
  ASSUME TypeOK
  PROVE  /\ ToxFails => TypeOK'
         /\ ToxLoggedIn => TypeOK'
         /\ ToxAdds => TypeOK'
         /\ ToxCancelled => TypeOK'
<1>. USE Types DEF Typed
<1>1. \A t \in Toxes : [circle EXCEPT !.tox = t] \in CircleType
  BY DEF CircleType
<1>2. CASE ToxFails \/ ToxCancelled
  <2>1. [circle EXCEPT !.tox = "no"] \in CircleType
    BY <1>1 DEF Toxes
  <2>2. app' \in AppType /\ circle' \in CircleType /\ roots' \in Seq(Screens)
    BY <1>2, <2>1, SwitchFailsType DEF ToxFails, ToxCancelled
  <2>. QED BY <1>2, <2>2 DEF ToxFails, ToxCancelled
<1>3. CASE ToxLoggedIn \/ ToxAdds
  <2>1. /\ [circle EXCEPT !.tox = "no"] \in CircleType
        /\ [circle EXCEPT !.tox = "wait"] \in CircleType
        /\ [circle EXCEPT !.tox = "online"] \in CircleType
    BY <1>1 DEF Toxes
  <2>2. circle' \in CircleType
    BY <1>3, <2>1, ToxFindsType DEF ToxLoggedIn, ToxAdds
  <2>. QED BY <1>3, <2>2 DEF ToxLoggedIn, ToxAdds
<1>. QED BY <1>2, <1>3

LEMMA ReachTypes ==
  ASSUME TypeOK
  PROVE  /\ NetworkChanges => TypeOK'
         /\ TabsReport => TypeOK'
         /\ TabsSearch => TypeOK'
         /\ OldReport => TypeOK'
         /\ RadioAnswers => TypeOK'
         /\ RadioSilent => TypeOK'
         /\ \A r \in Routers : LookedUp(r) => TypeOK'
         /\ DelayedConnect => TypeOK'
<1>. USE Types DEF Typed
<1>1. ASSUME NetworkChanges
      PROVE  TypeOK'
  <2>1. reach.reports + 1 \in Count
    BY <1>1, SessionConstants DEF NetworkChanges, ReachType, Count
  <2>2. reach' \in ReachType
    BY <1>1, <2>1 DEF NetworkChanges, ReachType
  <2>3. faults' \in Nat
    BY <1>1 DEF NetworkChanges, Fault
  <2>. QED BY <1>1, <2>2, <2>3 DEF NetworkChanges
<1>2. ASSUME TabsReport
      PROVE  TypeOK'
  <2>1. reach' \in ReachType /\ delayed' \in Count
    BY <1>2, ConsumedType, MoreType DEF TabsReport, TabsReported, Reported
  <2>. QED BY <1>2, <2>1 DEF TabsReport
<1>3. ASSUME TabsSearch
      PROVE  TypeOK'
  <2>1. Consumed \in ReachType
    BY <1>3, ConsumedType DEF TabsSearch, TabsReported, Reported
  <2>2. reach' \in ReachType
    BY <1>3, <2>1 DEF TabsSearch, ReachType, AppType
  <2>. QED BY <1>3, <2>2 DEF TabsSearch
<1>4. ASSUME RadioAnswers
      PROVE  TypeOK'
  <2>1. reach' \in ReachType
    BY <1>4, ConsumedType DEF RadioAnswers, Reported
  <2>2. app' \in AppType
    BY <1>4 DEF RadioAnswers, AppType, ReachType
  <2>3. socket' \in SocketType /\ circle' \in CircleType /\ login' \in LoginType
    BY <1>4, <2>2, GbFinashType DEF RadioAnswers
  <2>. QED BY <1>4, <2>1, <2>2, <2>3 DEF RadioAnswers
<1>5. ASSUME RadioSilent
      PROVE  TypeOK'
  <2>1. Consumed \in ReachType
    BY <1>5, ConsumedType DEF RadioSilent, Reported
  <2>2. CASE app.routerIp # NoRouter
    <3>1. socket' \in SocketType /\ circle' \in CircleType /\ login' \in LoginType
      BY <1>5, <2>2, GbFinashType DEF RadioSilent
    <3>. QED BY <1>5, <2>1, <2>2, <3>1 DEF RadioSilent
  <2>3. CASE app.routerIp = NoRouter
    <3>. DEFINE n == More(Consumed.lookups[app.toxid])
    <3>1. Consumed.lookups \in [Routers -> Count] /\ app.toxid \in Routers
      BY <2>1 DEF ReachType, AppType
    <3>2. n \in Count
      BY <3>1, MoreType
    <3>3. reach' = [Consumed EXCEPT !.lookups = [@ EXCEPT ![app.toxid] = n]]
      BY <1>5, <2>1, <2>3, <3>1 DEF RadioSilent, ReachType
    <3>. HIDE DEF n
    <3>4. [Consumed.lookups EXCEPT ![app.toxid] = n] \in [Routers -> Count]
      BY <3>1, <3>2
    <3>5. reach' \in ReachType
      BY <2>1, <3>3, <3>4 DEF ReachType
    <3>. QED BY <1>5, <2>3, <3>5 DEF RadioSilent
  <2>. QED BY <2>2, <2>3
<1>6. ASSUME NEW r \in Routers, LookedUp(r)
      PROVE  TypeOK'
  <2>1. reach.lookups \in [Routers -> Count] /\ reach.lookups[r] - 1 \in Count
    BY <1>6, LessType DEF LookedUp, ReachType
  <2>2. reach' = [reach EXCEPT !.lookups = [@ EXCEPT ![r] = reach.lookups[r] - 1]]
    BY <1>6, <2>1 DEF LookedUp, ReachType
  <2>3. [reach.lookups EXCEPT ![r] = reach.lookups[r] - 1] \in [Routers -> Count]
    BY <2>1
  <2>4. reach' \in ReachType
    BY <2>2, <2>3 DEF ReachType
  <2>5. app' \in AppType
    BY <1>6 DEF LookedUp, AppType
  <2>6. socket' \in SocketType /\ circle' \in CircleType /\ login' \in LoginType
    BY <1>6, <2>5, GbFinashType DEF LookedUp
  <2>. QED BY <1>6, <2>4, <2>5, <2>6 DEF LookedUp
<1>7. ASSUME DelayedConnect
      PROVE  TypeOK'
  <2>1. delayed' \in Count
    BY <1>7, LessType DEF DelayedConnect
  <2>2. socket' \in SocketType
    <3>1. app.routerIp # NoRouter => app.routerIp \in Routers
      BY DEF AppType
    <3>. QED BY <1>7, <3>1, ConnectType DEF DelayedConnect
  <2>. QED BY <1>7, <2>1, <2>2 DEF DelayedConnect
<1>8. ASSUME OldReport
      PROVE  TypeOK'
  <2>1. reach.reports - 1 \in Count
    BY <1>8, LessType DEF OldReport, Reported, ReachType
  <2>2. reach' \in ReachType
    BY <1>8, <2>1 DEF OldReport, ReachType
  <2>. QED BY <1>8, <2>2 DEF OldReport
<1>. QED BY <1>1, <1>2, <1>3, <1>4, <1>5, <1>6, <1>7, <1>8

LEMMA InitType == Init => TypeOK
<1>. USE Types DEF Typed
<1>. SUFFICES ASSUME Init PROVE TypeOK
  OBVIOUS
<1>1. 0 \in Count
  BY SessionConstants DEF Count
<1>2. app \in AppType /\ socket \in SocketType
  BY SessionConstants DEF Init, AppType, SocketType, Links, Results
<1>3. reach \in ReachType
  BY <1>1, SessionConstants DEF Init, ReachType
<1>4. circle \in CircleType
  BY <1>1 DEF Init, CircleType, Toxes
<1>5. login \in LoginType /\ beats \in BeatsType /\ roots \in Seq(Screens)
  BY DEF Init, LoginType, BeatsType
<1>. QED BY <1>1, <1>2, <1>3, <1>4, <1>5 DEF Init

LEMMA NextType == TypeOK /\ [Next]_vars => TypeOK'
<1>. SUFFICES ASSUME TypeOK, [Next]_vars
              PROVE  TypeOK'
  OBVIOUS
<1>1. CASE UNCHANGED vars
  BY <1>1, Types DEF vars, Typed
<1>2. CASE Next
  BY <1>2, UserTypes, SocketTypes, AnswerTypes, TimeoutTypes, ToxTypes, ReachTypes
     DEF Next, Answers, Timeouts, ToxLogin, Reports
<1>. QED BY <1>1, <1>2

\* Session is type correct for any circles and any bounds, a router that logs
\* the user out at any moment included.
THEOREM SessionTyped == Spec => []TypeOK
BY InitType, NextType, PTL DEF Spec
-----------------------------------------------------------------------------
(***************************************************************************)
(* Flags and root views: a switch that is under way has the tab bar logged *)
(* out and no root view on its way; the tab bar of a finished switch is    *)
(* the next root view, while its session is on already.                    *)
(***************************************************************************)
OnlyFirst(rs) == \A i \in 1 .. Len(rs) : rs[i] = "tabs" => i = 1
TabsDue(rs) == rs # <<>> /\ rs[1] = "tabs"

FlagsInv ==
  /\ circle.isSwitchCircle => app.isLogOut /\ app.screen = "tabs" /\ roots = <<>>
  /\ app.isSwitch => circle.isSwitchCircle
  /\ OnlyFirst(roots)
  /\ TabsDue(roots) => InSession(app)

LEMMA LaterLogin ==
  ASSUME roots \in Seq(Screens), OnlyFirst(roots)
  PROVE  OnlyFirst(Later("login")) /\ (TabsDue(Later("login")) => TabsDue(roots))
<1>. DEFINE rs == Append(roots, "login")
<1>1. /\ Len(roots) \in Nat /\ Len(rs) = Len(roots) + 1
      /\ rs[Len(roots) + 1] = "login"
      /\ \A i \in 1 .. Len(roots) : rs[i] = roots[i]
      /\ Len(roots) = 0 => roots = <<>>
  BY AppendProperties, LenProperties, EmptySeq DEF Screens
<1>2. Later("login") = rs \/ Later("login") = roots
  BY DEF Later
<1>. HIDE DEF rs
<1>3. OnlyFirst(rs)
  <2>. SUFFICES ASSUME NEW i \in 1 .. Len(rs), rs[i] = "tabs"
                PROVE  i = 1
    BY DEF OnlyFirst
  <2>1. i \in 1 .. Len(roots) \/ i = Len(roots) + 1
    BY <1>1
  <2>. QED BY <1>1, <2>1 DEF OnlyFirst
<1>4. TabsDue(rs) => TabsDue(roots)
  <2>. SUFFICES ASSUME TabsDue(rs)
                PROVE  TabsDue(roots)
    OBVIOUS
  <2>1. Len(roots) # 0
    BY <1>1 DEF TabsDue
  <2>2. 1 \in 1 .. Len(roots) /\ roots # <<>>
    BY <1>1, <2>1
  <2>. QED BY <1>1, <2>2 DEF TabsDue
<1>. QED BY <1>2, <1>3, <1>4

LEMMA LaterTabs ==
  ASSUME roots = <<>>
  PROVE  OnlyFirst(Later("tabs"))
<1>1. Later("tabs") = <<"tabs">>
  BY SessionConstants DEF Later
<1>. QED BY <1>1 DEF OnlyFirst

LEMMA TailRoots ==
  ASSUME roots \in Seq(Screens), roots # <<>>, OnlyFirst(roots)
  PROVE  OnlyFirst(Tail(roots)) /\ ~TabsDue(Tail(roots)) /\ Head(roots) = roots[1]
<1>. DEFINE rs == Tail(roots)
<1>1. /\ rs \in Seq(Screens) /\ Len(roots) \in Nat \ {0}
      /\ Len(rs) = Len(roots) - 1 /\ Head(roots) = roots[1]
      /\ \A i \in 1 .. Len(rs) : rs[i] = roots[i + 1]
  BY HeadTailProperties, LenProperties, EmptySeq
<1>. HIDE DEF rs
<1>2. \A i \in 1 .. Len(rs) : rs[i] # "tabs"
  <2>. SUFFICES ASSUME NEW i \in 1 .. Len(rs), rs[i] = "tabs"
                PROVE  FALSE
    OBVIOUS
  <2>1. i + 1 \in 1 .. Len(roots) /\ i + 1 # 1
    BY <1>1
  <2>. QED BY <1>1, <2>1 DEF OnlyFirst
<1>3. rs # <<>> => 1 \in 1 .. Len(rs)
  BY <1>1, LenProperties, EmptySeq
<1>. QED BY <1>1, <1>2, <1>3 DEF OnlyFirst, TabsDue, rs

LEMMA FlagsSame ==
  ASSUME FlagsInv, app'.screen = app.screen, app'.isLogOut = app.isLogOut,
         app'.isSwitch = app.isSwitch, roots' = roots,
         circle'.isSwitchCircle = circle.isSwitchCircle
  PROVE  FlagsInv'
BY DEF FlagsInv, InSession, Hears, OnlyFirst, TabsDue

\* switchCircleFaield
LEMMA FlagsFailed ==
  ASSUME FlagsInv, roots \in Seq(Screens), app'.screen = app.screen,
         app'.isLogOut = app.isLogOut, app'.isSwitch = FALSE,
         circle'.isSwitchCircle = FALSE, roots' = Later("login")
  PROVE  FlagsInv'
<1>1. OnlyFirst(roots') /\ (TabsDue(roots') => TabsDue(roots))
  BY LaterLogin DEF FlagsInv
<1>2. (TabsDue(roots) => InSession(app'))
  BY DEF FlagsInv, InSession, Hears
<1>. QED BY <1>1, <1>2 DEF FlagsInv, OnlyFirst, TabsDue, InSession, Hears

LEMMA FailedFields ==
  ASSUME NEW a \in AppType, NEW c \in CircleType
  PROVE  /\ FailedApp(a).screen = a.screen /\ FailedApp(a).isLogOut = a.isLogOut
         /\ FailedApp(a).isSwitch = FALSE /\ FailedApp(a).routerIp = NoRouter
         /\ FailedCircle(c).isSwitchCircle = FALSE
<1>1. LET d == [c EXCEPT !.isSwitchCircle = FALSE]
      IN  d \in CircleType /\ d.isSwitchCircle = FALSE
  BY DEF CircleType
<1>. QED BY <1>1, OffToxType DEF FailedApp, FailedCircle, AppType

\* A timer and the end of an attempt over Tox: the switch fails, or its state is
\* left alone but for a timer that was answered.
Fires == FindTimeout \/ LoginTimeout \/ ToxFails \/ ToxCancelled

LEMMA FiresFields ==
  ASSUME TypeOK, Fires
  PROVE  /\ UNCHANGED <<reach, login, delayed>>
         /\ \/ /\ app'.screen = app.screen /\ app'.isLogOut = app.isLogOut
               /\ app'.isSwitch = FALSE /\ app'.routerIp = NoRouter
               /\ circle'.isSwitchCircle = FALSE /\ roots' = Later("login")
               /\ socket' = socket
            \/ /\ UNCHANGED <<app, roots>>
               /\ circle'.isSwitchCircle = circle.isSwitchCircle
               /\ circle'.currentURL = circle.currentURL /\ circle'.tox = circle.tox
               /\ circle'.toxSuccessCount = circle.toxSuccessCount
               /\ TimerWatches => TimerWatches'
               /\ socket'.link = socket.link /\ socket'.url = socket.url
               /\ socket'.asked # {} => socket.asked # {} \/ socket.link = "up"
<1>. USE Types DEF Typed
<1>1. ASSUME NEW c \in CircleType, SwitchFails(c)
      PROVE  /\ app'.screen = app.screen /\ app'.isLogOut = app.isLogOut
             /\ app'.isSwitch = FALSE /\ app'.routerIp = NoRouter
             /\ circle'.isSwitchCircle = FALSE /\ roots' = Later("login")
  BY <1>1, FailedFields DEF SwitchFails
<1>2. CASE FindTimeout
  <2>. DEFINE c == [circle EXCEPT !.findTimers = @ - 1]
  <2>1. circle.findTimers - 1 \in Count
    BY <1>2, LessType DEF FindTimeout, CircleType
  <2>2. /\ c \in CircleType /\ c.isSwitchCircle = circle.isSwitchCircle
        /\ c.currentURL = circle.currentURL /\ c.tox = circle.tox
        /\ c.toxSuccessCount = circle.toxSuccessCount
        /\ c.isFindRequest = circle.isFindRequest
        /\ c.loginTimers = circle.loginTimers
        /\ c.isLoginRequest = circle.isLoginRequest
    BY <2>1 DEF CircleType
  <2>3. /\ UNCHANGED <<reach, login, delayed>>
        /\ \/ circle.isFindRequest /\ circle' = c /\ UNCHANGED <<app, socket, roots>>
           \/ /\ \/ socket' = socket
                 \/ socket.link = "up" /\ socket' = [socket EXCEPT !.asked = @ \cup {"find"}]
              /\ UNCHANGED <<app, circle, roots>>
           \/ SwitchFails(c) /\ UNCHANGED socket
    BY <1>2 DEF FindTimeout
  <2>. HIDE DEF c
  <2>4. CASE circle.isFindRequest /\ circle' = c /\ UNCHANGED <<app, socket, roots>>
    <3>1. TimerWatches => TimerWatches'
      BY <2>2, <2>4 DEF TimerWatches
    <3>. QED BY <2>2, <2>3, <2>4, <3>1
  <2>5. CASE /\ \/ socket' = socket
                \/ socket.link = "up" /\ socket' = [socket EXCEPT !.asked = @ \cup {"find"}]
             /\ UNCHANGED <<app, circle, roots>>
    <3>1. TimerWatches => TimerWatches'
      BY <2>5 DEF TimerWatches
    <3>2. /\ socket'.link = socket.link /\ socket'.url = socket.url
          /\ socket'.asked # {} => socket.asked # {} \/ socket.link = "up"
      BY <2>5 DEF SocketType
    <3>. QED BY <2>3, <2>5, <3>1, <3>2
  <2>6. CASE SwitchFails(c) /\ UNCHANGED socket
    BY <1>1, <2>2, <2>3, <2>6
  <2>. QED BY <2>3, <2>4, <2>5, <2>6
<1>3. CASE LoginTimeout
  <2>. DEFINE c == [circle EXCEPT !.loginTimers = @ - 1]
  <2>1. circle.loginTimers - 1 \in Count
    BY <1>3, LessType DEF LoginTimeout, CircleType
  <2>2. /\ c \in CircleType /\ c.isSwitchCircle = circle.isSwitchCircle
        /\ c.currentURL = circle.currentURL /\ c.tox = circle.tox
        /\ c.toxSuccessCount = circle.toxSuccessCount
        /\ c.isFindRequest = circle.isFindRequest
        /\ c.findTimers = circle.findTimers
        /\ c.isLoginRequest = circle.isLoginRequest
    BY <2>1 DEF CircleType
  <2>3. /\ UNCHANGED <<reach, login, delayed, socket>>
        /\ \/ circle.isLoginRequest /\ circle' = c /\ UNCHANGED <<app, roots>>
           \/ SwitchFails(c)
    BY <1>3 DEF LoginTimeout
  <2>. HIDE DEF c
  <2>4. CASE circle.isLoginRequest /\ circle' = c /\ UNCHANGED <<app, roots>>
    <3>1. TimerWatches => TimerWatches'
      BY <2>2, <2>4 DEF TimerWatches
    <3>. QED BY <2>2, <2>3, <2>4, <3>1
  <2>. QED BY <1>1, <2>2, <2>3, <2>4
<1>4. CASE ToxFails \/ ToxCancelled
  <2>1. [circle EXCEPT !.tox = "no"] \in CircleType
    BY DEF CircleType, Toxes
  <2>2. /\ UNCHANGED <<reach, login, delayed, socket>>
        /\ SwitchFails([circle EXCEPT !.tox = "no"])
    BY <1>4 DEF ToxFails, ToxCancelled
  <2>. QED BY <1>1, <2>1, <2>2
<1>. QED BY <1>2, <1>3, <1>4 DEF Fires

\* What the other steps of Tox leave alone.
LEMMA ToxFields ==
  ASSUME TypeOK, ToxLoggedIn \/ ToxAdds
  PROVE  /\ UNCHANGED <<app, socket, reach, login, roots, delayed>>
         /\ circle'.isSwitchCircle = circle.isSwitchCircle
         /\ circle'.currentURL = circle.currentURL
         /\ TimerWatches => TimerWatches'
         /\ \/ circle'.tox = "wait"
            \/ circle'.tox = "online" /\ (circle'.toxSuccessCount > 1 \/ TimerWatches')
            \/ app.routerIp # NoRouter
<1>. USE Types DEF Typed
<1>. DEFINE C(t) == [circle EXCEPT !.tox = t]
<1>1. ASSUME NEW t \in Toxes
      PROVE  /\ C(t) \in CircleType /\ C(t).isSwitchCircle = circle.isSwitchCircle
             /\ C(t).currentURL = circle.currentURL /\ C(t).tox = t
             /\ C(t).findTimers = circle.findTimers
             /\ C(t).isFindRequest = circle.isFindRequest
             /\ C(t).loginTimers = circle.loginTimers
             /\ C(t).isLoginRequest = circle.isLoginRequest
  BY DEF CircleType
<1>2. /\ UNCHANGED <<app, socket, reach, login, roots, delayed>>
      /\ \/ circle' = C("wait")
         \/ circle' = ToxFinds(C("online"))
         \/ app.routerIp # NoRouter /\ circle' = C("no")
  BY DEF ToxLoggedIn, ToxAdds
<1>3. {"no", "wait", "online"} \subseteq Toxes
  BY DEF Toxes
<1>. HIDE DEF C
<1>4. CASE circle' = C("wait") \/ (app.routerIp # NoRouter /\ circle' = C("no"))
  BY <1>1, <1>2, <1>3, <1>4 DEF TimerWatches
<1>5. CASE circle' = ToxFinds(C("online"))
  <2>1. C("online") \in CircleType /\ C("online").tox = "online"
    BY <1>1, <1>3
  <2>2. /\ circle'.isSwitchCircle = circle.isSwitchCircle
        /\ circle'.currentURL = circle.currentURL /\ circle'.tox = "online"
    BY <1>1, <1>3, <1>5, <2>1, ToxFindsType
  <2>3. circle'.toxSuccessCount > 1 \/ TimerWatches'
    BY <1>5, <2>1, ToxFindsType DEF TimerWatches
  <2>4. TimerWatches => TimerWatches'
    BY <1>1, <1>3, <1>5, <2>1, ToxFindsType DEF TimerWatches
  <2>. QED BY <1>2, <2>2, <2>3, <2>4
<1>. QED BY <1>2, <1>4, <1>5

\* GB_FINASH, in a state a of the app: who hears it connects.
LEMMA GbFinashFields ==
  ASSUME NEW a \in AppType, GbFinash(a), circle \in CircleType, login \in LoginType
  PROVE  /\ circle'.isSwitchCircle = circle.isSwitchCircle
         /\ circle.isSwitchCircle /\ a.routerIp = NoRouter => circle'.tox = "login"
         /\ login'.clicked = login.clicked
         /\ \/ socket' = socket
            \/ /\ socket' = Connect(a.routerIp)
               /\ socket'.url = a.routerIp /\ socket'.link = "connecting"
               /\ socket'.asked = {}
         /\ (InSession(a) \/ circle.isSwitchCircle \/ LoginWaits(a))
              /\ a.routerIp # NoRouter
            => /\ socket'.url = a.routerIp /\ socket'.link = "connecting"
               /\ socket'.asked = {}
<1>1. /\ circle'.isSwitchCircle = circle.isSwitchCircle
      /\ circle.isSwitchCircle /\ a.routerIp = NoRouter => circle'.tox = "login"
  <2>1. LET c == [circle EXCEPT !.tox = "login"]
        IN  c.isSwitchCircle = circle.isSwitchCircle /\ c.tox = "login"
    BY DEF CircleType
  <2>. QED BY <2>1, OffToxType DEF GbFinash, Finash
<1>2. login'.clicked = login.clicked
  BY DEF GbFinash, Finash, LoginType
<1>3. LET s == Connect(a.routerIp)
      IN  s.url = a.routerIp /\ s.link = "connecting" /\ s.asked = {}
  BY DEF Connect
<1>4. \/ socket' = socket \/ socket' = Connect(a.routerIp)
  BY DEF GbFinash
<1>5. (InSession(a) \/ circle.isSwitchCircle \/ LoginWaits(a)) /\ a.routerIp # NoRouter
        => socket' = Connect(a.routerIp)
  BY DEF GbFinash, Connects, InSession, Hears
<1>. QED BY <1>1, <1>2, <1>3, <1>4, <1>5

LEMMA FlagsStep ==
  ASSUME TypeOK, ~PushInSwitch, FlagsInv, Next
  PROVE  FlagsInv'
<1>. USE Types DEF Typed
<1>1. ASSUME NEW r \in Routers, LogIn(r)
      PROVE  FlagsInv'
  BY <1>1, FlagsSame, OffToxType DEF LogIn, AppType
<1>2. CASE LogOut \/ PushLogout
  <2>1. /\ app'.screen = "login" /\ app'.isSwitch = app.isSwitch
        /\ circle'.isSwitchCircle = circle.isSwitchCircle /\ roots' = roots
    BY <1>2, OffToxType DEF LogOut, PushLogout, Leave, AppType
  <2>2. roots = <<>>
    BY <1>2 DEF LogOut, PushLogout
  <2>3. ~circle.isSwitchCircle
    BY <1>2 DEF LogOut, PushLogout, FlagsInv
  <2>. QED BY <2>1, <2>2, <2>3 DEF FlagsInv, TabsDue
<1>3. ASSUME NEW r \in Routers, SwitchCircle(r)
      PROVE  FlagsInv'
  <2>1. app'.screen = "tabs" /\ app'.isLogOut = TRUE
    BY <1>3 DEF SwitchCircle, AppType
  <2>2. circle'.isSwitchCircle = TRUE
    <3>1. LET c == [circle EXCEPT !.isSwitchCircle = TRUE]
          IN  c \in CircleType /\ c.isSwitchCircle = TRUE
      BY DEF CircleType
    <3>2. LET c == [circle EXCEPT !.isSwitchCircle = TRUE, !.currentURL = app.routerIp]
          IN  c.isSwitchCircle = TRUE
      BY DEF CircleType
    <3>. QED BY <1>3, <3>1, <3>2, OffToxType DEF SwitchCircle
  <2>3. roots = <<>> /\ roots' = roots
    BY <1>3 DEF SwitchCircle
  <2>. QED BY <2>1, <2>2, <2>3 DEF FlagsInv, TabsDue
<1>4. CASE Connected
  BY <1>4, FlagsSame DEF Connected, AsksFind, CircleType
<1>5. CASE Disconnected
  <2>1. CASE circle.isSwitchCircle /\ ~CancelledEnd
    BY <1>5, <2>1, FlagsFailed, FailedFields DEF Disconnected
  <2>2. CASE ~(circle.isSwitchCircle /\ ~CancelledEnd)
    BY <1>5, <2>2, FlagsSame DEF Disconnected
  <2>. QED BY <2>1, <2>2
<1>6. CASE Found
  BY <1>6, FlagsSame DEF Found, AppType, CircleType
<1>7. CASE LoggedIn
  <2>. DEFINE done == circle.isSwitchCircle /\ (app.routerIp # NoRouter \/ OverTox)
              opens == LoginWaits(app)
  <2>1. /\ app'.screen = IF opens THEN "tabs" ELSE app.screen
        /\ app'.isLogOut <=> app.isLogOut /\ ~done /\ ~opens
        /\ app'.isSwitch <=> app.isSwitch /\ ~done
    BY <1>7 DEF LoggedIn, AppType
  <2>2. circle'.isSwitchCircle <=> circle.isSwitchCircle /\ ~done
    <3>1. circle.isSwitchCircle => circle'.isSwitchCircle = ~done
      BY <1>7 DEF LoggedIn, CircleType
    <3>2. ~circle.isSwitchCircle => circle' = circle \/ circle' = OffTox(circle)
      BY <1>7 DEF LoggedIn
    <3>. QED BY <3>1, <3>2, OffToxType
  <2>3. roots' = IF done THEN Later("tabs") ELSE roots
    BY <1>7 DEF LoggedIn
  <2>4. opens => app.screen = "login"
    BY DEF LoginWaits
  <2>. HIDE DEF opens
  <2>5. CASE done
    <3>1. roots = <<>> /\ app.screen = "tabs"
      BY <2>5 DEF FlagsInv
    <3>2. OnlyFirst(roots')
      BY <2>3, <2>5, <3>1, LaterTabs
    <3>3. app'.screen = "tabs" /\ ~app'.isLogOut /\ ~app'.isSwitch
      BY <2>1, <2>4, <2>5, <3>1
    <3>. QED BY <2>2, <2>5, <3>2, <3>3 DEF FlagsInv, InSession, Hears
  <2>6. CASE ~done
    <3>1. roots' = roots /\ (TabsDue(roots) => InSession(app'))
      BY <2>1, <2>3, <2>6 DEF FlagsInv, InSession, Hears
    <3>2. circle'.isSwitchCircle => app'.isLogOut /\ app'.screen = "tabs"
      BY <2>1, <2>2, <2>4, <2>6 DEF FlagsInv
    <3>3. app'.isSwitch => circle'.isSwitchCircle
      BY <2>1, <2>2, <2>6 DEF FlagsInv
    <3>. QED BY <2>2, <3>1, <3>2, <3>3 DEF FlagsInv, InSession, Hears
  <2>. QED BY <2>5, <2>6
<1>8. CASE LoginRefused
  <2>1. [circle EXCEPT !.isLoginRequest = TRUE] \in CircleType
    BY DEF CircleType
  <2>2. CASE circle.isSwitchCircle
    BY <1>8, <2>1, <2>2, FlagsFailed, FailedFields DEF LoginRefused
  <2>3. CASE ~circle.isSwitchCircle
    BY <1>8, <2>3, FlagsSame DEF LoginRefused
  <2>. QED BY <2>2, <2>3
<1>9. CASE Fires
  BY <1>9, FiresFields, FlagsFailed, FlagsSame
<1>10. CASE ToxLoggedIn \/ ToxAdds
  BY <1>10, ToxFields, FlagsSame
<1>13. CASE ShowRoot
  <2>1. /\ OnlyFirst(Tail(roots)) /\ ~TabsDue(Tail(roots))
        /\ Head(roots) = roots[1] /\ Head(roots) \in Screens /\ roots # <<>>
    BY <1>13, TailRoots, HeadTailProperties DEF ShowRoot, FlagsInv
  <2>2. ~circle.isSwitchCircle /\ ~app.isSwitch
    BY <2>1 DEF FlagsInv
  <2>3. /\ circle'.isSwitchCircle = circle.isSwitchCircle /\ roots' = Tail(roots)
        /\ app'.isSwitch = app.isSwitch
    BY <1>13, OffToxType DEF ShowRoot, AppType
  <2>. QED BY <2>1, <2>2, <2>3 DEF FlagsInv, OnlyFirst, TabsDue
<1>14. CASE NetworkChanges
  BY <1>14, FlagsSame DEF NetworkChanges
<1>15. CASE TabsReport \/ TabsSearch \/ OldReport \/ DelayedConnect
  BY <1>15, FlagsSame DEF TabsReport, TabsSearch, OldReport, DelayedConnect
<1>16. CASE RadioAnswers
  <2>1. app' \in AppType
    BY <1>16 DEF RadioAnswers, AppType, ReachType
  <2>2. circle'.isSwitchCircle = circle.isSwitchCircle
    BY <1>16, <2>1, GbFinashFields DEF RadioAnswers
  <2>. QED BY <1>16, <2>2, FlagsSame DEF RadioAnswers, AppType
<1>17. CASE RadioSilent
  <2>1. circle'.isSwitchCircle = circle.isSwitchCircle
    BY <1>17, GbFinashFields DEF RadioSilent
  <2>. QED BY <1>17, <2>1, FlagsSame DEF RadioSilent
<1>18. ASSUME NEW r \in Routers, LookedUp(r)
       PROVE  FlagsInv'
  <2>1. app' \in AppType
    BY <1>18 DEF LookedUp, AppType
  <2>2. circle'.isSwitchCircle = circle.isSwitchCircle
    BY <1>18, <2>1, GbFinashFields DEF LookedUp
  <2>. QED BY <1>18, <2>2, FlagsSame DEF LookedUp, AppType
<1>. QED BY <1>1, <1>2, <1>3, <1>4, <1>5, <1>6, <1>7, <1>8, <1>9, <1>10,
            <1>13, <1>14, <1>15, <1>16, <1>17, <1>18
         DEF Next, Answers, Timeouts, ToxLogin, Fires, Reports
-----------------------------------------------------------------------------
(***************************************************************************)
(* The connection: requests are asked on a connected socket only, and      *)
(* whoever hears GB_FINASH has a socket to the router of the app.          *)
(***************************************************************************)
AskedInv == socket.asked # {} => socket.link \in {"up", "closing"}

Heard == InSession(app) \/ circle.isSwitchCircle \/ LoginWaits(app)
OnRouter == Heard /\ app.routerIp # NoRouter => socket.url = app.routerIp

LinkInv == AskedInv /\ OnRouter /\ NeverStranded

LEMMA DisconnectFields ==
  ASSUME NEW s \in SocketType
  PROVE  /\ Disconnect(s).url = s.url /\ Disconnect(s).asked = s.asked
         /\ Disconnect(s).link = IF s.link = "up" THEN "closing" ELSE s.link
BY DEF Disconnect, SocketType

\* Without a router there is no session to lose.
LEMMA LinkNoRouter ==
  ASSUME LinkInv, socket \in SocketType, app'.routerIp = NoRouter,
         socket' = socket \/ socket' = Disconnect(socket)
  PROVE  LinkInv'
<1>1. AskedInv'
  BY DisconnectFields DEF LinkInv, AskedInv
<1>. QED BY <1>1 DEF LinkInv, OnRouter, NeverStranded, HasSession

\* What changes neither the connection nor what is to restore it, unless it
\* replaces the tab bar, and puts nobody in the position to hear a search.
LEMMA LinkSame ==
  ASSUME LinkInv, socket'.link = socket.link, socket'.url = socket.url,
         socket'.asked # {} => socket.asked # {} \/ socket.link = "up",
         app'.routerIp = app.routerIp, Heard' => Heard,
         socket.link = "down" /\ InSession(app') => InSession(app),
         reach'.reports = reach.reports,
         reach'.block = reach.block \/ reach'.block = "old",
         delayed' = delayed
  PROVE  LinkInv'
<1>1. AskedInv' /\ OnRouter'
  BY DEF LinkInv, AskedInv, OnRouter
<1>2. NeverStranded'
  BY DEF LinkInv, NeverStranded, HasSession, Reconnecting, InSession, Hears
<1>. QED BY <1>1, <1>2 DEF LinkInv

\* Whoever hears GB_FINASH connects to the router of the app.
LEMMA LinkGbFinash ==
  ASSUME LinkInv, circle \in CircleType, login \in LoginType,
         app' \in AppType, GbFinash(app')
  PROVE  LinkInv'
<1>1. /\ circle'.isSwitchCircle = circle.isSwitchCircle
      /\ login'.clicked = login.clicked
      /\ socket' = socket \/ socket'.asked = {}
      /\ (InSession(app') \/ circle.isSwitchCircle \/ LoginWaits(app'))
           /\ app'.routerIp # NoRouter
         => socket'.url = app'.routerIp /\ socket'.link = "connecting"
  BY GbFinashFields
<1>2. AskedInv'
  BY <1>1 DEF LinkInv, AskedInv
<1>3. OnRouter'
  BY <1>1 DEF OnRouter, Heard, InSession, Hears, LoginWaits
<1>4. NeverStranded'
  BY <1>1 DEF NeverStranded, HasSession, InSession, Hears
<1>. QED BY <1>2, <1>3, <1>4 DEF LinkInv

LEMMA LinkStep ==
  ASSUME TypeOK, FlagsInv, LinkInv, Next
  PROVE  LinkInv'
<1>. USE Types DEF Typed
<1>1. ASSUME NEW r \in Routers, LogIn(r)
      PROVE  LinkInv'
  <2>1. app'.routerIp = NoRouter
    BY <1>1 DEF LogIn, AppType
  <2>. QED BY <1>1, <2>1, LinkNoRouter DEF LogIn
<1>2. CASE LogOut \/ PushLogout
  <2>1. app'.routerIp = NoRouter
    BY <1>2 DEF LogOut, PushLogout, Leave, AppType
  <2>. QED BY <1>2, <2>1, LinkNoRouter DEF LogOut, PushLogout, Leave
<1>3. ASSUME NEW r \in Routers, SwitchCircle(r)
      PROVE  LinkInv'
  <2>1. app'.routerIp = NoRouter
    BY <1>3 DEF SwitchCircle, AppType
  <2>. QED BY <1>3, <2>1, LinkNoRouter DEF SwitchCircle
<1>4. CASE Connected
  <2>1. socket'.link = "up" /\ socket'.url = socket.url
    BY <1>4 DEF Connected, SocketType
  <2>2. /\ app' = app /\ login'.clicked = login.clicked
        /\ circle'.isSwitchCircle = circle.isSwitchCircle
    BY <1>4 DEF Connected, AsksFind, LoginType, CircleType
  <2>3. Heard' <=> Heard
    BY <2>2 DEF Heard, InSession, Hears, LoginWaits
  <2>. QED BY <2>1, <2>2, <2>3 DEF LinkInv, AskedInv, OnRouter, NeverStranded
<1>5. CASE Disconnected
  <2>1. socket'.link = "down" /\ socket'.url = socket.url /\ socket'.asked = {}
    BY <1>5 DEF Disconnected, SocketType
  <2>2. AskedInv'
    BY <2>1 DEF AskedInv
  <2>3. OnRouter'
    <3>1. CASE circle.isSwitchCircle /\ ~CancelledEnd
      BY <1>5, <3>1, FailedFields DEF Disconnected, OnRouter
    <3>2. CASE ~(circle.isSwitchCircle /\ ~CancelledEnd)
      <4>1. app' = app /\ circle' = circle /\ login' = login
        BY <1>5, <3>2 DEF Disconnected
      <4>. QED BY <2>1, <4>1 DEF LinkInv, OnRouter, Heard, InSession, Hears, LoginWaits
    <3>. QED BY <3>1, <3>2
  <2>4. NeverStranded'
    <3>. SUFFICES ASSUME HasSession'
                  PROVE  reach'.reports > 0 /\ reach'.block = "tabs"
      BY DEF NeverStranded, Reconnecting
    <3>1. Watches(app')
      BY DEF HasSession, Watches, InSession, Hears
    <3>2. reach' = Monitor("tabs", reach.rid)
      BY <1>5, <3>1 DEF Disconnected
    <3>3. More(reach.reports) > 0
      BY MoreType DEF ReachType
    <3>. QED BY <3>2, <3>3 DEF Monitor, ReachType
  <2>. QED BY <2>2, <2>3, <2>4 DEF LinkInv
<1>6. CASE Found
  <2>1. /\ socket'.link = socket.link /\ socket'.url = socket.url
        /\ app'.routerIp = app.routerIp /\ app'.screen = app.screen
        /\ app'.isLogOut = app.isLogOut /\ app'.isSwitch = app.isSwitch
        /\ circle'.isSwitchCircle = circle.isSwitchCircle /\ login' = login
        /\ reach' = reach /\ delayed' = delayed /\ socket.asked # {}
    BY <1>6 DEF Found, SocketType, AppType, CircleType
  <2>2. Heard' <=> Heard
    BY <2>1 DEF Heard, InSession, Hears, LoginWaits
  <2>3. InSession(app') <=> InSession(app)
    BY <2>1 DEF InSession, Hears
  <2>. QED BY <2>1, <2>2, <2>3, LinkSame
<1>7. CASE LoggedIn
  <2>. DEFINE done == circle.isSwitchCircle /\ (app.routerIp # NoRouter \/ OverTox)
              opens == LoginWaits(app)
  <2>1. /\ app'.routerIp = app.routerIp
        /\ app'.screen = IF opens THEN "tabs" ELSE app.screen
        /\ app'.isLogOut <=> app.isLogOut /\ ~done /\ ~opens
        /\ app'.isSwitch <=> app.isSwitch /\ ~done
    BY <1>7 DEF LoggedIn, AppType
  <2>2. circle'.isSwitchCircle => circle.isSwitchCircle
    <3>1. ~circle.isSwitchCircle => circle' = circle \/ circle' = OffTox(circle)
      BY <1>7 DEF LoggedIn
    <3>. QED BY <3>1, OffToxType
  <2>3. login' = IF opens THEN LoginPage ELSE login
    BY <1>7 DEF LoggedIn
  <2>4. /\ socket'.link = socket.link /\ socket'.url = socket.url
        /\ socket.asked # {} /\ reach'.reports = reach.reports
        /\ reach'.block = reach.block \/ reach'.block = "old"
        /\ delayed' = delayed
    BY <1>7, ReplacedType DEF LoggedIn, SocketType
  <2>5. Heard' => Heard
    <3>1. LoginWaits(app)' => LoginWaits(app)
      BY <2>1, <2>3 DEF LoginWaits, LoginPage
    <3>2. InSession(app)' => InSession(app) \/ done \/ opens
      BY <2>1 DEF InSession, Hears
    <3>. QED BY <2>2, <3>1, <3>2 DEF Heard
  <2>6. socket.link # "down"
    BY <2>4 DEF LinkInv, AskedInv
  <2>. QED BY <2>1, <2>4, <2>5, <2>6, LinkSame
<1>8. CASE LoginRefused
  <2>1. CASE circle.isSwitchCircle
    <3>1. app'.routerIp = NoRouter
      BY <1>8, <2>1, FailedFields DEF LoginRefused
    <3>2. socket'.link = socket.link /\ socket.asked # {}
      BY <1>8 DEF LoginRefused, SocketType
    <3>. QED BY <3>1, <3>2
             DEF LinkInv, AskedInv, OnRouter, NeverStranded, HasSession
  <2>2. CASE ~circle.isSwitchCircle
    <3>1. app' = app /\ circle' = circle /\ reach' = reach /\ delayed' = delayed
      BY <1>8, <2>2 DEF LoginRefused
    <3>2. socket'.link = socket.link /\ socket'.url = socket.url /\ socket.asked # {}
      BY <1>8 DEF LoginRefused, SocketType
    <3>3. login'.clicked => login.clicked
      BY <1>8 DEF LoginRefused, LoginType
    <3>4. Heard' => Heard
      BY <3>1, <3>3 DEF Heard, InSession, Hears, LoginWaits
    <3>. QED BY <3>1, <3>2, <3>4, LinkSame
  <2>. QED BY <2>1, <2>2
<1>9. CASE Fires
  <2>1. UNCHANGED <<reach, login, delayed>>
    BY <1>9, FiresFields
  <2>2. CASE app'.routerIp = NoRouter /\ socket' = socket
    BY <2>2, LinkNoRouter
  <2>3. CASE /\ app' = app /\ circle'.isSwitchCircle = circle.isSwitchCircle
             /\ socket'.link = socket.link /\ socket'.url = socket.url
             /\ socket'.asked # {} => socket.asked # {} \/ socket.link = "up"
    <3>1. Heard' => Heard
      BY <2>1, <2>3 DEF Heard, InSession, Hears, LoginWaits
    <3>. QED BY <2>1, <2>3, <3>1, LinkSame
  <2>. QED BY <1>9, <2>2, <2>3, FiresFields
<1>10. CASE ToxLoggedIn \/ ToxAdds
  <2>1. /\ UNCHANGED <<app, socket, reach, login, delayed>>
        /\ circle'.isSwitchCircle = circle.isSwitchCircle
    BY <1>10, ToxFields
  <2>2. Heard' => Heard
    BY <2>1 DEF Heard, InSession, Hears, LoginWaits
  <2>. QED BY <2>1, <2>2, LinkSame
<1>13. CASE ShowRoot
  <2>1. Head(roots) = roots[1] /\ Head(roots) \in Screens /\ roots # <<>>
    BY <1>13, HeadTailProperties DEF ShowRoot
  <2>2. ~circle.isSwitchCircle
    BY <2>1 DEF FlagsInv
  <2>3. /\ app'.screen = roots[1] /\ app'.isSwitch = app.isSwitch
        /\ app'.routerIp = app.routerIp /\ ~login'.clicked
        /\ circle'.isSwitchCircle = circle.isSwitchCircle
        /\ socket' = socket /\ delayed' = delayed
        /\ reach'.reports = reach.reports
        /\ reach'.block = reach.block \/ reach'.block = "old"
    BY <1>13, <2>1, OffToxType, ReplacedType DEF ShowRoot, AppType, LoginPage
  <2>4. InSession(app') => InSession(app)
    BY <2>1, <2>3 DEF FlagsInv, TabsDue, InSession, Hears
  <2>5. Heard' => Heard
    BY <2>2, <2>3, <2>4 DEF Heard, LoginWaits, InSession, Hears
  <2>. QED BY <2>3, <2>4, <2>5, LinkSame
<1>14. CASE NetworkChanges
  <2>1. /\ reach'.reports = reach.reports + 1 /\ reach'.block = reach.block
        /\ reach.reports \in Nat
    BY <1>14 DEF NetworkChanges, ReachType, Count
  <2>2. UNCHANGED <<app, socket, circle, login, delayed>>
    BY <1>14 DEF NetworkChanges
  <2>3. Reconnecting => Reconnecting'
    BY <2>1, <2>2 DEF Reconnecting
  <2>. QED BY <2>1, <2>2, <2>3 DEF LinkInv, AskedInv, OnRouter, Heard, NeverStranded,
                             HasSession, InSession, Hears, LoginWaits
<1>15. CASE TabsReport
  <2>1. UNCHANGED <<app, socket, circle, login>>
    BY <1>15 DEF TabsReport
  <2>2. delayed' > 0
    BY <1>15, MoreType DEF TabsReport
  <2>. QED BY <2>1, <2>2 DEF LinkInv, AskedInv, OnRouter, Heard, NeverStranded,
                             InSession, Hears, LoginWaits, Reconnecting
<1>16. CASE TabsSearch
  <2>1. UNCHANGED <<app, socket, circle, login>>
    BY <1>16 DEF TabsSearch
  <2>2. reach'.reports > 0 /\ reach'.block = "search"
    BY <1>16 DEF TabsSearch, TabsReported, Reported, Consumed, ReachType
  <2>. QED BY <2>1, <2>2 DEF LinkInv, AskedInv, OnRouter, Heard, NeverStranded,
                             InSession, Hears, LoginWaits, Reconnecting
<1>17. CASE RadioAnswers
  <2>1. app' \in AppType
    BY <1>17 DEF RadioAnswers, AppType, ReachType
  <2>. QED BY <1>17, <2>1, LinkGbFinash DEF RadioAnswers
<1>18. CASE RadioSilent
  <2>1. CASE app.routerIp # NoRouter
    <3>1. app' = app /\ GbFinash(app)
      BY <1>18, <2>1 DEF RadioSilent
    <3>. QED BY <3>1, LinkGbFinash
  <2>2. CASE app.routerIp = NoRouter
    <3>1. app' = app /\ socket' = socket
      BY <1>18, <2>2 DEF RadioSilent
    <3>. QED BY <2>2, <3>1, LinkNoRouter
  <2>. QED BY <2>1, <2>2
<1>19. ASSUME NEW r \in Routers, LookedUp(r)
       PROVE  LinkInv'
  <2>1. app' \in AppType
    BY <1>19 DEF LookedUp, AppType
  <2>. QED BY <1>19, <2>1, LinkGbFinash DEF LookedUp
<1>20. CASE DelayedConnect
  <2>1. CASE app.routerIp # NoRouter
    <3>1. /\ app' = app /\ socket'.link = "connecting" /\ socket'.asked = {}
          /\ socket'.url = app.routerIp
      BY <1>20, <2>1 DEF DelayedConnect, Connect
    <3>. QED BY <3>1 DEF LinkInv, AskedInv, OnRouter, NeverStranded
  <2>2. CASE app.routerIp = NoRouter
    <3>1. app' = app /\ socket' = socket
      BY <1>20, <2>2 DEF DelayedConnect
    <3>. QED BY <2>2, <3>1, LinkNoRouter
  <2>. QED BY <2>1, <2>2
<1>21. CASE OldReport
  <2>1. UNCHANGED <<app, socket, circle, login>>
    BY <1>21 DEF OldReport
  <2>2. reach'.block = "old"
    BY <1>21 DEF OldReport, Reported, ReachType
  <2>. QED BY <2>1, <2>2 DEF LinkInv, AskedInv, OnRouter, Heard, NeverStranded,
                             InSession, Hears, LoginWaits
<1>. QED BY <1>1, <1>2, <1>3, <1>4, <1>5, <1>6, <1>7, <1>8, <1>9, <1>10,
            <1>13, <1>14, <1>15, <1>16, <1>17, <1>18, <1>19, <1>20, <1>21
         DEF Next, Answers, Timeouts, ToxLogin, Fires, Reports
-----------------------------------------------------------------------------
(***************************************************************************)
(* A switch.  SwitchUnderWay is not inductive: a connection that fails     *)
(* ends the switch only if it is not taken for the one that was cancelled, *)
(* so the address of the socket must be that of the router looked for.     *)
(* Before there is one, the search itself must be under way, over the      *)
(* network or over Tox.                                                    *)
(***************************************************************************)
OverToxGoesOn ==
  ToxWaits \/ (circle.tox = "online" /\ (circle.toxSuccessCount > 1 \/ TimerWatches))

SwitchInv ==
  circle.isSwitchCircle =>
    /\ reach.block = "search"
    /\ app.routerIp # NoRouter => app.toxid = app.routerIp
    /\ app.routerIp = NoRouter => Searching \/ OverToxGoesOn
    /\ app.routerIp # NoRouter /\ app.toxid # circle.currentURL =>
         socket.link = "connecting" \/ TimerWatches

\* A search that has just begun.
LEMMA MonitorSearches ==
  ASSUME reach \in ReachType, NEW rid \in Routers, reach' = Monitor("search", rid)
  PROVE  reach'.block = "search" /\ Searching'
<1>1. More(reach.reports) > 0
  BY MoreType DEF ReachType
<1>. QED BY <1>1 DEF Monitor, ReachType, Searching

\* What touches neither the search nor the switch, and loses no connection.
LEMMA SwitchSame ==
  ASSUME SwitchInv, UNCHANGED <<reach, circle>>, circle.isSwitchCircle,
         app'.routerIp = app.routerIp, app'.toxid = app.toxid,
         socket.link = "connecting" => socket'.link = "connecting"
  PROVE  SwitchInv'
BY DEF SwitchInv, OverToxGoesOn, ToxWaits, Searching, TimerWatches

\* Whoever switches hears GB_FINASH, and connects or goes over Tox.
LEMMA SwitchGbFinash ==
  ASSUME GbFinash(app'), app' \in AppType, circle \in CircleType, login \in LoginType,
         circle'.isSwitchCircle, reach'.block = "search",
         app'.routerIp # NoRouter => app'.toxid = app'.routerIp
  PROVE  SwitchInv'
<1>1. circle.isSwitchCircle
  BY GbFinashFields
<1>2. app'.routerIp # NoRouter => socket'.link = "connecting"
  BY <1>1, GbFinashFields
<1>3. app'.routerIp = NoRouter => Searching'
  BY <1>1, GbFinashFields DEF Searching
<1>. QED BY <1>2, <1>3 DEF SwitchInv

LEMMA SwitchStep ==
  ASSUME TypeOK, FlagsInv, LinkInv, SwitchInv, Next, circle'.isSwitchCircle
  PROVE  SwitchInv'
<1>. USE Types DEF Typed
<1>0. TypeOK'
  BY NextType
<1>a. circle.isSwitchCircle => ~InSession(app)
  BY DEF FlagsInv, InSession, Hears
<1>1. ASSUME NEW r \in Routers, LogIn(r)
      PROVE  SwitchInv'
  BY <1>1, OffToxType DEF LogIn
<1>2. CASE LogOut
  <2>1. circle'.isSwitchCircle = circle.isSwitchCircle /\ ~circle.isSwitchCircle
    BY <1>2, OffToxType DEF LogOut, Leave
  <2>. QED BY <2>1
<1>3. CASE PushLogout
  <2>1. circle'.isSwitchCircle = circle.isSwitchCircle /\ ~app.isLogOut
    BY <1>3, OffToxType DEF PushLogout, Leave
  <2>. QED BY <2>1 DEF FlagsInv
<1>4. ASSUME NEW r \in Routers, SwitchCircle(r)
      PROVE  SwitchInv'
  <2>1. app'.routerIp = NoRouter
    BY <1>4 DEF SwitchCircle, AppType
  <2>2. reach' = Monitor("search", r)
    BY <1>4 DEF SwitchCircle
  <2>. QED BY <2>1, <2>2, MonitorSearches DEF SwitchInv
<1>5. CASE Connected
  <2>1. circle.isSwitchCircle /\ circle' = AsksFind(circle) /\ UNCHANGED <<app, reach>>
    BY <1>5 DEF Connected
  <2>2. More(circle.findTimers) > 0
    BY MoreType DEF CircleType
  <2>3. /\ circle'.findTimers > 0 /\ ~circle'.isFindRequest
        /\ circle'.tox = circle.tox
        /\ circle'.toxSuccessCount = circle.toxSuccessCount
    BY <2>1, <2>2 DEF AsksFind, CircleType
  <2>4. TimerWatches' /\ (Searching => Searching')
    BY <2>1, <2>3 DEF TimerWatches, Searching
  <2>. QED BY <2>1, <2>3, <2>4 DEF SwitchInv, OverToxGoesOn, ToxWaits
<1>6. CASE Disconnected
  <2>1. circle.isSwitchCircle /\ CancelledEnd
    BY <1>6, FailedFields DEF Disconnected
  <2>2. UNCHANGED <<app, circle>>
    BY <1>6, <2>1 DEF Disconnected
  <2>3. ~Watches(app)
    BY <1>a, <2>1 DEF Watches
  <2>4. reach' = reach
    BY <1>6, <2>1, <2>3 DEF Disconnected
  <2>5. app.toxid # circle.currentURL => app.routerIp = NoRouter
    BY <2>1 DEF LinkInv, OnRouter, Heard, SwitchInv, CancelledEnd
  <2>6. (Searching => Searching') /\ (OverToxGoesOn => OverToxGoesOn')
    BY <2>2, <2>4 DEF Searching, OverToxGoesOn, ToxWaits, TimerWatches
  <2>. QED BY <2>1, <2>2, <2>4, <2>5, <2>6 DEF SwitchInv
<1>7. CASE Found
  <2>1. circle.isSwitchCircle
    BY <1>7 DEF Found, CircleType
  <2>2. More(circle.loginTimers) > 0
    BY MoreType DEF CircleType
  <2>3. /\ circle'.loginTimers > 0 /\ ~circle'.isLoginRequest
        /\ circle'.tox = circle.tox
        /\ circle'.toxSuccessCount = circle.toxSuccessCount
    BY <1>7, <2>1, <2>2 DEF Found, CircleType
  <2>4. reach' = reach /\ app'.routerIp = app.routerIp /\ app'.toxid = socket.url
    BY <1>7, <2>1 DEF Found, AppType
  <2>5. app'.routerIp # NoRouter => app'.toxid = app'.routerIp
    BY <2>1, <2>4 DEF LinkInv, OnRouter, Heard
  <2>6. TimerWatches' /\ (Searching => Searching')
    BY <2>3, <2>4 DEF TimerWatches, Searching
  <2>. QED BY <2>1, <2>3, <2>4, <2>5, <2>6 DEF SwitchInv, OverToxGoesOn, ToxWaits
<1>8. CASE LoggedIn
  <2>. DEFINE done == circle.isSwitchCircle /\ (app.routerIp # NoRouter \/ OverTox)
  <2>1. circle.isSwitchCircle
    <3>1. ~circle.isSwitchCircle => circle' = circle \/ circle' = OffTox(circle)
      BY <1>8 DEF LoggedIn
    <3>. QED BY <3>1, OffToxType
  <2>2. circle' = [circle EXCEPT !.isLoginRequest = TRUE, !.isSwitchCircle = ~done]
    BY <1>8, <2>1 DEF LoggedIn
  <2>3. app.routerIp = NoRouter /\ ~OverTox /\ circle'.tox = circle.tox
    BY <2>1, <2>2 DEF CircleType
  <2>4. /\ reach'.block = "search" /\ reach'.reports = reach.reports
        /\ reach'.lookups = reach.lookups /\ app'.routerIp = app.routerIp
    BY <1>8, <2>1, ReplacedType DEF LoggedIn, AppType, SwitchInv
  <2>5. Searching
    BY <2>1, <2>3 DEF SwitchInv, OverTox, OverToxGoesOn, ToxWaits
  <2>6. Searching'
    BY <2>1, <2>3, <2>4, <2>5 DEF SwitchInv, Searching
  <2>. QED BY <2>3, <2>4, <2>6 DEF SwitchInv
<1>9. CASE LoginRefused
  <2>1. [circle EXCEPT !.isLoginRequest = TRUE] \in CircleType
    BY DEF CircleType
  <2>2. ~circle'.isSwitchCircle
    BY <1>9, <2>1, FailedFields DEF LoginRefused
  <2>. QED BY <2>2
<1>10. CASE Fires
  <2>1. /\ UNCHANGED <<reach, app>>
        /\ circle'.isSwitchCircle = circle.isSwitchCircle
        /\ circle'.currentURL = circle.currentURL /\ circle'.tox = circle.tox
        /\ circle'.toxSuccessCount = circle.toxSuccessCount
        /\ TimerWatches => TimerWatches'
        /\ socket'.link = socket.link
    BY <1>10, FiresFields
  <2>2. (Searching => Searching') /\ (OverToxGoesOn => OverToxGoesOn')
    BY <2>1 DEF Searching, OverToxGoesOn, ToxWaits
  <2>. QED BY <2>1, <2>2 DEF SwitchInv
<1>11. CASE ToxLoggedIn \/ ToxAdds
  <2>1. /\ UNCHANGED <<app, socket, reach>>
        /\ circle'.isSwitchCircle = circle.isSwitchCircle
        /\ circle'.currentURL = circle.currentURL
        /\ TimerWatches => TimerWatches'
        /\ OverToxGoesOn' \/ app.routerIp # NoRouter
    BY <1>11, ToxFields DEF OverToxGoesOn, ToxWaits
  <2>. QED BY <2>1 DEF SwitchInv
<1>13. CASE ShowRoot
  <2>1. circle'.isSwitchCircle = circle.isSwitchCircle /\ roots # <<>>
    BY <1>13, OffToxType DEF ShowRoot
  <2>. QED BY <2>1 DEF FlagsInv
<1>14. CASE NetworkChanges
  <2>1. /\ reach'.reports = reach.reports + 1 /\ reach'.block = reach.block
        /\ reach'.lookups = reach.lookups /\ reach.reports \in Nat
    BY <1>14 DEF NetworkChanges, ReachType, Count
  <2>2. UNCHANGED <<app, socket, circle>>
    BY <1>14 DEF NetworkChanges
  <2>3. (Searching => Searching') /\ (TimerWatches => TimerWatches')
    BY <2>1, <2>2 DEF Searching, TimerWatches
  <2>. QED BY <2>1, <2>2, <2>3 DEF SwitchInv, OverToxGoesOn, ToxWaits
<1>15. CASE TabsReport \/ TabsSearch \/ OldReport
  <2>1. circle' = circle /\ reach.block \in {"tabs", "old"}
    BY <1>15 DEF TabsReport, TabsSearch, OldReport, TabsReported, Reported
  <2>. QED BY <2>1 DEF SwitchInv
<1>16. CASE RadioAnswers
  <2>1. /\ reach'.block = "search" /\ GbFinash(app')
        /\ app'.routerIp = reach.rid /\ app'.toxid = reach.rid
    BY <1>16 DEF RadioAnswers, Reported, Consumed, ReachType, AppType
  <2>. QED BY <1>0, <2>1, SwitchGbFinash
<1>17. CASE RadioSilent
  <2>1. CASE app.routerIp # NoRouter
    <3>1. /\ reach'.block = "search" /\ GbFinash(app') /\ app' = app
      BY <1>17, <2>1 DEF RadioSilent, Reported, Consumed, ReachType
    <3>2. circle.isSwitchCircle
      BY <3>1, GbFinashFields
    <3>. QED BY <3>1, <3>2, SwitchGbFinash DEF SwitchInv
  <2>2. CASE app.routerIp = NoRouter
    <3>1. UNCHANGED <<app, circle>>
      BY <1>17, <2>2 DEF RadioSilent
    <3>2. reach'.block = "search" /\ reach'.lookups[app.toxid] > 0
      <4>1. reach' = [Consumed EXCEPT !.lookups[app.toxid] = More(@)]
        BY <1>17, <2>2 DEF RadioSilent
      <4>2. app.toxid \in Routers /\ reach.lookups[app.toxid] \in Count
        BY DEF AppType, ReachType
      <4>3. More(reach.lookups[app.toxid]) > 0
        BY <4>2, MoreType
      <4>4. reach.block = "search"
        BY <1>17 DEF RadioSilent, Reported
      <4>. QED BY <4>1, <4>2, <4>3, <4>4 DEF Consumed, ReachType
    <3>3. Searching'
      BY <3>1, <3>2 DEF Searching, AppType
    <3>. QED BY <2>2, <3>1, <3>2, <3>3 DEF SwitchInv
  <2>. QED BY <2>1, <2>2
<1>18. ASSUME NEW r \in Routers, LookedUp(r)
       PROVE  SwitchInv'
  <2>1. GbFinash(app') /\ reach'.block = reach.block
    BY <1>18 DEF LookedUp, ReachType
  <2>2. circle.isSwitchCircle
    BY <1>0, <2>1, GbFinashFields
  <2>3. app'.routerIp # NoRouter => app'.toxid = app'.routerIp
    BY <1>18, <2>2 DEF LookedUp, SwitchInv, AppType
  <2>. QED BY <1>0, <2>1, <2>2, <2>3, SwitchGbFinash DEF SwitchInv
<1>19. CASE DelayedConnect
  <2>1. UNCHANGED <<app, reach, circle>>
    BY <1>19 DEF DelayedConnect
  <2>2. socket.link = "connecting" => socket'.link = "connecting"
    BY <1>19 DEF DelayedConnect, Connect
  <2>. QED BY <2>1, <2>2, SwitchSame
<1>. QED BY <1>1, <1>2, <1>3, <1>4, <1>5, <1>6, <1>7, <1>8, <1>9, <1>10, <1>11,
            <1>13, <1>14, <1>15, <1>16, <1>17, <1>18, <1>19
         DEF Next, Answers, Timeouts, ToxLogin, Fires, Reports
-----------------------------------------------------------------------------
(***************************************************************************)
(* The theorems, for a router that does not log the user out between the   *)
(* log-in of a switch and its tab bar.                                     *)
(***************************************************************************)
IInv == TypeOK /\ FlagsInv /\ LinkInv /\ SwitchInv

LEMMA InitInv == Init => IInv
<1>. SUFFICES ASSUME Init PROVE IInv
  OBVIOUS
<1>1. FlagsInv
  BY DEF Init, FlagsInv, OnlyFirst, TabsDue
<1>2. LinkInv
  BY DEF Init, LinkInv, AskedInv, OnRouter, NeverStranded
<1>3. SwitchInv
  BY DEF Init, SwitchInv
<1>. QED BY <1>1, <1>2, <1>3, InitType DEF IInv

LEMMA NextInv ==
  ASSUME ~PushInSwitch
  PROVE  IInv /\ [Next]_vars => IInv'
<1>. SUFFICES ASSUME IInv, [Next]_vars
              PROVE  IInv'
  OBVIOUS
<1>1. TypeOK'
  BY NextType DEF IInv
<1>2. CASE UNCHANGED vars
  <2>1. FlagsInv'
    BY <1>2 DEF IInv, vars, FlagsInv, OnlyFirst, TabsDue, InSession, Hears
  <2>2. LinkInv'
    BY <1>2 DEF IInv, vars, LinkInv, AskedInv, OnRouter, Heard, NeverStranded,
                HasSession, InSession, Hears, LoginWaits, Reconnecting
  <2>3. SwitchInv'
    BY <1>2 DEF IInv, vars, SwitchInv, OverToxGoesOn, ToxWaits, Searching, TimerWatches
  <2>. QED BY <1>1, <2>1, <2>2, <2>3 DEF IInv
<1>3. CASE Next
  BY <1>1, <1>3, FlagsStep, LinkStep, SwitchStep DEF IInv, SwitchInv
<1>. QED BY <1>2, <1>3

LEMMA InvMeaning == IInv => NeverStranded /\ SessionOnItsRouter /\ SwitchUnderWay
BY DEF IInv, LinkInv, OnRouter, Heard, SessionOnItsRouter, HasSession, SwitchInv,
       OverToxGoesOn, ToxHangs, SwitchUnderWay

\* A session that lost its connection is never left alone, whatever log-outs,
\* log-ins, switches, reports and timers went before, unless it lost it before
\* its tab bar replaced another (reach.block = "old"): a report of the other one
\* may then reach nobody.
THEOREM StrandedNever == ASSUME ~PushInSwitch PROVE Spec => []NeverStranded
BY InitInv, NextInv, InvMeaning, PTL DEF Spec

\* A session is shown only on a connection to the router the app has as its own.
THEOREM OnItsRouter == ASSUME ~PushInSwitch PROVE Spec => []SessionOnItsRouter
BY InitInv, NextInv, InvMeaning, PTL DEF Spec

\* A switch is never left with nothing that ends it: it searches, it connects, it
\* can be cancelled, or a timer waits for the answer, whatever earlier switches and
\* sessions left behind.  The exceptions are a search set back to the old router
\* and a router over Tox that is not asked (ToxHangs).
THEOREM SwitchesGoOn == ASSUME ~PushInSwitch PROVE Spec => []SwitchUnderWay
BY InitInv, NextInv, InvMeaning, PTL DEF Spec
=============================================================================
