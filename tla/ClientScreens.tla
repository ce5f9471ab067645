---------------------------- MODULE ClientScreens ----------------------------
(***************************************************************************)
(* The client's screens: the stack of states of the game state machine,     *)
(* the requests to change, push and pop it, which the frame loop serves and *)
(* both threads make, and what the client believes of its lobby.  The       *)
(* network thread handles packets while a frame is under way.  The server   *)
(* is external: it answers in order, over a network that loses nothing.     *)
(***************************************************************************)
EXTENDS Naturals, SequencesExt

CONSTANTS
  Pages,      \* the screens that only a Back button leaves
  MaxPackets, \* bound: packets in flight in each direction
  MaxClicks,  \* bound: packets the user sends, those of the connection screen apart
  MaxDepth,   \* bound: screens on the stack when the user opens another
  None        \* no request

InLobbyScreens == {"hosting", "guest", "game", "pause", "levelComplete"}
Screens == {"splash", "connection", "menu", "login", "register", "chat", "results", "forceLeave"}
             \cup InLobbyScreens \cup Pages

ASSUME ScreensConstants ==
  /\ Pages \subseteq {"settings", "profile", "howToPlay", "credits", "leaderboard", "editor"}
  /\ {MaxPackets, MaxClicks, MaxDepth} \subseteq Nat
  /\ None \notin Screens

VARIABLES
  stack,            \* _states, the top last; of a menu also what it last saw of the lobby
  change, push,     \* _pendingChangeState, _pendingPushState
  pop,              \* _pendingPopState
  frame,            \* where the main thread is in AGameStateMachine::update
  connected,        \* _isConnected
  wasConnected,     \* _wasConnected of the connection screen
  named,            \* _name is not empty
  believes,         \* _isConnectedToLobby, _isLobbyMaster, _lobbyCode, _ready
  justLeft,         \* less than a second since _lastLeaveLobbyTime
  shouldDisconnect, \* _shouldDisconnect
  expecting,        \* _expectingLoginResponse, _expectingRegisterResponse
  up, down,         \* packets to and from the server
  lobby,            \* external: the state of the lobby on the server
  member,           \* external: the client is in it
  crossed,          \* history: two requests for a screen crossed, or two questions about a lobby,
                    \* or a pop closed another screen than the one it was meant for
  clicks            \* the packets the user sent, at most MaxClicks

requests == <<change, push, pop>>
account  == <<connected, named, expecting>>
server   == <<lobby, member>>
vars == <<stack, requests, frame, account, wasConnected, believes, justLeft, shouldDisconnect,
          up, down, server, crossed, clicks>>

-----------------------------------------------------------------------------
(* Screens and packets.                                                     *)

Show(s)    == [screen |-> s, sawLobby |-> FALSE, sawMaster |-> FALSE]
On(s)      == stack # <<>> /\ Last(stack).screen = s
Top        == IF stack = <<>> THEN None ELSE Last(stack).screen
Closable   == {"login", "register", "chat", "pause"} \cup Pages

\* A mutant: leaving forgets the lobby and not that its game began.
OutOfLobbyButReady ==
  [in |-> FALSE, master |-> FALSE, code |-> FALSE, ready |-> believes.ready]
OutOfLobby == [in |-> FALSE, master |-> FALSE, code |-> FALSE, ready |-> FALSE]

\* A click that sends p.
Send(p) ==
  /\ Len(up) < MaxPackets /\ up' = Append(up, p)
  /\ clicks < MaxClicks /\ clicks' = clicks + 1

Quiet == UNCHANGED <<up, clicks>>

\* The screens of S the user may open.
Open(S) == IF Len(stack) < MaxDepth THEN S ELSE {}

\* There is one slot for the change of screen; a request made while the last one is being served
\* is forgotten with it.
Request(s) == change' = s /\ crossed' = (crossed \/ change # None \/ frame = "forget")

NoRequest == UNCHANGED <<change, crossed>>

\* A question about a lobby, or its answer, is under way.
Asking == {"request", "connect", "leave", "code", "joined", "ackLeave"}
            \cap (ToSet(up) \cup ToSet(down)) # {}

\* A mutant: the master's screen does not join the lobby it opened.
EnterOnWithoutJoining(below, s) ==
  /\ stack' = Append(below, IF s = "menu"
                            THEN [Show(s) EXCEPT !.sawLobby = believes.in,
                                                 !.sawMaster = believes.master]
                            ELSE Show(s))
  /\ IF s = "menu"
     THEN believes' = [OutOfLobby EXCEPT !.code = believes.code] /\ justLeft' = TRUE
     ELSE UNCHANGED <<believes, justLeft>>
  /\ UNCHANGED up

\* What enter() of the screen s does, on the stack below it.
EnterOn(below, s) ==
  /\ stack' = Append(below, IF s = "menu"
                            THEN [Show(s) EXCEPT !.sawLobby = believes.in,
                                                 !.sawMaster = believes.master]
                            ELSE Show(s))
  /\ IF s = "menu"
     THEN believes' = [OutOfLobby EXCEPT !.code = believes.code] /\ justLeft' = TRUE
     ELSE UNCHANGED <<believes, justLeft>>
  /\ IF s = "hosting" /\ believes.code
     THEN up' = Append(up, "connect")
     ELSE UNCHANGED up

Init ==
  /\ stack = <<Show("splash")>>
  /\ change = None /\ push = None /\ pop = FALSE
  /\ frame = "update"
  /\ connected = FALSE /\ wasConnected = FALSE /\ named \in BOOLEAN /\ expecting = {}
  /\ believes = [in |-> FALSE, master |-> FALSE, code |-> FALSE, ready |-> FALSE]
  /\ justLeft = FALSE /\ shouldDisconnect = FALSE
  /\ up = <<>> /\ down = <<>>
  /\ lobby = "none" /\ member = FALSE
  /\ crossed = FALSE /\ clicks = 0

-----------------------------------------------------------------------------
(* A frame: update() of the screen on top, with at most one click of the    *)
(* user, then the requests.                                                 *)

Updating(s) == frame = "update" /\ frame' = "change" /\ On(s)

\* The title animation ends.
SplashUpdate ==
  /\ Updating("splash")
  /\ Request("connection")
  /\ UNCHANGED <<stack, push, pop, account, wasConnected, believes, justLeft, shouldDisconnect,
                 up, down, server, clicks>>

ConnectionUpdate ==
  /\ Updating("connection")
  /\ \/ Len(up) < MaxPackets /\ up' = Append(up, "connection") /\ UNCHANGED push
     \/ UNCHANGED up /\ push' \in {push} \cup Open(Pages \cap {"editor"})
  /\ wasConnected' = connected
  /\ UNCHANGED <<clicks, stack, change, pop, account, believes, justLeft, shouldDisconnect, down,
                 server, crossed>>
  /\ ~ connected \/ wasConnected

\* The first frame after ACCEPT.
ConnectionSucceeds ==
  /\ Updating("connection")
  /\ connected /\ ~ wasConnected
  /\ wasConnected' = TRUE /\ push' = "menu"
  /\ UNCHANGED <<stack, change, pop, account, believes, justLeft, shouldDisconnect, up, down,
                 server,
                 crossed, clicks>>

\* The clicks of the main menu; the lobby's buttons and the chat need a name.
AskForCode ==
  /\ named /\ lobby = "none" /\ Send("request")
  /\ UNCHANGED <<push, expecting, named, believes>>

JoinByCode ==
  /\ named /\ Send("connect")
  /\ believes' = [believes EXCEPT !.code = TRUE]
  /\ UNCHANGED <<push, expecting, named>>

OpenScreen ==
  /\ push' \in Open({"login", "register"} \cup (Pages \ {"editor", "credits", "leaderboard"})
                     \cup (IF named THEN {"chat"} ELSE {}))
  /\ Quiet /\ UNCHANGED <<expecting, named, believes>>

\* The credits ask for the leaderboard too; an answer to a login is expected with it.
OpenLeaderboard ==
  /\ connected /\ Send("leaderboard")
  /\ push' \in Open(Pages \cap {"credits", "leaderboard"})
  /\ expecting' = expecting \cup {"login"}
  /\ UNCHANGED <<named, believes>>

LogOut ==
  /\ Send("logout")
  /\ expecting' = expecting \cup {"login"}
  /\ named' = FALSE /\ believes' = [believes EXCEPT !.code = FALSE]
  /\ UNCHANGED push

MenuClick ==
  \/ Quiet /\ UNCHANGED <<push, expecting, named, believes>>
  \/ AskForCode \/ JoinByCode \/ OpenScreen \/ OpenLeaderboard \/ LogOut

\* The screen checkLobbyConnectionTransition asks for.
LobbyScreen(seen) ==
  IF justLeft THEN None
  ELSE IF ~ seen.sawMaster /\ believes.master /\ believes'.code THEN "hosting"
  ELSE IF ~ seen.sawLobby /\ believes.in
       THEN IF believes.master THEN "hosting" ELSE "guest"
  ELSE None

MenuUpdate ==
  /\ Updating("menu")
  /\ MenuClick
  /\ LET next == LobbyScreen(Last(stack)) IN
       /\ change' = IF next = None THEN change ELSE next
       /\ crossed' = (\/ crossed
                      \/ next # None /\ change # None
                      \/ /\ Asking \/ believes.in
                         /\ up' # up /\ Last(up') \in {"request", "connect", "logout"})
       /\ stack' = IF ~ justLeft /\ ~ Last(stack).sawMaster /\ believes.master /\ believes'.code
                   THEN stack
                   ELSE [stack EXCEPT ![Len(stack)].sawLobby = believes.in,
                                      ![Len(stack)].sawMaster = believes.master]
  /\ UNCHANGED <<pop, connected, wasConnected, justLeft, shouldDisconnect, down, server>>

\* A second since the menu was entered.
SecondPasses ==
  /\ justLeft /\ justLeft' = FALSE
  /\ UNCHANGED <<stack, requests, frame, account, wasConnected, believes, shouldDisconnect, up,
                 down,
                 server, crossed, clicks>>

\* Login and Register: submitting, or Back.
AccountUpdate(s) ==
  /\ Updating(s) /\ s \in {"login", "register"}
  /\ \/ Quiet /\ UNCHANGED <<pop, expecting>>
     \/ Quiet /\ pop' = TRUE /\ UNCHANGED expecting
     \/ Send(s) /\ expecting' = expecting \cup {s} /\ UNCHANGED pop
  /\ UNCHANGED <<stack, change, push, connected, named, wasConnected, believes, justLeft,
                 shouldDisconnect, down, server, crossed>>

PageUpdate ==
  /\ \E s \in Pages \cup {"chat"} : Updating(s)
  /\ pop' \in {pop, TRUE}
  /\ UNCHANGED <<stack, change, push, account, wasConnected, believes, justLeft, shouldDisconnect,
                 up, down, server, crossed, clicks>>

\* Of the screens of a lobby, these look whether the server let the client go ...
GoHome ==
  IF shouldDisconnect
  THEN Request("menu") /\ believes' = OutOfLobby /\ shouldDisconnect' = FALSE
  ELSE NoRequest /\ UNCHANGED <<believes, shouldDisconnect>>

\* ... and can ask it to.
Leave == connected /\ Send("leave") /\ UNCHANGED <<push, pop>>

StartGame == connected /\ Send("start") /\ UNCHANGED <<push, pop>>

OpenOver(S) == Quiet /\ push' \in Open(S) /\ UNCHANGED pop

LobbyUpdate(s) ==
  /\ Updating(s) /\ s \in {"hosting", "guest"}
  /\ GoHome
  /\ \/ Quiet /\ UNCHANGED <<push, pop>>
     \/ Leave \/ OpenOver({"chat"})
     \/ s = "hosting" /\ StartGame
  /\ UNCHANGED <<stack, account, wasConnected, justLeft, down, server>>

PauseUpdate ==
  /\ Updating("pause")
  /\ GoHome
  /\ \/ Quiet /\ UNCHANGED push /\ pop' \in {pop, TRUE}
     \/ Leave \/ OpenOver(Pages \cap {"settings"})
  /\ UNCHANGED <<stack, account, wasConnected, justLeft, down, server>>

ResultsUpdate ==
  /\ Updating("results")
  /\ GoHome
  /\ \/ Quiet /\ UNCHANGED <<push, pop>>
     \/ Leave
  /\ UNCHANGED <<stack, account, wasConnected, justLeft, down, server>>

\* Playing: the menu key pauses.
GameUpdate ==
  /\ Updating("game")
  /\ push' \in {push} \cup Open({"pause"})
  /\ UNCHANGED <<stack, change, pop, account, wasConnected, believes, justLeft, shouldDisconnect,
                 up, down, server, crossed, clicks>>

\* Between two levels there is nothing to press.
LevelCompleteUpdate ==
  /\ Updating("levelComplete")
  /\ UNCHANGED <<stack, requests, account, wasConnected, believes, justLeft, shouldDisconnect, up,
                 down, server, crossed, clicks>>

ForceLeaveUpdate ==
  /\ Updating("forceLeave")
  /\ \/ Request("menu") /\ believes' = OutOfLobby /\ shouldDisconnect' = FALSE
     \/ NoRequest /\ UNCHANGED <<believes, shouldDisconnect>>
  /\ UNCHANGED <<stack, push, pop, account, wasConnected, justLeft, up, down, server, clicks>>

\* changeState
ChangeState ==
  /\ frame = "change" /\ frame' = "forget"
  /\ IF change = None
     THEN UNCHANGED <<stack, believes, justLeft, up>>
     ELSE EnterOn(IF stack = <<>> THEN stack ELSE Front(stack), change)
  /\ crossed' = (crossed \/ (change \in {"menu", "forceLeave"} /\ Asking))
  /\ UNCHANGED <<requests, account, wasConnected, shouldDisconnect, down, server, clicks>>

\* The request is forgotten, whichever it is by now; then pushState.
PushState ==
  /\ frame = "forget" /\ frame' = "pop"
  /\ change' = None /\ push' = None
  /\ crossed' = (crossed \/ (change # None /\ push # None))
  /\ IF push = None
     THEN UNCHANGED <<stack, believes, justLeft, up>>
     ELSE EnterOn(stack, push)
  /\ UNCHANGED <<pop, account, wasConnected, shouldDisconnect, down, server, clicks>>

\* popState; the screen below goes on where it was.
PopState ==
  /\ frame = "pop" /\ frame' = "update"
  /\ stack' = IF pop /\ stack # <<>> THEN Front(stack) ELSE stack
  /\ pop' = FALSE
  /\ crossed' = (crossed \/ (pop /\ Top \notin Closable))
  /\ UNCHANGED <<change, push, account, wasConnected, believes, justLeft, shouldDisconnect, up,
                 down,
                 server, clicks>>

-----------------------------------------------------------------------------
(* The network thread: one packet at a time, also in the middle of a frame. *)

Receive(p) == down # <<>> /\ Head(down) = p /\ down' = Tail(down)

Accept ==
  /\ Receive("accept") /\ connected' = TRUE
  /\ UNCHANGED <<stack, requests, frame, named, expecting, wasConnected, believes, justLeft,
                 shouldDisconnect, up, server, crossed, clicks>>

HandleCode ==
  /\ Receive("code")
  /\ believes' = [believes EXCEPT !.in = TRUE, !.master = TRUE, !.code = TRUE]
  /\ UNCHANGED <<stack, requests, frame, account, wasConnected, justLeft, shouldDisconnect, up,
                 server,
                 crossed, clicks>>

HandleLobbyConnectValue ==
  /\ \/ Receive("joined") /\ believes' = [believes EXCEPT !.in = TRUE]
     \/ Receive("refused") /\ believes' = [OutOfLobby EXCEPT !.ready = believes.ready]
  /\ UNCHANGED <<stack, requests, frame, account, wasConnected, justLeft, shouldDisconnect, up,
                 server,
                 crossed, clicks>>

\* Only the first one counts.
HandleCanStart ==
  /\ Receive("canStart")
  /\ IF believes.ready
     THEN NoRequest /\ UNCHANGED believes
     ELSE Request("game") /\ believes' = [believes EXCEPT !.ready = TRUE]
  /\ UNCHANGED <<stack, push, pop, frame, account, wasConnected, justLeft, shouldDisconnect, up,
                 server, clicks>>

\* LEVEL_COMPLETE, NEXT_LEVEL and END_GAME only ask for a screen.
HandleGameScreen ==
  /\ \/ Receive("levelComplete") /\ Request("levelComplete")
     \/ Receive("nextLevel") /\ Request("game")
     \/ Receive("endGame") /\ Request("results")
  /\ UNCHANGED <<stack, push, pop, frame, account, wasConnected, believes, justLeft,
                 shouldDisconnect,
                 up, server, clicks>>

HandleForceLeave ==
  /\ Receive("forceLeave")
  /\ Request("forceLeave") /\ believes' = OutOfLobby
  /\ UNCHANGED <<stack, push, pop, frame, account, wasConnected, justLeft, shouldDisconnect, up,
                 server, clicks>>

\* A mutant: the acknowledgement counts only while a screen is asked for.
IgnoreAckLeaveLobby ==
  /\ Receive("ackLeave")
  /\ shouldDisconnect' = (change # None)
  /\ UNCHANGED <<stack, requests, frame, account, wasConnected, believes, justLeft, up, server,
                 crossed, clicks>>

HandleAckLeaveLobby ==
  /\ Receive("ackLeave")
  /\ shouldDisconnect' = TRUE
  /\ UNCHANGED <<stack, requests, frame, account, wasConnected, believes, justLeft, up, server,
                 crossed, clicks>>

\* CONNECT_USER closes the screen on top if an answer to a login or registration is due.
HandleConnectUser ==
  /\ Receive("connectUser")
  /\ named' = TRUE /\ connected' = TRUE
  /\ pop' = (pop \/ expecting # {})
  /\ expecting' = IF "login" \in expecting THEN expecting \ {"login"} ELSE {}
  /\ UNCHANGED <<stack, change, push, frame, wasConnected, believes, justLeft, shouldDisconnect, up,
                 server, crossed, clicks>>

HandleRegisterFail ==
  /\ Receive("registerFail")
  /\ expecting' = expecting \ {"register"}
  /\ UNCHANGED <<stack, requests, frame, connected, named, wasConnected, believes, justLeft,
                 shouldDisconnect, up, server, crossed, clicks>>

-----------------------------------------------------------------------------
(* The server, as far as this client can tell: one lobby, which this client *)
(* or another opens and any master starts.                                  *)

Answers(p) ==
  CASE p = "connection"  -> {<<"accept">>}
    [] p = "request"     -> {<<"code">>}
    [] p = "connect"     -> {<<IF lobby = "none" THEN "refused" ELSE "joined">>}
    [] p = "start"       -> {IF lobby = "waiting" /\ member THEN <<"canStart">> ELSE <<>>}
    [] p = "leave"       -> {IF member THEN <<"ackLeave">> ELSE <<>>}
    [] p = "login"       -> {<<"connectUser">>, <<>>}
    [] p = "register"    -> {<<"connectUser">>, <<"registerFail">>, <<>>}
    [] OTHER             -> {<<>>}

Serve ==
  /\ up # <<>> /\ Len(down) < MaxPackets
  /\ up' = Tail(up)
  /\ \E a \in Answers(Head(up)) : down' = down \o a
  /\ CASE Head(up) = "request" /\ lobby = "none" -> lobby' = "waiting" /\ member' = FALSE
       [] Head(up) = "connect"  -> member' = (member \/ lobby # "none") /\ UNCHANGED lobby
       [] Head(up) = "start" /\ lobby = "waiting" -> lobby' = "playing" /\ UNCHANGED member
       [] Head(up) = "leave"    -> member' = FALSE /\ lobby' \in {lobby, IF member THEN "none" ELSE lobby}
       [] OTHER -> UNCHANGED server
  /\ UNCHANGED <<stack, requests, frame, account, wasConnected, believes, justLeft,
                 shouldDisconnect,
                 crossed, clicks>>

LobbySteps == {<<"none", "waiting", <<>>>>, <<"waiting", "playing", <<"canStart">>>>,
               <<"playing", "between", <<"levelComplete">>>>, <<"between", "playing", <<"nextLevel">>>>,
               <<"playing", "over", <<"endGame">>>>}

\* The others and the game; what a lobby sends goes to its members.
LobbyMoves ==
  /\ Len(down) < MaxPackets
  /\ \E step \in LobbySteps :
       /\ step[1] = lobby /\ lobby' = step[2]
       /\ down' = IF member THEN down \o step[3] ELSE down
  /\ UNCHANGED <<stack, requests, frame, account, wasConnected, believes, justLeft,
                 shouldDisconnect,
                 up, member, crossed, clicks>>

\* Kicked, or the lobby closed by the administrator.
ForceOut ==
  /\ member /\ Len(down) < MaxPackets
  /\ down' = Append(down, "forceLeave")
  /\ member' = FALSE /\ lobby' \in {lobby, "none"}
  /\ UNCHANGED <<stack, requests, frame, account, wasConnected, believes, justLeft,
                 shouldDisconnect,
                 up, crossed, clicks>>

-----------------------------------------------------------------------------

Update == \/ SplashUpdate \/ ConnectionUpdate \/ ConnectionSucceeds \/ MenuUpdate \/ PageUpdate
          \/ GameUpdate \/ LevelCompleteUpdate \/ ForceLeaveUpdate
          \/ \E s \in {"login", "register"} : AccountUpdate(s)
          \/ \E s \in {"hosting", "guest"} : LobbyUpdate(s)
          \/ PauseUpdate \/ ResultsUpdate

\* The client is followed until requests cross.
MainThread == ~ crossed /\ (Update \/ ChangeState \/ PushState \/ PopState)

NetworkThread ==
  /\ ~ crossed
  /\ \/ Accept \/ HandleCode \/ HandleLobbyConnectValue \/ HandleCanStart \/ HandleGameScreen
     \/ HandleForceLeave \/ HandleAckLeaveLobby \/ HandleConnectUser \/ HandleRegisterFail

Server == ~ crossed /\ (Serve \/ LobbyMoves \/ ForceOut)

Next == MainThread \/ NetworkThread \/ Server \/ (~ crossed /\ SecondPasses)

Spec == Init /\ [][Next]_vars

FairSpec == Spec /\ WF_vars(MainThread) /\ WF_vars(NetworkThread)

-----------------------------------------------------------------------------
(* Properties.                                                              *)

\* Nothing is under way between the client and the server, nor between its threads.
Settled ==
  /\ up = <<>> /\ down = <<>> /\ change = None /\ push = None /\ ~ pop /\ frame = "update"
  /\ ~ shouldDisconnect

\* A client that shows a screen of a lobby and believes to be in it is one the server counts among
\* its members, once all packets are read, unless requests crossed: the master's own screen has
\* joined the lobby it opened, and no answer, eviction or leave is forgotten on the way.
LobbyScreensAreMembers ==
  Settled /\ Top \in InLobbyScreens /\ believes.in /\ ~ crossed => member

\* A CAN_START that arrives is the first of its game: _ready, which makes the client ignore it, is
\* never left over from a game before, unless requests crossed.
StartsAreHeard == ~ crossed /\ down # <<>> /\ Head(down) = "canStart" => ~ believes.ready

\* The server's answer to Leave brings the client from the results back to the main menu, unless
\* requests cross.
ResultsLeadHome ==
  (On("results") /\ ~ crossed /\ \E i \in DOMAIN down : down[i] = "ackLeave")
    ~> (On("menu") \/ crossed)

=============================================================================
