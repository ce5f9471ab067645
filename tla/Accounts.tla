------------------------------- MODULE Accounts -------------------------------
(***************************************************************************)
(* The accounts, bans and scores of a server: users.json, which the main    *)
(* thread and the thread of the HTTP commands read, change and write back   *)
(* without a lock, and scores.json, to which the game thread of every lobby *)
(* adds when its game ends.  A write empties the file first and fills it    *)
(* when it is closed; a file that cannot be parsed counts as empty.          *)
(*                                                                         *)
(* The clients are connected throughout and keep their ids: what a          *)
(* disconnection does to ids and rosters is ServerSession's.  Commands are    *)
(* followed one at a time, on one thread of the HTTP server's pool.           *)
(***************************************************************************)
EXTENDS Integers, FiniteSets, Functions

CONSTANTS
  Clients,     \* client ids
  Names,       \* user names
  Passwords,
  Initial,     \* users.json as the server first finds it
  Tries,       \* the clients and the names their players may give
  Lobbies,     \* lobby codes, each made once
  MaxGames,    \* starts of a game that are followed
  MaxCommands, \* bans and unbans that are followed
  Torn,        \* the text of a file that was emptied and not filled again
  None

\* What the files and the lists of clients hold: values for some of the keys.
Holds(text, Keys, Values) == \E known \in SUBSET Keys : text \in [known -> Values]
AreAccounts(text) ==
  Holds(text, Names, [password : Passwords \cup {None}, banned : BOOLEAN, games : Nat])
AreScores(text) == Holds(text, Names \cup {None}, Nat)

ASSUME AccountConstants ==
  /\ IsFiniteSet(Clients) /\ IsFiniteSet(Names)
  /\ Tries \subseteq Clients \X Names
  /\ {MaxGames, MaxCommands} \subseteq Nat
  /\ None \notin Names \cup Passwords \cup Lobbies
  /\ AreAccounts(Initial)
  /\ ~AreAccounts(Torn) /\ ~AreScores(Torn)

VARIABLES
  users,    \* users.json: the accounts by name, or Torn
  scores,   \* scores.json: how many scores each name has, or Torn
  name,     \* the name in each client's tuple of _clients, or None
  route,    \* _clientToLobby
  lobby,    \* each lobby: its state, _lobbyThreads' roster, its own _clients
  job,      \* what each thread is in the middle of
  commands, \* bans and unbans so far
  starts,   \* games started so far
  whole,    \* history: the last complete text of each file
  damaged   \* history: two threads used the file at once, or it was left empty

vars == <<users, scores, name, route, lobby, job, commands, starts, whole, damaged>>

Threads == {"main", "http"} \cup Lobbies
Nobody == << >>
Idle == [doing |-> "nothing", file |-> "none"]
Account(password) == [password |-> password, banned |-> FALSE, games |-> 0]

Init ==
  /\ users = Initial /\ scores = Nobody
  /\ name = [c \in Clients |-> None]
  /\ route = [c \in Clients |-> None]
  /\ lobby = [l \in Lobbies |-> [state |-> "none", roster |-> Nobody, members |-> Nobody]]
  /\ job = [t \in Threads |-> Idle]
  /\ commands = 0 /\ starts = 0
  /\ whole = [users |-> users, scores |-> scores]
  /\ damaged = [users |-> FALSE, scores |-> FALSE]

-----------------------------------------------------------------------------
(* Files.                                                                   *)

Parsed(text) == IF text = Torn THEN Nobody ELSE text
With(f, k, v) == [x \in DOMAIN f \cup {k} |-> IF x = k THEN v ELSE f[x]]
Without(f, k) == Restrict(f, DOMAIN f \ {k})

Busy(file) == {t \in Threads : job[t].file = file}
Uses(file) == damaged' = [damaged EXCEPT ![file] = @ \/ Busy(file) # {}]

\* A thread has read the file and holds the text it will write back.
Reads(t, file, task, text) ==
  /\ Uses(file)
  /\ job' = [job EXCEPT ![t] = [doing |-> task[1], with |-> task[2], file |-> file,
                                step |-> "read", text |-> text]]
  /\ UNCHANGED <<users, scores, whole>>

\* A thread has looked a name up and will act on what it found; somebody without
\* a name is not looked up.
LooksUp(t, n, task) ==
  /\ IF n = None THEN UNCHANGED damaged ELSE Uses("users")
  /\ job' = [job EXCEPT ![t] = [doing |-> task[1], with |-> task[2], step |-> "looked",
                                file |-> IF n = None THEN "none" ELSE "users"]]
  /\ UNCHANGED <<users, scores, whole>>

\* std::ofstream's constructor.
Opens(t) ==
  /\ job[t].file # "none" /\ job[t].step = "read"
  /\ job' = [job EXCEPT ![t].step = "open"]
  /\ users' = IF job[t].file = "users" THEN Torn ELSE users
  /\ scores' = IF job[t].file = "scores" THEN Torn ELSE scores
  /\ UNCHANGED <<name, route, lobby, commands, whole, damaged, starts>>

\* The text is written and the file closed.
Closes(t, next) ==
  /\ job[t].file # "none" /\ job[t].step = "open"
  /\ job' = [job EXCEPT ![t] = next]
  /\ users' = IF job[t].file = "users" THEN job[t].text ELSE users
  /\ scores' = IF job[t].file = "scores" THEN job[t].text ELSE scores
  /\ whole' = [whole EXCEPT ![job[t].file] = job[t].text]
  /\ UNCHANGED damaged

FilesStay == UNCHANGED <<users, scores, whole, damaged>>

-----------------------------------------------------------------------------
(* The main thread.                                                         *)

IsFree(t) == job[t] = Idle

\* loadUserStats: a user without a name is nobody's, a name without an account
\* is not banned.
IsBanned(n) == n \in DOMAIN Parsed(users) /\ Parsed(users)[n].banned

\* Server::processRegistration; the name is the client's once the file is written.
Register(c, n, p) ==
  /\ IsFree("main")
  /\ n \notin DOMAIN Parsed(users)
  /\ Reads("main", "users", <<"register", <<c, n>>>>, With(Parsed(users), n, Account(p)))
  /\ UNCHANGED <<name, route, lobby, commands, starts>>

RegisterEnds ==
  /\ job["main"].doing = "register"
  /\ Closes("main", Idle)
  /\ name' = [name EXCEPT ![job["main"].with[1]] = job["main"].with[2]]
  /\ UNCHANGED <<route, lobby, commands, starts>>

\* Mutant of LoggedIn: nobody is.
NobodyLoggedIn(n) == FALSE

LoggedIn(n) == \E c \in Clients : name[c] = n

\* Server::processLogin; accounts made by a ban have no password.
Login(c, n, p) ==
  /\ IsFree("main")
  /\ ~LoggedIn(n)
  /\ n \in DOMAIN Parsed(users) /\ Parsed(users)[n].password = p
  /\ name' = [name EXCEPT ![c] = n]
  /\ Uses("users")
  /\ UNCHANGED <<users, scores, route, lobby, job, commands, whole, starts>>

\* A login with an empty name.
Logout(c) ==
  /\ IsFree("main")
  /\ name[c] # None
  /\ name' = [name EXCEPT ![c] = None]
  /\ UNCHANGED <<route, lobby, job, commands, starts>> /\ FilesStay

\* Server::requestCode: the ban is looked up, then the lobby made.
RequestCode(c, l) ==
  /\ IsFree("main")
  /\ lobby[l].state = "none"
  /\ ~IsBanned(name[c])
  /\ LooksUp("main", name[c], <<"make", <<c, l>>>>)
  /\ UNCHANGED <<name, route, lobby, commands, starts>>

\* The maker is a member of the lobby and not on its roster.
MakesLobby ==
  /\ job["main"].doing = "make"
  /\ LET c == job["main"].with[1]
         l == job["main"].with[2]
     IN /\ lobby' = [lobby EXCEPT ![l] = [state |-> "open", roster |-> Nobody,
                                          members |-> With(Nobody, c, name[c])]]
        /\ route' = [route EXCEPT ![c] = l]
  /\ job' = [job EXCEPT !["main"] = Idle]
  /\ UNCHANGED <<name, commands, starts>> /\ FilesStay

\* Who is on the roster is not looked up again.
MayJoin(c, l) ==
  /\ lobby[l].state \notin {"none", "swept"}
  /\ c \in DOMAIN lobby[l].roster \/ ~IsBanned(name[c])

\* Server::processConnectToLobby, in the same two steps.
ConnectToLobby(c, l) ==
  /\ IsFree("main")
  /\ MayJoin(c, l)
  /\ LooksUp("main", IF c \in DOMAIN lobby[l].roster THEN None ELSE name[c], <<"join", <<c, l>>>>)
  /\ UNCHANGED <<name, route, lobby, commands, starts>>

\* Both lists keep the name the client has now.
Joins ==
  /\ job["main"].doing = "join"
  /\ LET c == job["main"].with[1]
         l == job["main"].with[2]
         listed(list) == IF c \in DOMAIN list THEN list ELSE With(list, c, name[c])
     IN /\ lobby' = [lobby EXCEPT ![l].roster = listed(@), ![l].members = listed(@)]
        /\ route' = [route EXCEPT ![c] = l]
  /\ job' = [job EXCEPT !["main"] = Idle]
  /\ UNCHANGED <<name, commands, starts>> /\ FilesStay

\* A lobby that loses its last member is stopped; stop() waits for the game thread.
Running(l) == lobby[l].state \in {"open", "playing", "over"}
After(l, members) ==
  IF DOMAIN members = {} /\ Running(l)
  THEN [state |-> "stopped", roster |-> lobby[l].roster, members |-> members]
  ELSE [lobby[l] EXCEPT !.members = members]
MayWait(l, members) == After(l, members).state = "stopped" => IsFree(l)

\* LEAVE_LOBBY.
LeaveLobby(c) ==
  /\ IsFree("main")
  /\ route[c] # None
  /\ LET l == route[c]
         rest == Without(lobby[l].members, c)
     IN IF Running(l)
        THEN /\ MayWait(l, rest)
             /\ lobby' = [lobby EXCEPT ![l] = [After(l, rest) EXCEPT
                                                 !.roster = Without(@, c)]]
        ELSE UNCHANGED lobby
  /\ route' = [route EXCEPT ![c] = None]
  /\ UNCHANGED <<name, job, commands, starts>> /\ FilesStay

\* Server::cleanupClosedLobbies.  What a route still holds of the lobby is nobody's.
CleanupClosedLobbies(l) ==
  /\ IsFree("main")
  /\ lobby[l].state = "stopped"
  /\ lobby' = [lobby EXCEPT ![l] = [state |-> "swept", roster |-> Nobody, members |-> Nobody]]
  /\ UNCHANGED <<name, route, job, commands, starts>> /\ FilesStay

\* games_played of everybody on the roster.
Played(text, roster) ==
  [n \in DOMAIN text |-> [text[n] EXCEPT
     !.games = @ + Cardinality({c \in DOMAIN roster : roster[c] = n})]]

\* Server::processMasterStart.
MasterStart(l) ==
  /\ IsFree("main")
  /\ lobby[l].state \notin {"none", "swept"}
  /\ starts < MaxGames
  /\ starts' = starts + 1
  /\ Reads("main", "users", <<"start", <<l>>>>, Played(Parsed(users), lobby[l].roster))
  /\ UNCHANGED <<name, route, lobby, commands>>

\* The threads of a lobby are started once: assigning to them again ends the server.
StartsGame ==
  /\ job["main"].doing = "start"
  /\ LET l == job["main"].with[1]
         again == lobby[l].state \in {"playing", "over"}
     IN /\ Closes("main", IF again THEN [Idle EXCEPT !.doing = "terminate"] ELSE Idle)
        /\ lobby' = [lobby EXCEPT ![l].state = IF @ = "open" THEN "playing" ELSE @]
  /\ UNCHANGED <<name, route, commands, starts>>

-----------------------------------------------------------------------------
(* A lobby's game thread.                                                   *)

\* Lobby::endGamePacket: a score for each member that has an entity, under the
\* name it joined with, which may be none.
Scored(text, members, players) ==
  LET before(n) == IF n \in DOMAIN text THEN text[n] ELSE 0
      here(n) == Cardinality({c \in players : members[c] = n})
  IN [n \in DOMAIN text \cup {members[c] : c \in players} |-> before(n) + here(n)]

EndGame(l, players) ==
  /\ IsFree(l)
  /\ lobby[l].state = "playing"
  /\ players \subseteq DOMAIN lobby[l].members
  /\ Reads(l, "scores", <<"end", <<>>>>, Scored(Parsed(scores), lobby[l].members, players))
  /\ UNCHANGED <<name, route, lobby, commands, starts>>

\* The game over, its thread has nothing more to save.
SavesScores(l) ==
  /\ job[l].doing = "end"
  /\ Closes(l, Idle)
  /\ lobby' = [lobby EXCEPT ![l].state = IF @ = "playing" THEN "over" ELSE @]
  /\ UNCHANGED <<name, route, commands, starts>>

-----------------------------------------------------------------------------
(* The commands of the HTTP thread: Server::executeCommand.                 *)

\* Mutant of SetBanned: the account is written anew.
SetBannedAnew(text, n, b) == With(text, n, [Account(None) EXCEPT !.banned = b])

\* Server::saveUserBannedStatus; a name that has no account gets one.
SetBanned(text, n, b) ==
  With(text, n, [(IF n \in DOMAIN text THEN text[n] ELSE Account(None)) EXCEPT !.banned = b])

\* Server::banPlayer and unbanPlayer, by name; an id stands for its client's name.
SaveUserBannedStatus(n, b) ==
  /\ IsFree("http")
  /\ commands < MaxCommands
  /\ commands' = commands + 1
  /\ Reads("http", "users",
           <<IF b THEN "ban" ELSE "unban", <<n, {c \in Clients : name[c] = n}>>>>,
           SetBanned(Parsed(users), n, b))
  /\ UNCHANGED <<name, route, lobby, starts>>

\* The lobby the route names loses the client; its roster does not.
Removed(c) ==
  IF route[c] = None THEN lobby
  ELSE [lobby EXCEPT ![route[c]] = After(route[c], Without(@.members, c))]
MayRemove(c) == route[c] # None => MayWait(route[c], Without(lobby[route[c]].members, c))

\* The client that had the name is then sent out of its lobby.
BanEnds ==
  /\ job["http"].doing \in {"ban", "unban"}
  /\ LET them == job["http"].with[2]
     IN Closes("http", IF job["http"].doing = "unban" \/ them = {} THEN Idle
                       ELSE [doing |-> "remove", with |-> them, file |-> "none"])
  /\ UNCHANGED <<name, route, lobby, commands, starts>>

BannedLeaves ==
  /\ job["http"].doing = "remove"
  /\ \E c \in job["http"].with :
       /\ MayRemove(c)
       /\ lobby' = Removed(c)
       /\ route' = [route EXCEPT ![c] = None]
  /\ job' = [job EXCEPT !["http"] = Idle]
  /\ UNCHANGED <<name, commands, starts>> /\ FilesStay

\* Server::kickPlayer.
KickPlayer(c) ==
  /\ IsFree("http")
  /\ route[c] # None
  /\ MayRemove(c)
  /\ lobby' = Removed(c)
  /\ route' = [route EXCEPT ![c] = None]
  /\ UNCHANGED <<name, job, commands, starts>> /\ FilesStay

\* Server::closeLobby: the members' routes go, whichever lobby they name.
CloseLobby(l) ==
  /\ IsFree("http")
  /\ lobby[l].state \notin {"none", "swept"}
  /\ IsFree(l)
  /\ lobby' = [lobby EXCEPT ![l] = [state |-> "stopped", roster |-> @.roster, members |-> Nobody]]
  /\ route' = [c \in Clients |-> IF c \in DOMAIN lobby[l].members THEN None ELSE route[c]]
  /\ UNCHANGED <<name, job, commands, starts>> /\ FilesStay

-----------------------------------------------------------------------------
(* Stops.                                                                   *)

\* The server ends, wherever its threads are, and is started again: the files
\* are what is left.
Restart ==
  /\ name' = [c \in Clients |-> None]
  /\ route' = [c \in Clients |-> None]
  /\ lobby' = [l \in Lobbies |-> [state |-> "none", roster |-> Nobody, members |-> Nobody]]
  /\ job' = [t \in Threads |-> Idle]
  /\ damaged' = [users |-> damaged.users \/ users = Torn,
                 scores |-> damaged.scores \/ scores = Torn]
  /\ UNCHANGED <<users, scores, commands, whole, starts>>

\* Server::executeCommand, on behalf of HttpServer::commandsExecuteEndpoint.
ExecuteCommand ==
  \/ \E c \in Clients : KickPlayer(c)
  \/ \E l \in Lobbies : CloseLobby(l)
  \/ \E n \in Names, b \in BOOLEAN : SaveUserBannedStatus(n, b)

Next ==
  \/ \E try \in Tries, p \in Passwords :
       Register(try[1], try[2], p) \/ Login(try[1], try[2], p)
  \/ RegisterEnds \/ MakesLobby \/ Joins \/ StartsGame \/ BanEnds \/ BannedLeaves
  \/ ExecuteCommand
  \/ \E t \in Threads : Opens(t)
  \/ \E c \in Clients : Logout(c) \/ LeaveLobby(c)
  \/ \E c \in Clients, l \in Lobbies : RequestCode(c, l) \/ ConnectToLobby(c, l)
  \/ \E l \in Lobbies :
       \/ CleanupClosedLobbies(l) \/ MasterStart(l) \/ SavesScores(l)
       \/ \E players \in SUBSET Clients : EndGame(l, players)
  \/ Restart

Spec == Init /\ [][Next]_vars

-----------------------------------------------------------------------------
(* Properties.                                                              *)

\* No two clients are logged in under one name, though the table of clients and
\* the file are looked at apart, and registration looks at the file alone.
OneLogin ==
  ~damaged.users =>
    \A c, d \in Clients : name[c] = name[d] /\ name[c] # None => c = d

\* Until two threads use a file at once, or the server stops between emptying and
\* filling it, no write loses what was there: every account stays with its password
\* and its games, a ban is set and lifted by a command for that name alone, and no
\* score is dropped.
FilesLoseNothing ==
  [][ /\ ~damaged'.users =>
           \A n \in DOMAIN whole.users :
             /\ n \in DOMAIN whole'.users
             /\ whole'.users[n].password = whole.users[n].password
             /\ whole'.users[n].games >= whole.users[n].games
             /\ whole'.users[n].banned # whole.users[n].banned =>
                  job["http"].doing \in {"ban", "unban"} /\ job["http"].with[1] = n
      /\ ~damaged'.scores =>
           \A n \in DOMAIN whole.scores :
             n \in DOMAIN whole'.scores /\ whole'.scores[n] >= whole.scores[n] ]_vars
=============================================================================
