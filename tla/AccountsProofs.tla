---------------------------- MODULE AccountsProofs ----------------------------
(***************************************************************************)
(* Proofs about Accounts for any clients, names and lobbies: as long as no   *)
(* two threads use a file at once and no stop leaves one empty, the files    *)
(* lose nothing, nobody is logged in twice and the banned stay out.          *)
(*                                                                         *)
(* FileInv says what the job of a thread and the file it is busy with have   *)
(* to do with each other; it is proved for both files at once, operation by  *)
(* operation, before the actions are looked at.                              *)
(***************************************************************************)
EXTENDS Accounts, FiniteSetTheorems, TLAPS

Files == {"users", "scores"}
Text(file) == IF file = "users" THEN users ELSE scores

-----------------------------------------------------------------------------
(* Types.                                                                   *)

AreMembers(list) == Holds(list, Clients, Names \cup {None})

AreLobbies ==
  /\ lobby = [l \in Lobbies |-> lobby[l]]
  /\ \A l \in Lobbies :
       /\ lobby[l] = [state |-> lobby[l].state, roster |-> lobby[l].roster,
                      members |-> lobby[l].members]
       /\ AreMembers(lobby[l].roster) /\ AreMembers(lobby[l].members)

Writing(j) ==
  /\ j = [doing |-> j.doing, with |-> j.with, file |-> j.file, step |-> j.step, text |-> j.text]
  /\ j.doing \in {"register", "start", "ban", "unban", "end"}
  /\ j.file = IF j.doing = "end" THEN "scores" ELSE "users"
  /\ j.step \in {"read", "open"}

Looking(j) ==
  /\ j = [doing |-> j.doing, with |-> j.with, step |-> "looked", file |-> j.file]
  /\ j.doing \in {"make", "join"} /\ j.file \in {"none", "users"}

Waiting(j) ==
  \/ j \in [doing : {"nothing", "terminate"}, file : {"none"}]
  \/ j = [doing |-> "remove", with |-> j.with, file |-> "none"]

IsJob(t, j) ==
  /\ Writing(j) \/ Looking(j) \/ Waiting(j)
  /\ Looking(j) \/ j.doing = "register" =>
       \E c \in Clients : \E x :
         /\ j.with = <<c, x>> /\ t = "main"
         /\ j.doing = "register" => x \in Names
  /\ j.doing \in {"ban", "unban"} => t = "http"

AreJobs ==
  /\ job = [t \in Threads |-> job[t]]
  /\ \A t \in Threads : IsJob(t, job[t])

TypeInv ==
  /\ name \in [Clients -> Names \cup {None}]
  /\ whole = [users |-> whole.users, scores |-> whole.scores]
  /\ damaged \in [users : BOOLEAN, scores : BOOLEAN]
  /\ AreLobbies
  /\ AreJobs

\* Adding to, taking from and starting a text.
LEMMA WithHolds ==
  ASSUME NEW K, NEW V, NEW f, Holds(f, K, V), NEW k \in K, NEW v \in V
  PROVE  /\ Holds(With(f, k, v), K, V) /\ DOMAIN With(f, k, v) = DOMAIN f \cup {k}
         /\ With(f, k, v)[k] = v /\ \A x \in DOMAIN f \ {k} : With(f, k, v)[x] = f[x]
<1>1. PICK known \in SUBSET K : f \in [known -> V]
  BY DEF Holds
<1>2. With(f, k, v) \in [known \cup {k} -> V]
  BY <1>1 DEF With
<1>3. known \cup {k} \in SUBSET K
  BY <1>1
<1> QED BY <1>1, <1>2, <1>3 DEF With, Holds

LEMMA WithoutHolds ==
  ASSUME NEW K, NEW V, NEW f, Holds(f, K, V), NEW k
  PROVE  Holds(Without(f, k), K, V) /\ DOMAIN Without(f, k) = DOMAIN f \ {k}
<1>1. PICK known \in SUBSET K : f \in [known -> V]
  BY DEF Holds
<1>2. Without(f, k) \in [known \ {k} -> V] /\ known \ {k} \in SUBSET K
  BY <1>1 DEF Without, Restrict
<1> QED BY <1>1, <1>2 DEF Holds

LEMMA NobodyHolds ==
  ASSUME NEW K, NEW V
  PROVE  Holds(Nobody, K, V) /\ DOMAIN Nobody = {}
<1>1. Nobody \in [{} -> V] /\ {} \in SUBSET K
  BY DEF Nobody
<1> QED BY <1>1 DEF Holds

\* One lobby is changed, or one job.
IsLobby(r) ==
  /\ r = [state |-> r.state, roster |-> r.roster, members |-> r.members]
  /\ AreMembers(r.roster) /\ AreMembers(r.members)

LEMMA LobbyChanges ==
  ASSUME AreLobbies, NEW l, NEW r, lobby' = [lobby EXCEPT ![l] = r], l \in Lobbies => IsLobby(r)
  PROVE  AreLobbies'
  BY DEF AreLobbies, IsLobby, AreMembers

LEMMA JobChanges ==
  ASSUME AreJobs, NEW t \in Threads, NEW j, job' = [job EXCEPT ![t] = j], IsJob(t, j)
  PROVE  AreJobs'
  BY DEF AreJobs, IsJob, Writing, Looking, Waiting

LEMMA AfterIsLobby ==
  ASSUME AreLobbies, NEW l \in Lobbies, NEW list, AreMembers(list)
  PROVE  /\ IsLobby(After(l, list))
         /\ After(l, list).roster = lobby[l].roster /\ After(l, list).members = list
<1>1. lobby[l] = [state |-> lobby[l].state, roster |-> lobby[l].roster,
                  members |-> lobby[l].members] /\ AreMembers(lobby[l].roster)
  BY DEF AreLobbies
<1> QED BY <1>1 DEF After, IsLobby

LEMMA IdleIsJob ==
  ASSUME NEW t
  PROVE  IsJob(t, Idle) /\ IsJob(t, [Idle EXCEPT !.doing = "terminate"])
  BY DEF IsJob, Idle, Writing, Looking, Waiting

\* Whoever the main thread looks up, or registers, is a client.
LEMMA WhoIsServed ==
  ASSUME AreJobs, job["main"].doing \in {"make", "join", "register"}
  PROVE  /\ job["main"].with = <<job["main"].with[1], job["main"].with[2]>>
         /\ job["main"].with[1] \in Clients
         /\ job["main"].doing = "register" => job["main"].with[2] \in Names
<1>1. IsJob("main", job["main"])
  BY DEF AreJobs, Threads
<1>2. Looking(job["main"]) \/ job["main"].doing = "register"
  BY <1>1 DEF IsJob, Writing, Waiting
<1>3. PICK c \in Clients : \E x :
        /\ job["main"].with = <<c, x>>
        /\ job["main"].doing = "register" => x \in Names
  BY <1>1, <1>2 DEF IsJob
<1> QED BY <1>3

\* What a read and a lookup leave.
LEMMA ReadsType ==
  ASSUME TypeInv, NEW t \in Threads, NEW file \in Files, NEW d, NEW w, NEW text,
         Reads(t, file, <<d, w>>, text), UNCHANGED <<name, lobby>>,
         d \in {"register", "start", "ban", "unban", "end"},
         file = IF d = "end" THEN "scores" ELSE "users",
         d = "register" => \E c \in Clients, n \in Names : w = <<c, n>> /\ t = "main",
         d \in {"ban", "unban"} => t = "http"
  PROVE  TypeInv'
<1> DEFINE j == [doing |-> d, with |-> w, file |-> file, step |-> "read", text |-> text]
<1>1. IsJob(t, j)
  BY DEF IsJob, Writing, Looking, Files
<1>2. job' = [job EXCEPT ![t] = j] /\ UNCHANGED whole
  BY DEF Reads
<1> HIDE DEF j
<1>3. AreJobs'
  BY <1>1, <1>2, JobChanges DEF TypeInv
<1>4. damaged' \in [users : BOOLEAN, scores : BOOLEAN]
  BY DEF TypeInv, Reads, Uses
<1> QED BY <1>2, <1>3, <1>4 DEF TypeInv, AreLobbies, AreMembers

LEMMA LooksUpType ==
  ASSUME TypeInv, NEW n, NEW d \in {"make", "join"}, NEW c \in Clients, NEW l,
         LooksUp("main", n, <<d, <<c, l>>>>), UNCHANGED <<name, lobby>>
  PROVE  TypeInv'
<1> DEFINE j == [doing |-> d, with |-> <<c, l>>, step |-> "looked",
                 file |-> IF n = None THEN "none" ELSE "users"]
<1>1. IsJob("main", j)
  BY DEF IsJob, Writing, Looking
<1>2. job' = [job EXCEPT !["main"] = j] /\ UNCHANGED whole
  BY DEF LooksUp
<1> HIDE DEF j
<1>3. AreJobs'
  BY <1>1, <1>2, JobChanges DEF TypeInv, Threads
<1>4. damaged' \in [users : BOOLEAN, scores : BOOLEAN]
  BY DEF TypeInv, LooksUp, Uses
<1> QED BY <1>2, <1>3, <1>4 DEF TypeInv, AreLobbies, AreMembers

LEMMA OpensType ==
  ASSUME TypeInv, NEW t \in Threads, Opens(t)
  PROVE  TypeInv'
<1> DEFINE j == [job[t] EXCEPT !.step = "open"]
<1>1. IsJob(t, job[t]) /\ job[t].file # "none" /\ job[t].step = "read"
  BY DEF TypeInv, AreJobs, Opens
<1>2. Writing(job[t])
  BY <1>1 DEF IsJob, Looking, Waiting
<1>3. j = [doing |-> job[t].doing, with |-> job[t].with, file |-> job[t].file,
           step |-> "open", text |-> job[t].text]
  BY <1>2 DEF Writing
<1>4. IsJob(t, j)
  BY <1>1, <1>2, <1>3 DEF IsJob, Writing, Looking
<1>5. job' = [job EXCEPT ![t] = j]
  BY DEF Opens, TypeInv, AreJobs
<1> HIDE DEF j
<1>6. AreJobs'
  BY <1>4, <1>5, JobChanges DEF TypeInv
<1> QED BY <1>6 DEF TypeInv, AreLobbies, AreMembers, Opens

LEMMA ClosesType ==
  ASSUME TypeInv, NEW t \in Threads, NEW next, Closes(t, next), IsJob(t, next),
         name' \in [Clients -> Names \cup {None}], AreLobbies'
  PROVE  TypeInv'
<1>1. AreJobs'
  BY JobChanges DEF TypeInv, Closes
<1>2. whole' = [users |-> whole'.users, scores |-> whole'.scores]
  BY DEF TypeInv, Closes
<1> QED BY <1>1, <1>2 DEF TypeInv, Closes

\* Joining, leaving, sweeping and closing keep the lists lists.
LEMMA LobbiesStep ==
  ASSUME TypeInv,
         \/ MakesLobby \/ Joins \/ BannedLeaves
         \/ \E c \in Clients : LeaveLobby(c) \/ KickPlayer(c)
         \/ \E l \in Lobbies : CleanupClosedLobbies(l) \/ CloseLobby(l)
  PROVE  AreLobbies'
<1>1. AreMembers(Nobody) /\ \A l \in Lobbies : IsLobby(lobby[l])
  BY NobodyHolds DEF AreMembers, TypeInv, AreLobbies, IsLobby
<1>2. ASSUME NEW list, NEW c \in Clients, AreMembers(list)
      PROVE  AreMembers(With(list, c, name[c]))
  BY <1>2, WithHolds DEF AreMembers, TypeInv
<1>3. ASSUME NEW l \in Lobbies, NEW c
      PROVE  /\ AreMembers(Without(lobby[l].members, c))
             /\ IsLobby(After(l, Without(lobby[l].members, c)))
             /\ IsLobby([After(l, Without(lobby[l].members, c)) EXCEPT !.roster = Without(@, c)])
  <2> DEFINE rest == Without(lobby[l].members, c)
  <2>1. AreMembers(rest) /\ AreMembers(Without(lobby[l].roster, c))
    BY <1>1, WithoutHolds DEF AreMembers, IsLobby
  <2> HIDE DEF rest
  <2>2. IsLobby(After(l, rest)) /\ After(l, rest).roster = lobby[l].roster
    BY <2>1, AfterIsLobby DEF TypeInv
  <2>3. IsLobby([After(l, rest) EXCEPT !.roster = Without(@, c)])
    BY <2>1, <2>2 DEF IsLobby
  <2> QED BY <2>1, <2>2, <2>3 DEF rest
<1>4. ASSUME NEW c, lobby' = Removed(c)
      PROVE  AreLobbies'
  <2>1. CASE route[c] = None
    BY <1>4, <2>1 DEF Removed, TypeInv, AreLobbies, AreMembers
  <2>2. CASE route[c] # None
    <3> DEFINE l == route[c]
               r == After(l, Without(lobby[l].members, c))
    <3>1. lobby' = [lobby EXCEPT ![l] = r]
      BY <1>4, <2>2 DEF Removed, TypeInv, AreLobbies
    <3>2. l \in Lobbies => IsLobby(r)
      BY <1>3
    <3> HIDE DEF l, r
    <3> QED BY <3>1, <3>2, LobbyChanges DEF TypeInv
  <2> QED BY <2>1, <2>2
<1>5. CASE MakesLobby
  <2> DEFINE c == job["main"].with[1]
             l == job["main"].with[2]
             r == [state |-> "open", roster |-> Nobody, members |-> With(Nobody, c, name[c])]
  <2>1. lobby' = [lobby EXCEPT ![l] = r] /\ c \in Clients
    BY <1>5, WhoIsServed DEF MakesLobby, TypeInv
  <2>2. IsLobby(r)
    BY <1>1, <1>2, <2>1 DEF IsLobby
  <2> HIDE DEF c, l, r
  <2> QED BY <2>1, <2>2, LobbyChanges DEF TypeInv
<1>6. CASE Joins
  <2> DEFINE c == job["main"].with[1]
             l == job["main"].with[2]
             listed(list) == IF c \in DOMAIN list THEN list ELSE With(list, c, name[c])
             r == [state |-> lobby[l].state, roster |-> listed(lobby[l].roster),
                   members |-> listed(lobby[l].members)]
  <2>1. lobby' = [lobby EXCEPT ![l].roster = listed(@), ![l].members = listed(@)] /\ c \in Clients
    BY <1>6, WhoIsServed DEF Joins, TypeInv
  <2>2. CASE l \in Lobbies
    <3>1. AreMembers(listed(lobby[l].roster)) /\ AreMembers(listed(lobby[l].members))
      BY <1>1, <1>2, <2>1, <2>2 DEF IsLobby
    <3>2. /\ lobby = [k \in Lobbies |-> lobby[k]]
          /\ lobby[l] = [state |-> lobby[l].state, roster |-> lobby[l].roster,
                         members |-> lobby[l].members]
      BY <1>1, <2>2 DEF IsLobby, TypeInv, AreLobbies
    <3> HIDE DEF listed
    <3>3. IsLobby(r)
      BY <3>1 DEF IsLobby
    <3>4. /\ lobby' = [k \in Lobbies |-> lobby'[k]]
          /\ \A k \in Lobbies \ {l} : lobby'[k] = lobby[k]
      BY <2>1, <3>2
    <3>5. lobby'[l] = r
      BY <2>1, <2>2, <3>2
    <3> HIDE DEF r
    <3> QED BY <1>1, <3>3, <3>4, <3>5 DEF AreLobbies, IsLobby, AreMembers
  <2>3. CASE l \notin Lobbies
    BY <2>1, <2>3 DEF TypeInv, AreLobbies, AreMembers
  <2> QED BY <2>2, <2>3
<1>7. CASE BannedLeaves
  BY <1>4, <1>7 DEF BannedLeaves
<1>8. ASSUME NEW c \in Clients, KickPlayer(c)
      PROVE  AreLobbies'
  BY <1>4, <1>8 DEF KickPlayer
<1>9. ASSUME NEW c \in Clients, LeaveLobby(c)
      PROVE  AreLobbies'
  <2> DEFINE l == route[c]
             r == [After(l, Without(lobby[l].members, c)) EXCEPT !.roster = Without(@, c)]
  <2>1. \/ lobby' = [lobby EXCEPT ![l] = r]
        \/ UNCHANGED lobby
    BY <1>9 DEF LeaveLobby
  <2>2. l \in Lobbies => IsLobby(r)
    BY <1>3
  <2> HIDE DEF l, r
  <2> QED BY <2>1, <2>2, LobbyChanges DEF TypeInv, AreLobbies, AreMembers
<1>10. ASSUME NEW l \in Lobbies, CleanupClosedLobbies(l) \/ CloseLobby(l)
       PROVE  AreLobbies'
  <2>1. CASE CleanupClosedLobbies(l)
    BY <1>1, <2>1, LobbyChanges DEF CleanupClosedLobbies, IsLobby, TypeInv
  <2>2. CASE CloseLobby(l)
    <3> DEFINE r == [state |-> "stopped", roster |-> lobby[l].roster, members |-> Nobody]
    <3>1. lobby' = [lobby EXCEPT ![l] = r] /\ IsLobby(r)
      BY <1>1, <2>2 DEF CloseLobby, IsLobby, TypeInv, AreLobbies
    <3> HIDE DEF r
    <3> QED BY <3>1, LobbyChanges DEF TypeInv
  <2> QED BY <1>10, <2>1, <2>2
<1> QED BY <1>5, <1>6, <1>7, <1>8, <1>9, <1>10

LEMMA TypeStep == TypeInv /\ [Next]_vars => TypeInv'
<1> SUFFICES ASSUME TypeInv, [Next]_vars
             PROVE  TypeInv'
  OBVIOUS
<1>1. ASSUME UNCHANGED lobby
      PROVE  AreLobbies'
  BY <1>1 DEF TypeInv, AreLobbies, AreMembers
<1>2. ASSUME UNCHANGED job
      PROVE  AreJobs'
  BY <1>2 DEF TypeInv, AreJobs, IsJob, Writing, Looking, Waiting
<1>3. ASSUME NEW t \in Threads, job' = [job EXCEPT ![t] = Idle]
      PROVE  AreJobs'
  BY <1>3, IdleIsJob, JobChanges DEF TypeInv
<1>4. {"main", "http"} \subseteq Threads /\ Lobbies \subseteq Threads
  BY DEF Threads
<1>5. ASSUME NEW try \in Tries, NEW p \in Passwords, Register(try[1], try[2], p)
      PROVE  TypeInv'
  <2> DEFINE text == With(Parsed(users), try[2], Account(p))
  <2>1. try[1] \in Clients /\ try[2] \in Names
    BY AccountConstants
  <2>2. /\ Reads("main", "users", <<"register", <<try[1], try[2]>>>>, text)
        /\ UNCHANGED <<name, lobby>>
    BY <1>5 DEF Register
  <2> HIDE DEF text
  <2> QED BY <1>4, <2>1, <2>2, ReadsType DEF Files
<1>6. ASSUME NEW try \in Tries, NEW p \in Passwords, Login(try[1], try[2], p)
      PROVE  TypeInv'
  <2>1. name' \in [Clients -> Names \cup {None}]
    BY <1>6, AccountConstants DEF Login, TypeInv
  <2>2. damaged' \in [users : BOOLEAN, scores : BOOLEAN] /\ UNCHANGED <<whole, lobby, job>>
    BY <1>6 DEF Login, TypeInv, Uses
  <2> QED BY <1>1, <1>2, <2>1, <2>2 DEF TypeInv
<1>7. CASE RegisterEnds
  <2>1. name' \in [Clients -> Names \cup {None}]
    BY <1>7, WhoIsServed DEF RegisterEnds, TypeInv
  <2> QED BY <1>1, <1>4, <1>7, <2>1, IdleIsJob, ClosesType DEF RegisterEnds
<1>8. CASE StartsGame
  <2> DEFINE l == job["main"].with[1]
             r == [lobby[l] EXCEPT !.state = IF @ = "open" THEN "playing" ELSE @]
  <2>1. PICK next \in {Idle, [Idle EXCEPT !.doing = "terminate"]} : Closes("main", next)
    BY <1>8 DEF StartsGame
  <2>2. lobby' = [lobby EXCEPT ![l] = r]
    BY <1>8 DEF StartsGame
  <2>3. l \in Lobbies => IsLobby(r)
    BY DEF IsLobby, TypeInv, AreLobbies
  <2> HIDE DEF l, r
  <2>4. AreLobbies'
    BY <2>2, <2>3, LobbyChanges DEF TypeInv
  <2> QED BY <1>4, <1>8, <2>1, <2>4, IdleIsJob, ClosesType DEF StartsGame, TypeInv
<1>9. CASE BanEnds
  <2> DEFINE removal == [doing |-> "remove", with |-> job["http"].with[2], file |-> "none"]
  <2>1. PICK next \in {Idle, removal} : Closes("http", next)
    BY <1>9 DEF BanEnds
  <2>2. IsJob("http", removal)
    BY DEF IsJob, Waiting, Writing, Looking
  <2> HIDE DEF removal
  <2> QED BY <1>1, <1>4, <1>9, <2>1, <2>2, IdleIsJob, ClosesType DEF BanEnds, TypeInv
<1>10. ASSUME NEW l \in Lobbies, SavesScores(l)
       PROVE  TypeInv'
  <2> DEFINE r == [lobby[l] EXCEPT !.state = IF @ = "playing" THEN "over" ELSE @]
  <2>1. lobby' = [lobby EXCEPT ![l] = r]
    BY <1>10 DEF SavesScores
  <2>2. IsLobby(r)
    BY DEF IsLobby, TypeInv, AreLobbies
  <2> HIDE DEF r
  <2>3. AreLobbies'
    BY <2>1, <2>2, LobbyChanges DEF TypeInv
  <2> QED BY <1>4, <1>10, <2>3, IdleIsJob, ClosesType DEF SavesScores, TypeInv
<1>11. ASSUME NEW t \in Threads, Opens(t)
       PROVE  TypeInv'
  BY <1>11, OpensType
<1>12. ASSUME NEW c \in Clients, Logout(c)
       PROVE  TypeInv'
  <2>1. name' \in [Clients -> Names \cup {None}] /\ UNCHANGED <<lobby, job, whole, damaged>>
    BY <1>12 DEF Logout, TypeInv, FilesStay
  <2> QED BY <1>1, <1>2, <2>1 DEF TypeInv
<1>13. ASSUME \/ MakesLobby \/ Joins \/ BannedLeaves
              \/ \E c \in Clients : LeaveLobby(c) \/ KickPlayer(c)
              \/ \E l \in Lobbies : CleanupClosedLobbies(l) \/ CloseLobby(l)
       PROVE  TypeInv'
  <2>1. UNCHANGED <<name, whole, damaged>>
    BY <1>13 DEF MakesLobby, Joins, BannedLeaves, LeaveLobby, KickPlayer, CleanupClosedLobbies,
                 CloseLobby, FilesStay
  <2>2. \/ UNCHANGED job
        \/ \E t \in Threads : job' = [job EXCEPT ![t] = Idle]
    BY <1>4, <1>13 DEF MakesLobby, Joins, BannedLeaves, LeaveLobby, KickPlayer,
                       CleanupClosedLobbies, CloseLobby
  <2>3. AreJobs'
    BY <1>2, <1>3, <2>2
  <2> QED BY <1>13, <2>1, <2>3, LobbiesStep DEF TypeInv
<1>14. ASSUME NEW c \in Clients, NEW l \in Lobbies, RequestCode(c, l) \/ ConnectToLobby(c, l)
       PROVE  TypeInv'
  <2>1. CASE RequestCode(c, l)
    BY <2>1, LooksUpType DEF RequestCode
  <2>2. CASE ConnectToLobby(c, l)
    BY <2>2, LooksUpType DEF ConnectToLobby
  <2> QED BY <1>14, <2>1, <2>2
<1>15. ASSUME NEW l \in Lobbies, MasterStart(l)
       PROVE  TypeInv'
  <2> DEFINE text == Played(Parsed(users), lobby[l].roster)
  <2>1. Reads("main", "users", <<"start", <<l>>>>, text) /\ UNCHANGED <<name, lobby>>
    BY <1>15 DEF MasterStart
  <2> HIDE DEF text
  <2> QED BY <1>4, <2>1, ReadsType DEF Files
<1>16. ASSUME NEW l \in Lobbies, NEW players \in SUBSET Clients, EndGame(l, players)
       PROVE  TypeInv'
  <2> DEFINE text == Scored(Parsed(scores), lobby[l].members, players)
  <2>1. Reads(l, "scores", <<"end", <<>>>>, text) /\ UNCHANGED <<name, lobby>>
    BY <1>16 DEF EndGame
  <2> HIDE DEF text
  <2> QED BY <1>4, <2>1, ReadsType DEF Files
<1>17. ASSUME NEW n \in Names, NEW b \in BOOLEAN, SaveUserBannedStatus(n, b)
       PROVE  TypeInv'
  <2> DEFINE text == SetBanned(Parsed(users), n, b)
             w == <<n, {c \in Clients : name[c] = n}>>
             d == IF b THEN "ban" ELSE "unban"
  <2>1. Reads("http", "users", <<d, w>>, text) /\ UNCHANGED <<name, lobby>>
    BY <1>17 DEF SaveUserBannedStatus
  <2>2. d \in {"ban", "unban"}
    OBVIOUS
  <2> HIDE DEF text, w, d
  <2> QED BY <1>4, <2>1, <2>2, ReadsType DEF Files
<1>18. CASE Restart
  <2>1. AreLobbies'
    BY <1>18, NobodyHolds DEF Restart, AreLobbies, AreMembers
  <2>2. AreJobs'
    BY <1>18, IdleIsJob DEF Restart, AreJobs
  <2>3. damaged' \in [users : BOOLEAN, scores : BOOLEAN] /\ UNCHANGED whole
    BY <1>18 DEF Restart, TypeInv
  <2> QED BY <1>18, <2>1, <2>2, <2>3 DEF Restart, TypeInv
<1>19. CASE UNCHANGED vars
  BY <1>1, <1>2, <1>19 DEF vars, TypeInv
<1> QED
  BY <1>5, <1>6, <1>7, <1>8, <1>9, <1>10, <1>11, <1>12, <1>13, <1>14, <1>15, <1>16, <1>17, <1>18,
     <1>19 DEF Next, ExecuteCommand

-----------------------------------------------------------------------------
(* The files.                                                               *)

\* What a thread holds keeps what the file had when it was read.
Keeps(file, j) ==
  IF file = "users"
  THEN /\ AreAccounts(j.text)
       /\ \A n \in DOMAIN whole.users :
            /\ n \in DOMAIN j.text
            /\ j.text[n].password = whole.users[n].password
            /\ j.text[n].games >= whole.users[n].games
            /\ j.text[n].banned # whole.users[n].banned =>
                 j.doing \in {"ban", "unban"} /\ j.with[1] = n
  ELSE /\ AreScores(j.text)
       /\ \A n \in DOMAIN whole.scores :
            n \in DOMAIN j.text /\ j.text[n] >= whole.scores[n]

FileInv(file) ==
  ~damaged[file] =>
    /\ IF file = "users" THEN AreAccounts(whole.users) ELSE AreScores(whole.scores)
    /\ \A t, u \in Busy(file) : t = u
    /\ \/ Text(file) = whole[file]
       \/ Text(file) = Torn /\ \E t \in Busy(file) : job[t].step = "open"
    /\ \A t \in Busy(file) : job[t].step \in {"read", "open"} => Keeps(file, job[t])

\* With nobody busy with it a file is whole.
LEMMA FreeIsWhole ==
  ASSUME NEW file \in Files, FileInv(file), ~damaged[file], Busy(file) = {}
  PROVE  /\ Text(file) = whole[file]
         /\ Parsed(Text(file)) = whole[file]
  BY AccountConstants DEF FileInv, Parsed, Files

\* What a file and those busy with it do not share, does not disturb them.
LEMMA FileUntouched ==
  ASSUME NEW file \in Files, FileInv(file),
         ~damaged'[file] => ~damaged[file],
         whole'[file] = whole[file], Text(file)' = Text(file),
         Busy(file)' \subseteq Busy(file),
         ~damaged'[file] /\ Text(file) = Torn => Busy(file)' = Busy(file),
         \A t \in Busy(file)' : job'[t] = job[t]
  PROVE  FileInv(file)'
  BY AccountConstants DEF FileInv, Keeps, Files

FilesInv == \A file \in Files : FileInv(file)

\* A free thread takes up a file that is whole, or damages it.
LEMMA TakeUp ==
  ASSUME TypeInv, FilesInv, NEW file \in Files, NEW t \in Threads, NEW j,
         IsFree(t), Uses(file), j.file = file,
         job' = [job EXCEPT ![t] = j], UNCHANGED <<users, scores, whole>>,
         ~damaged[file] /\ Busy(file) = {} =>
           j.step = "looked" \/ (j.step = "read" /\ Keeps(file, j))
  PROVE  FilesInv'
<1>1. /\ DOMAIN job = Threads /\ job'[t] = j /\ \A u \in Threads \ {t} : job'[u] = job[u]
      /\ job[t].file = "none"
  BY DEF TypeInv, AreJobs, IsFree, Idle
<1>2. /\ damaged'[file] = (damaged[file] \/ Busy(file) # {})
      /\ \A other \in Files \ {file} : damaged'[other] = damaged[other]
  BY DEF TypeInv, Uses, Files
<1>3. \A other \in Files : Text(other)' = Text(other)
  BY DEF Text
<1>4. ASSUME NEW other \in Files \ {file}
      PROVE  FileInv(other)'
  <2>1. Busy(other)' = Busy(other) /\ \A u \in Busy(other)' : job'[u] = job[u]
    BY <1>1 DEF Busy, Files
  <2> QED BY <1>2, <1>3, <2>1, FileUntouched DEF FilesInv
<1>5. ASSUME ~damaged'[file]
      PROVE  /\ Busy(file)' = {t} /\ Text(file)' = whole'[file]
             /\ IF file = "users" THEN AreAccounts(whole.users)' ELSE AreScores(whole.scores)'
             /\ job'[t].step \in {"read", "open"} => Keeps(file, job[t])'
  <2>1. ~damaged[file] /\ Busy(file) = {}
    BY <1>2, <1>5
  <2>2. Busy(file)' = {t}
    BY <1>1, <2>1 DEF Busy
  <2>3. Keeps(file, j) => Keeps(file, job[t])'
    BY <1>1 DEF Keeps
  <2> QED BY <1>1, <1>3, <2>1, <2>2, <2>3, FreeIsWhole DEF FilesInv, FileInv
<1>6. FileInv(file)'
  BY <1>5 DEF FileInv
<1> QED BY <1>4, <1>6 DEF FilesInv

\* Who is about to open or to close a file writes it.
LEMMA WhoWrites ==
  ASSUME AreJobs, NEW t \in Threads, job[t].file # "none", job[t].step \in {"read", "open"}
  PROVE  /\ Writing(job[t]) /\ job[t].file \in Files
         /\ job[t] = [doing |-> job[t].doing, with |-> job[t].with, file |-> job[t].file,
                      step |-> job[t].step, text |-> job[t].text]
<1>1. CASE Writing(job[t])
  BY <1>1 DEF Writing, Files
<1>2. CASE Looking(job[t])
  BY <1>2 DEF Looking
<1>3. CASE Waiting(job[t])
  BY <1>3 DEF Waiting
<1> QED BY <1>1, <1>2, <1>3 DEF AreJobs, IsJob

\* A writer empties the file it holds alone.
LEMMA OpenStep ==
  ASSUME TypeInv, FilesInv, NEW t \in Threads, Opens(t)
  PROVE  FilesInv'
<1> DEFINE file == job[t].file
<1>1. /\ file \in Files
      /\ job[t] = [doing |-> job[t].doing, with |-> job[t].with, file |-> file,
                   step |-> "read", text |-> job[t].text]
  BY WhoWrites DEF Opens, TypeInv
<1>2. /\ DOMAIN job = Threads /\ \A u \in Threads \ {t} : job'[u] = job[u]
      /\ job'[t] = [job[t] EXCEPT !.step = "open"]
  BY DEF TypeInv, AreJobs, Opens
<1>3. job'[t] = [doing |-> job[t].doing, with |-> job[t].with, file |-> file,
                 step |-> "open", text |-> job[t].text]
  BY <1>1, <1>2
<1>4. \A other \in Files : Busy(other)' = Busy(other)
  BY <1>1, <1>2, <1>3 DEF Busy
<1>5. ASSUME NEW other \in Files, other # file
      PROVE  FileInv(other)'
  <2>1. Text(other)' = Text(other)
    BY <1>5 DEF Text, Opens, Files
  <2>2. \A u \in Busy(other)' : job'[u] = job[u]
    BY <1>1, <1>2, <1>4, <1>5 DEF Busy
  <2> QED BY <1>4, <2>1, <2>2, FileUntouched DEF FilesInv, Opens
<1>6. ASSUME NEW mine \in Files, mine = file
      PROVE  FileInv(mine)'
  <2> SUFFICES ASSUME ~damaged[mine]
               PROVE  FileInv(mine)'
    BY DEF FileInv, Opens
  <2>1. t \in Busy(mine)
    BY <1>1, <1>6 DEF Busy
  <2>2. Busy(mine) = {t} /\ Keeps(mine, job[t])
    BY <1>1, <2>1 DEF FilesInv, FileInv
  <2>3. Text(mine)' = Torn
    BY <1>1, <1>6 DEF Text, Opens, Files
  <2>4. Keeps(mine, job[t])'
    BY <1>1, <1>3, <2>2 DEF Keeps, Opens, AreAccounts, AreScores
  <2>5. IF mine = "users" THEN AreAccounts(whole.users)' ELSE AreScores(whole.scores)'
    BY DEF FilesInv, FileInv, Opens
  <2> QED BY <1>3, <1>4, <2>2, <2>3, <2>4, <2>5 DEF FileInv
<1> QED BY <1>5, <1>6 DEF FilesInv

\* A writer writes what keeps the rest, and lets go.
LEMMA CloseStep ==
  ASSUME TypeInv, FilesInv, NEW t \in Threads, NEW next, Closes(t, next), next.file = "none"
  PROVE  /\ FilesInv'
         /\ \A file \in Files :
              \/ whole'[file] = whole[file]
              \/ /\ file = job[t].file /\ whole'[file] = job[t].text
                 /\ ~damaged[file] => Keeps(file, job[t])
<1> DEFINE file == job[t].file
<1>1. file \in Files
  BY WhoWrites DEF Closes, TypeInv
<1>2. /\ DOMAIN job = Threads /\ job'[t] = next
      /\ \A u \in Threads \ {t} : job'[u] = job[u]
  BY DEF TypeInv, AreJobs, Closes
<1>3. whole'[file] = job[t].text /\ \A other \in Files : other # file => whole'[other] = whole[other]
  BY <1>1 DEF Closes, TypeInv, Files
<1>4. ASSUME NEW other \in Files, other # file
      PROVE  FileInv(other)'
  <2>1. Text(other)' = Text(other)
    BY <1>4 DEF Text, Closes, Files
  <2>2. Busy(other)' = Busy(other)
    BY <1>1, <1>2, <1>4 DEF Busy, Files
  <2>3. \A u \in Busy(other)' : job'[u] = job[u]
    BY <1>1, <1>2, <1>4, <2>2 DEF Busy
  <2> QED BY <1>3, <1>4, <2>1, <2>2, <2>3, FileUntouched DEF FilesInv, Closes
<1>5. ASSUME NEW mine \in Files, mine = file, ~damaged[mine]
      PROVE  Busy(mine) = {t} /\ Keeps(mine, job[t])
  <2>1. t \in Busy(mine)
    BY <1>1, <1>5 DEF Busy
  <2> QED BY <1>1, <1>5, <2>1 DEF FilesInv, FileInv, Closes
<1>6. ASSUME NEW mine \in Files, mine = file
      PROVE  FileInv(mine)'
  <2> SUFFICES ASSUME ~damaged[mine]
               PROVE  FileInv(mine)'
    BY DEF FileInv, Closes
  <2>1. Busy(mine)' = {}
    BY <1>2, <1>5, <1>6 DEF Busy, Files
  <2>2. Text(mine)' = whole'[mine]
    BY <1>1, <1>3, <1>6 DEF Text, Closes, Files
  <2>3. IF mine = "users" THEN AreAccounts(job[t].text) ELSE AreScores(job[t].text)
    BY <1>5, <1>6 DEF Keeps
  <2>4. IF mine = "users" THEN AreAccounts(whole.users)' ELSE AreScores(whole.scores)'
    BY <1>3, <1>6, <2>3 DEF AreAccounts, AreScores, Files
  <2> QED BY <2>1, <2>2, <2>4 DEF FileInv
<1> QED BY <1>1, <1>3, <1>4, <1>5, <1>6 DEF FilesInv

-----------------------------------------------------------------------------
(* What is written keeps the rest.                                          *)

LEMMA AccountsAre ==
  ASSUME NEW f, AreAccounts(f)
  PROVE  /\ f = [n \in DOMAIN f |-> f[n]] /\ DOMAIN f \in SUBSET Names
         /\ \A n \in DOMAIN f :
              f[n] \in [password : Passwords \cup {None}, banned : BOOLEAN, games : Nat]
  BY DEF AreAccounts, Holds

LEMMA WithAccounts ==
  ASSUME NEW f, AreAccounts(f), NEW n \in Names,
         NEW r \in [password : Passwords \cup {None}, banned : BOOLEAN, games : Nat]
  PROVE  /\ AreAccounts(With(f, n, r)) /\ DOMAIN With(f, n, r) = DOMAIN f \cup {n}
         /\ With(f, n, r)[n] = r /\ \A x \in DOMAIN f \ {n} : With(f, n, r)[x] = f[x]
<1> DEFINE Records == [password : Passwords \cup {None}, banned : BOOLEAN, games : Nat]
<1>1. Holds(f, Names, Records) /\ r \in Records
  BY DEF AreAccounts
<1>2. AreAccounts(With(f, n, r)) <=> Holds(With(f, n, r), Names, Records)
  BY DEF AreAccounts
<1> HIDE DEF Records
<1>3. Holds(With(f, n, r), Names, Records)
  BY <1>1, WithHolds
<1>4. /\ DOMAIN With(f, n, r) = DOMAIN f \cup {n}
      /\ With(f, n, r)[n] = r /\ \A x \in DOMAIN f \ {n} : With(f, n, r)[x] = f[x]
  BY DEF With
<1> QED BY <1>2, <1>3, <1>4

LEMMA RegisterKeeps ==
  ASSUME AreAccounts(whole.users), NEW n \in Names, n \notin DOMAIN whole.users,
         NEW p \in Passwords, NEW j, j.text = With(whole.users, n, Account(p))
  PROVE  Keeps("users", j) /\ n \in DOMAIN j.text
<1>1. Account(p) \in [password : Passwords \cup {None}, banned : BOOLEAN, games : Nat]
  BY DEF Account
<1>2. /\ AreAccounts(j.text) /\ DOMAIN j.text = DOMAIN whole.users \cup {n}
      /\ \A x \in DOMAIN whole.users \ {n} : j.text[x] = whole.users[x]
  BY <1>1, WithAccounts
<1>3. \A x \in DOMAIN whole.users : whole.users[x].games \in Nat
  BY AccountsAre
<1> QED BY <1>2, <1>3 DEF Keeps

LEMMA SetBannedKeeps ==
  ASSUME AreAccounts(whole.users), NEW n \in Names, NEW b \in BOOLEAN, NEW j,
         j.text = SetBanned(whole.users, n, b), j.doing \in {"ban", "unban"}, j.with[1] = n
  PROVE  Keeps("users", j)
<1> DEFINE old == IF n \in DOMAIN whole.users THEN whole.users[n] ELSE Account(None)
           new == [old EXCEPT !.banned = b]
<1>1. old \in [password : Passwords \cup {None}, banned : BOOLEAN, games : Nat]
  BY AccountsAre DEF Account
<1>2. /\ new \in [password : Passwords \cup {None}, banned : BOOLEAN, games : Nat]
      /\ new.password = old.password /\ new.games = old.games
  BY <1>1
<1>3. j.text = With(whole.users, n, new)
  BY DEF SetBanned
<1>4. n \in DOMAIN whole.users => old = whole.users[n]
  OBVIOUS
<1> HIDE DEF old, new
<1>5. /\ AreAccounts(j.text) /\ DOMAIN j.text = DOMAIN whole.users \cup {n} /\ j.text[n] = new
      /\ \A x \in DOMAIN whole.users \ {n} : j.text[x] = whole.users[x]
  BY <1>2, <1>3, WithAccounts
<1>6. \A x \in DOMAIN whole.users : whole.users[x].games \in Nat
  BY AccountsAre
<1> QED BY <1>2, <1>4, <1>5, <1>6 DEF Keeps

LEMMA PlayedKeeps ==
  ASSUME AreAccounts(whole.users), NEW roster, AreMembers(roster), NEW j,
         j.text = Played(whole.users, roster)
  PROVE  Keeps("users", j)
<1> DEFINE count(n) == Cardinality({c \in DOMAIN roster : roster[c] = n})
<1>1. \A n : count(n) \in Nat
  <2>1. DOMAIN roster \subseteq Clients
    BY DEF AreMembers, Holds
  <2>2. \A n : IsFiniteSet({c \in DOMAIN roster : roster[c] = n})
    BY <2>1, FS_Subset, AccountConstants
  <2> QED BY <2>2, FS_CardinalityType
<1>2. j.text = [n \in DOMAIN whole.users |-> [whole.users[n] EXCEPT !.games = @ + count(n)]]
  BY DEF Played
<1> HIDE DEF count
<1>3. ASSUME NEW n \in DOMAIN whole.users
      PROVE  /\ n \in DOMAIN j.text
             /\ j.text[n] \in [password : Passwords \cup {None}, banned : BOOLEAN, games : Nat]
             /\ j.text[n].password = whole.users[n].password
             /\ j.text[n].banned = whole.users[n].banned
             /\ j.text[n].games >= whole.users[n].games
  <2>1. whole.users[n] \in [password : Passwords \cup {None}, banned : BOOLEAN, games : Nat]
    BY AccountsAre
  <2>2. j.text[n] = [whole.users[n] EXCEPT !.games = @ + count(n)]
    BY <1>2
  <2> QED BY <1>1, <1>2, <2>1, <2>2
<1>4. AreAccounts(j.text)
  <2>1. DOMAIN whole.users \in SUBSET Names /\ DOMAIN j.text = DOMAIN whole.users
    BY <1>2, AccountsAre
  <2>2. j.text \in [DOMAIN whole.users ->
                     [password : Passwords \cup {None}, banned : BOOLEAN, games : Nat]]
    BY <1>2, <1>3
  <2> QED BY <2>1, <2>2 DEF AreAccounts, Holds
<1> QED BY <1>3, <1>4 DEF Keeps

LEMMA ScoredKeeps ==
  ASSUME AreScores(whole.scores), NEW members, AreMembers(members),
         NEW players \in SUBSET DOMAIN members, NEW j,
         j.text = Scored(whole.scores, members, players)
  PROVE  Keeps("scores", j)
<1> DEFINE before(n) == IF n \in DOMAIN whole.scores THEN whole.scores[n] ELSE 0
           here(n) == Cardinality({c \in players : members[c] = n})
           known == DOMAIN whole.scores \cup {members[c] : c \in players}
<1>1. \A n : here(n) \in Nat
  <2>1. players \subseteq Clients
    BY DEF AreMembers, Holds
  <2>2. \A n : IsFiniteSet({c \in players : members[c] = n})
    BY <2>1, FS_Subset, AccountConstants
  <2> QED BY <2>2, FS_CardinalityType
<1>2. DOMAIN whole.scores \subseteq Names \cup {None} /\ \A n : before(n) \in Nat
  BY DEF AreScores, Holds
<1>3. known \in SUBSET (Names \cup {None})
  BY <1>2 DEF AreMembers, Holds
<1>4. j.text = [n \in known |-> before(n) + here(n)]
  BY DEF Scored
<1>5. \A n \in DOMAIN whole.scores : n \in known /\ before(n) = whole.scores[n]
  OBVIOUS
<1> HIDE DEF before, here, known
<1>6. j.text \in [known -> Nat]
  BY <1>1, <1>2, <1>4
<1>7. AreScores(j.text)
  BY <1>3, <1>6 DEF AreScores, Holds
<1>8. \A n \in DOMAIN whole.scores : n \in DOMAIN j.text /\ j.text[n] >= whole.scores[n]
  BY <1>1, <1>2, <1>4, <1>5
<1> QED BY <1>7, <1>8 DEF Keeps

-----------------------------------------------------------------------------
(* Every step and the files.                                                *)

\* Letting go of a file that was only looked at.
LEMMA Releases ==
  ASSUME TypeInv, FilesInv, NEW t \in Threads, job' = [job EXCEPT ![t] = Idle],
         job[t].file = "none" \/ job[t].step = "looked",
         UNCHANGED <<users, scores, whole, damaged>>
  PROVE  FilesInv'
<1>1. /\ DOMAIN job = Threads /\ job'[t] = Idle
      /\ \A u \in Threads \ {t} : job'[u] = job[u]
  BY DEF TypeInv, AreJobs
<1>2. ASSUME NEW file \in Files
      PROVE  FileInv(file)'
  <2>1. Busy(file)' = Busy(file) \ {t}
    BY <1>1 DEF Busy, Idle, Files
  <2>2. Text(file)' = Text(file)
    BY DEF Text
  <2>3. ASSUME ~damaged'[file], Text(file) = Torn
        PROVE  Busy(file)' = Busy(file)
    <3>1. /\ \A u, v \in Busy(file) : u = v
          /\ \E u \in Busy(file) : job[u].step = "open"
      BY <2>3, AccountConstants DEF FilesInv, FileInv, Files
    <3>2. t \notin Busy(file)
      BY <3>1 DEF Busy, Files
    <3> QED BY <2>1, <3>2
  <2>4. \A u \in Busy(file)' : job'[u] = job[u]
    BY <1>1, <2>1 DEF Busy
  <2> QED BY <2>1, <2>2, <2>3, <2>4, FileUntouched DEF FilesInv
<1> QED BY <1>2 DEF FilesInv

\* Nothing done to files or jobs.
LEMMA FilesRest ==
  ASSUME FilesInv, UNCHANGED <<users, scores, whole, job>>,
         \A file \in Files : ~damaged'[file] => ~damaged[file]
  PROVE  FilesInv'
<1> SUFFICES ASSUME NEW file \in Files
             PROVE  FileInv(file)'
  BY DEF FilesInv
<1>1. Busy(file)' = Busy(file) /\ Text(file)' = Text(file)
  BY DEF Busy, Text
<1> QED BY <1>1, FileUntouched DEF FilesInv

\* A file that is read is read as it is.
LEMMA ReadWhole ==
  ASSUME FilesInv
  PROVE  /\ ~damaged["users"] /\ Busy("users") = {} =>
              Parsed(users) = whole.users /\ AreAccounts(whole.users)
         /\ ~damaged["scores"] /\ Busy("scores") = {} =>
              Parsed(scores) = whole.scores /\ AreScores(whole.scores)
<1>1. "users" \in Files /\ "scores" \in Files
  BY DEF Files
<1>2. ASSUME ~damaged["users"], Busy("users") = {}
      PROVE  Parsed(users) = whole.users /\ AreAccounts(whole.users)
  <2>1. Parsed(Text("users")) = whole["users"]
    BY <1>1, <1>2, FreeIsWhole DEF FilesInv
  <2> QED BY <1>1, <1>2, <2>1 DEF Text, FilesInv, FileInv
<1>3. ASSUME ~damaged["scores"], Busy("scores") = {}
      PROVE  Parsed(scores) = whole.scores /\ AreScores(whole.scores)
  <2>1. Parsed(Text("scores")) = whole["scores"]
    BY <1>1, <1>3, FreeIsWhole DEF FilesInv
  <2> QED BY <1>1, <1>3, <2>1 DEF Text, FilesInv, FileInv
<1> QED BY <1>2, <1>3

\* A lookup takes the file up, or has no name to look for.
LEMMA LookStep ==
  ASSUME TypeInv, FilesInv, NEW n, NEW task, LooksUp("main", n, task), IsFree("main")
  PROVE  FilesInv'
<1> DEFINE j == [doing |-> task[1], with |-> task[2], step |-> "looked",
                 file |-> IF n = None THEN "none" ELSE "users"]
<1>1. job' = [job EXCEPT !["main"] = j] /\ UNCHANGED <<users, scores, whole>>
  BY DEF LooksUp
<1>2. "main" \in Threads /\ "users" \in Files
  BY DEF Threads, Files
<1>3. CASE n = None
  <2>1. UNCHANGED damaged /\ j.file = "none"
    BY <1>3 DEF LooksUp
  <2>2. /\ \A u \in Threads \ {"main"} : job'[u] = job[u]
        /\ job["main"].file = "none" /\ job'["main"].file = "none"
    BY <1>1, <1>2, <2>1 DEF TypeInv, AreJobs, IsFree, Idle
  <2> SUFFICES ASSUME NEW file \in Files
               PROVE  FileInv(file)'
    BY DEF FilesInv
  <2>3. /\ Busy(file)' = Busy(file) /\ Text(file)' = Text(file)
        /\ \A u \in Busy(file)' : job'[u] = job[u]
    BY <1>1, <2>2 DEF Busy, Text, Files
  <2> QED BY <1>1, <2>1, <2>3, FileUntouched DEF FilesInv
<1>4. CASE n # None
  <2>1. Uses("users") /\ j.file = "users" /\ j.step = "looked"
    BY <1>4 DEF LooksUp
  <2> HIDE DEF j
  <2> QED BY <1>1, <1>2, <2>1, TakeUp
<1> QED BY <1>3, <1>4

\* A read takes the file up with a text that keeps the rest.
LEMMA ReadStep ==
  ASSUME TypeInv, FilesInv, NEW t \in Threads, NEW file \in Files, NEW d, NEW w, NEW text,
         Reads(t, file, <<d, w>>, text), IsFree(t),
         ~damaged[file] /\ Busy(file) = {} =>
           Keeps(file, [doing |-> d, with |-> w, file |-> file, step |-> "read", text |-> text])
  PROVE  FilesInv'
<1> DEFINE j == [doing |-> d, with |-> w, file |-> file, step |-> "read", text |-> text]
<1>1. /\ job' = [job EXCEPT ![t] = j] /\ UNCHANGED <<users, scores, whole>>
      /\ Uses(file) /\ j.file = file /\ j.step = "read"
  BY DEF Reads
<1> HIDE DEF j
<1>2. ~damaged[file] /\ Busy(file) = {} => Keeps(file, j)
  BY DEF j
<1> QED BY <1>1, <1>2, TakeUp

LEMMA FilesStep == TypeInv /\ FilesInv /\ [Next]_vars => FilesInv'
<1> SUFFICES ASSUME TypeInv, FilesInv, [Next]_vars
             PROVE  FilesInv'
  OBVIOUS
<1>1. {"main", "http"} \subseteq Threads /\ Lobbies \subseteq Threads /\ Files = {"users", "scores"}
  BY DEF Threads, Files
<1>2. ASSUME NEW try \in Tries, NEW p \in Passwords, Register(try[1], try[2], p)
      PROVE  FilesInv'
  <2> DEFINE text == With(Parsed(users), try[2], Account(p))
             j == [doing |-> "register", with |-> <<try[1], try[2]>>, file |-> "users",
                   step |-> "read", text |-> text]
  <2>1. /\ Reads("main", "users", <<"register", <<try[1], try[2]>>>>, text) /\ IsFree("main")
        /\ try[2] \notin DOMAIN Parsed(users) /\ try[2] \in Names
    BY <1>2, AccountConstants DEF Register
  <2>2. ASSUME ~damaged["users"], Busy("users") = {}
        PROVE  Keeps("users", j)
    <3>1. Parsed(users) = whole.users /\ AreAccounts(whole.users)
      BY <2>2, ReadWhole
    <3>2. j.text = With(whole.users, try[2], Account(p)) /\ try[2] \notin DOMAIN whole.users
      BY <2>1, <3>1
    <3> HIDE DEF j, text
    <3> QED BY <2>1, <3>1, <3>2, RegisterKeeps
  <2> HIDE DEF text
  <2> QED BY <1>1, <2>1, <2>2, ReadStep
<1>3. ASSUME NEW l \in Lobbies, MasterStart(l)
      PROVE  FilesInv'
  <2> DEFINE text == Played(Parsed(users), lobby[l].roster)
             j == [doing |-> "start", with |-> <<l>>, file |-> "users",
                   step |-> "read", text |-> text]
  <2>1. Reads("main", "users", <<"start", <<l>>>>, text) /\ IsFree("main")
    BY <1>3 DEF MasterStart
  <2>2. ASSUME ~damaged["users"], Busy("users") = {}
        PROVE  Keeps("users", j)
    <3>1. Parsed(users) = whole.users /\ AreAccounts(whole.users) /\ AreMembers(lobby[l].roster)
      BY <2>2, ReadWhole DEF TypeInv, AreLobbies
    <3>2. j.text = Played(whole.users, lobby[l].roster)
      BY <3>1
    <3> HIDE DEF j, text
    <3> QED BY <3>1, <3>2, PlayedKeeps
  <2> HIDE DEF text
  <2> QED BY <1>1, <2>1, <2>2, ReadStep
<1>4. ASSUME NEW n \in Names, NEW b \in BOOLEAN, SaveUserBannedStatus(n, b)
      PROVE  FilesInv'
  <2> DEFINE text == SetBanned(Parsed(users), n, b)
             w == <<n, {c \in Clients : name[c] = n}>>
             d == IF b THEN "ban" ELSE "unban"
             j == [doing |-> d, with |-> w, file |-> "users", step |-> "read", text |-> text]
  <2>1. Reads("http", "users", <<d, w>>, text) /\ IsFree("http")
    BY <1>4 DEF SaveUserBannedStatus
  <2>2. ASSUME ~damaged["users"], Busy("users") = {}
        PROVE  Keeps("users", j)
    <3>1. Parsed(users) = whole.users /\ AreAccounts(whole.users)
      BY <2>2, ReadWhole
    <3>2. j.text = SetBanned(whole.users, n, b) /\ j.doing \in {"ban", "unban"} /\ j.with[1] = n
      BY <3>1
    <3> HIDE DEF j, text, w, d
    <3> QED BY <3>1, <3>2, SetBannedKeeps
  <2> HIDE DEF text, w, d
  <2> QED BY <1>1, <2>1, <2>2, ReadStep
<1>5. ASSUME NEW l \in Lobbies, NEW players \in SUBSET Clients, EndGame(l, players)
      PROVE  FilesInv'
  <2> DEFINE text == Scored(Parsed(scores), lobby[l].members, players)
             j == [doing |-> "end", with |-> <<>>, file |-> "scores",
                   step |-> "read", text |-> text]
  <2>1. /\ Reads(l, "scores", <<"end", <<>>>>, text) /\ IsFree(l)
        /\ players \in SUBSET DOMAIN lobby[l].members
    BY <1>5 DEF EndGame
  <2>2. ASSUME ~damaged["scores"], Busy("scores") = {}
        PROVE  Keeps("scores", j)
    <3>1. Parsed(scores) = whole.scores /\ AreScores(whole.scores) /\ AreMembers(lobby[l].members)
      BY <2>2, ReadWhole DEF TypeInv, AreLobbies
    <3>2. j.text = Scored(whole.scores, lobby[l].members, players)
      BY <3>1
    <3> HIDE DEF j, text
    <3> QED BY <2>1, <3>1, <3>2, ScoredKeeps
  <2> HIDE DEF text
  <2> QED BY <1>1, <2>1, <2>2, ReadStep
<1>6. ASSUME NEW c \in Clients, NEW l \in Lobbies, RequestCode(c, l) \/ ConnectToLobby(c, l)
      PROVE  FilesInv'
  <2>1. CASE RequestCode(c, l)
    BY <2>1, LookStep DEF RequestCode
  <2>2. CASE ConnectToLobby(c, l)
    BY <2>2, LookStep DEF ConnectToLobby
  <2> QED BY <1>6, <2>1, <2>2
<1>7. ASSUME NEW t \in Threads, Opens(t)
      PROVE  FilesInv'
  BY <1>7, OpenStep
<1>8. CASE RegisterEnds
  <2>1. Closes("main", Idle) /\ Idle.file = "none"
    BY <1>8 DEF RegisterEnds, Idle
  <2> QED BY <1>1, <2>1, CloseStep
<1>9. CASE StartsGame
  <2>1. PICK next : Closes("main", next) /\ next.file = "none"
    BY <1>9 DEF StartsGame, Idle
  <2> QED BY <1>1, <2>1, CloseStep
<1>10. CASE BanEnds
  <2>1. PICK next : Closes("http", next) /\ next.file = "none"
    BY <1>10 DEF BanEnds, Idle
  <2> QED BY <1>1, <2>1, CloseStep
<1>11. ASSUME NEW l \in Lobbies, SavesScores(l)
       PROVE  FilesInv'
  <2>1. Closes(l, Idle) /\ Idle.file = "none"
    BY <1>11 DEF SavesScores, Idle
  <2> QED BY <1>1, <2>1, CloseStep
<1>12. ASSUME MakesLobby \/ Joins \/ BannedLeaves
       PROVE  FilesInv'
  <2>1. PICK t \in {"main", "http"} :
          job' = [job EXCEPT ![t] = Idle] /\ job[t].doing \in {"make", "join", "remove"}
    BY <1>12 DEF MakesLobby, Joins, BannedLeaves
  <2>2. IsJob(t, job[t])
    BY <1>1, <2>1 DEF TypeInv, AreJobs
  <2>3. job[t].file = "none" \/ job[t].step = "looked"
    BY <2>1, <2>2 DEF IsJob, Writing, Looking, Waiting
  <2>4. UNCHANGED <<users, scores, whole, damaged>>
    BY <1>12 DEF MakesLobby, Joins, BannedLeaves, FilesStay
  <2> QED BY <1>1, <2>1, <2>3, <2>4, Releases
<1>13. ASSUME \/ \E c \in Clients : LeaveLobby(c) \/ KickPlayer(c) \/ Logout(c)
              \/ \E l \in Lobbies : CleanupClosedLobbies(l) \/ CloseLobby(l)
       PROVE  FilesInv'
  <2>1. UNCHANGED <<users, scores, whole, damaged, job>>
    BY <1>13 DEF LeaveLobby, KickPlayer, Logout, CleanupClosedLobbies, CloseLobby, FilesStay
  <2> QED BY <2>1, FilesRest
<1>14. ASSUME NEW try \in Tries, NEW p \in Passwords, Login(try[1], try[2], p)
       PROVE  FilesInv'
  <2>1. UNCHANGED <<users, scores, whole, job>> /\ Uses("users")
    BY <1>14 DEF Login
  <2>2. \A file \in Files : ~damaged'[file] => ~damaged[file]
    BY <1>1, <2>1 DEF Uses, TypeInv
  <2> QED BY <2>1, <2>2, FilesRest
<1>15. CASE Restart
  <2>1. /\ UNCHANGED <<users, scores, whole>> /\ job' = [t \in Threads |-> Idle]
        /\ damaged' = [users |-> damaged.users \/ users = Torn,
                       scores |-> damaged.scores \/ scores = Torn]
    BY <1>15 DEF Restart
  <2> SUFFICES ASSUME NEW file \in Files
               PROVE  FileInv(file)'
    BY DEF FilesInv
  <2>2. Busy(file)' = {} /\ Text(file)' = Text(file)
    BY <1>1, <2>1 DEF Busy, Idle, Text
  <2>3. ~damaged'[file] => ~damaged[file] /\ Text(file) # Torn
    <3>1. CASE file = "users"
      BY <2>1, <3>1 DEF Text
    <3>2. CASE file = "scores"
      BY <2>1, <3>2 DEF Text
    <3> QED BY <1>1, <3>1, <3>2
  <2> QED BY <2>1, <2>2, <2>3, FileUntouched DEF FilesInv
<1>16. CASE UNCHANGED vars
  <2>1. UNCHANGED <<users, scores, whole, damaged, job>>
    BY <1>16 DEF vars
  <2> QED BY <2>1, FilesRest
<1> QED
  BY <1>2, <1>3, <1>4, <1>5, <1>6, <1>7, <1>8, <1>9, <1>10, <1>11, <1>12, <1>13, <1>14, <1>15,
     <1>16 DEF Next, ExecuteCommand

-----------------------------------------------------------------------------
(* What the files lose.                                                     *)

\* A complete text changes when a thread closes its file, and only then.
LEMMA WhoCloses ==
  ASSUME [Next]_vars
  PROVE  \/ UNCHANGED whole
         \/ \E t \in Threads : \E next : Closes(t, next) /\ next.file = "none"
<1>1. {"main", "http"} \subseteq Threads /\ Lobbies \subseteq Threads
  BY DEF Threads
<1>2. CASE RegisterEnds
  <2>1. Closes("main", Idle) /\ Idle.file = "none"
    BY <1>2 DEF RegisterEnds, Idle
  <2> QED BY <1>1, <2>1
<1>3. CASE StartsGame
  <2>1. \E next : Closes("main", next) /\ next.file = "none"
    BY <1>3 DEF StartsGame, Idle
  <2> QED BY <1>1, <2>1
<1>4. CASE BanEnds
  <2>1. \E next : Closes("http", next) /\ next.file = "none"
    BY <1>4 DEF BanEnds, Idle
  <2> QED BY <1>1, <2>1
<1>5. ASSUME NEW l \in Lobbies, SavesScores(l)
      PROVE  \E t \in Threads : \E next : Closes(t, next) /\ next.file = "none"
  <2>1. Closes(l, Idle) /\ Idle.file = "none"
    BY <1>5 DEF SavesScores, Idle
  <2> QED BY <1>1, <2>1
<1>6. ASSUME \/ \E try \in Tries, p \in Passwords :
                   Register(try[1], try[2], p) \/ Login(try[1], try[2], p)
             \/ MakesLobby \/ Joins \/ BannedLeaves \/ ExecuteCommand \/ Restart
             \/ \E t \in Threads : Opens(t)
             \/ \E c \in Clients : Logout(c) \/ LeaveLobby(c)
             \/ \E c \in Clients, l \in Lobbies : RequestCode(c, l) \/ ConnectToLobby(c, l)
             \/ \E l \in Lobbies :
                  \/ CleanupClosedLobbies(l) \/ MasterStart(l)
                  \/ \E players \in SUBSET Clients : EndGame(l, players)
             \/ UNCHANGED vars
      PROVE  UNCHANGED whole
  BY <1>6 DEF Register, Login, MakesLobby, Joins, BannedLeaves, ExecuteCommand, KickPlayer, CloseLobby,
              SaveUserBannedStatus, Restart, Opens, Logout, LeaveLobby, RequestCode, ConnectToLobby,
              CleanupClosedLobbies, MasterStart, EndGame, Reads, LooksUp, FilesStay, vars
<1> QED BY <1>2, <1>3, <1>4, <1>5, <1>6 DEF Next

\* A file that was damaged stays so.
LEMMA DamageStays ==
  ASSUME TypeInv, [Next]_vars
  PROVE  \A file \in Files : damaged[file] => damaged'[file]
<1>1. ASSUME NEW file \in Files, Uses(file)
      PROVE  \A other \in Files : damaged[other] => damaged'[other]
  BY <1>1 DEF TypeInv, Uses, Files
<1>2. CASE Restart
  <2>1. /\ damaged'["users"] = (damaged.users \/ users = Torn)
        /\ damaged'["scores"] = (damaged.scores \/ scores = Torn)
    BY <1>2 DEF Restart
  <2> QED BY <2>1 DEF Files
<1>3. ASSUME \/ \E try \in Tries, p \in Passwords :
                   Register(try[1], try[2], p) \/ Login(try[1], try[2], p)
             \/ \E n \in Names, b \in BOOLEAN : SaveUserBannedStatus(n, b)
             \/ \E c \in Clients, l \in Lobbies : RequestCode(c, l) \/ ConnectToLobby(c, l)
             \/ \E l \in Lobbies :
                  \/ MasterStart(l)
                  \/ \E players \in SUBSET Clients : EndGame(l, players)
      PROVE  UNCHANGED damaged \/ \E file \in Files : Uses(file)
  BY <1>3 DEF Register, Login, SaveUserBannedStatus, RequestCode, ConnectToLobby, MasterStart,
              EndGame, Reads, LooksUp, Files
<1>4. ASSUME \/ RegisterEnds \/ StartsGame \/ BanEnds \/ MakesLobby \/ Joins \/ BannedLeaves
             \/ \E c \in Clients : KickPlayer(c) \/ Logout(c) \/ LeaveLobby(c)
             \/ \E l \in Lobbies : CloseLobby(l) \/ CleanupClosedLobbies(l) \/ SavesScores(l)
             \/ \E t \in Threads : Opens(t)
             \/ UNCHANGED vars
      PROVE  UNCHANGED damaged
  BY <1>4 DEF RegisterEnds, StartsGame, BanEnds, MakesLobby, Joins, BannedLeaves, KickPlayer,
              CloseLobby, Opens, Logout, LeaveLobby, CleanupClosedLobbies, SavesScores, Closes,
              FilesStay, vars
<1> QED BY <1>1, <1>2, <1>3, <1>4 DEF Next, ExecuteCommand

\* Until a file is damaged each of its complete texts keeps what the one before had.
LEMMA LosesNothing ==
  ASSUME TypeInv, FilesInv, [Next]_vars
  PROVE  /\ ~damaged'.users =>
              \A n \in DOMAIN whole.users :
                /\ n \in DOMAIN whole'.users
                /\ whole'.users[n].password = whole.users[n].password
                /\ whole'.users[n].games >= whole.users[n].games
                /\ whole'.users[n].banned # whole.users[n].banned =>
                     job["http"].doing \in {"ban", "unban"} /\ job["http"].with[1] = n
         /\ ~damaged'.scores =>
              \A n \in DOMAIN whole.scores :
                n \in DOMAIN whole'.scores /\ whole'.scores[n] >= whole.scores[n]
<1>1. /\ ~damaged'.users => ~damaged["users"] /\ AreAccounts(whole.users)
      /\ ~damaged'.scores => ~damaged["scores"] /\ AreScores(whole.scores)
  BY DamageStays DEF Files, FilesInv, FileInv
<1>2. /\ ~damaged'.users => \A n \in DOMAIN whole.users : whole.users[n].games \in Nat
      /\ ~damaged'.scores => \A n \in DOMAIN whole.scores : whole.scores[n] \in Nat
  <2>1. ~damaged'.users => \A n \in DOMAIN whole.users : whole.users[n].games \in Nat
    BY <1>1, AccountsAre
  <2>2. ~damaged'.scores => \A n \in DOMAIN whole.scores : whole.scores[n] \in Nat
    BY <1>1 DEF AreScores, Holds
  <2> QED BY <2>1, <2>2
<1>3. CASE UNCHANGED whole
  BY <1>2, <1>3
<1>4. CASE \E t \in Threads : \E next : Closes(t, next) /\ next.file = "none"
  <2>1. PICK t \in Threads : \E next : Closes(t, next) /\ next.file = "none"
    BY <1>4
  <2>2. \A file \in Files :
          \/ whole'[file] = whole[file]
          \/ whole'[file] = job[t].text /\ (~damaged[file] => Keeps(file, job[t]))
    BY <2>1, CloseStep
  <2>3. job[t].doing \in {"ban", "unban"} => t = "http"
    BY DEF TypeInv, AreJobs, IsJob
  <2>4. /\ \/ whole'["users"] = whole["users"]
           \/ whole'["users"] = job[t].text /\ (~damaged["users"] => Keeps("users", job[t]))
        /\ \/ whole'["scores"] = whole["scores"]
           \/ whole'["scores"] = job[t].text /\ (~damaged["scores"] => Keeps("scores", job[t]))
    BY <2>2 DEF Files
  <2> QED BY <1>1, <1>2, <2>3, <2>4 DEF Keeps
<1> QED BY <1>3, <1>4, WhoCloses

-----------------------------------------------------------------------------
(* Who is logged in.                                                        *)

IsKnown(n) == n = None \/ n \in DOMAIN whole.users

\* The name the main thread registers is not in the file yet.
Registering(j) ==
  j.doing = "register" => j.with[2] \notin DOMAIN whole.users /\ j.with[2] \in DOMAIN j.text

LoginInv ==
  ~damaged["users"] =>
    /\ \A c \in Clients : IsKnown(name[c])
    /\ \A c, d \in Clients : name[c] = name[d] /\ name[c] # None => c = d
    /\ Registering(job["main"])

\* Names and accounts stay, and the main thread goes on or is done.
LEMMA LoginRests ==
  ASSUME LoginInv, name' = name, whole'.users = whole.users,
         ~damaged'["users"] => ~damaged["users"],
         job'["main"].doing # "register" \/ job'["main"] = job["main"]
  PROVE  LoginInv'
  BY DEF LoginInv, Registering, IsKnown

\* A file that is closed keeps its accounts known, and whoever looks at it meanwhile
\* would have damaged it.
LEMMA LoginCloses ==
  ASSUME TypeInv, FilesInv, LoginInv, NEW t \in Threads, NEW next, Closes(t, next),
         next.file = "none", name' = name,
         job'["main"].doing # "register" \/ (job'["main"] = job["main"] /\ t # "main")
  PROVE  LoginInv'
<1>1. damaged' = damaged /\ "users" \in Files
  BY DEF Closes, Files
<1>2. CASE whole'["users"] = whole["users"]
  BY <1>1, <1>2, LoginRests
<1>3. CASE whole'["users"] # whole["users"]
  <2>1. job[t].file = "users" /\ (~damaged["users"] => Keeps("users", job[t]))
        /\ whole'["users"] = job[t].text
    BY <1>1, <1>3, CloseStep
  <2>2. ASSUME ~damaged["users"]
        PROVE  /\ DOMAIN whole.users \subseteq DOMAIN whole'.users
               /\ t # "main" => job["main"].file # "users"
    <3>1. \A u, v \in Busy("users") : u = v
      BY <1>1, <2>2 DEF FilesInv, FileInv
    <3>2. t \in Busy("users")
      BY <2>1 DEF Busy
    <3>3. t # "main" => job["main"].file # "users"
      BY <3>1, <3>2 DEF Busy, Threads
    <3> QED BY <2>1, <2>2, <3>3 DEF Keeps
  <2>3. CASE job'["main"].doing # "register"
    BY <1>1, <2>2, <2>3 DEF LoginInv, Registering, IsKnown
  <2>4. CASE job'["main"] = job["main"] /\ t # "main"
    <3>1. ASSUME ~damaged["users"]
          PROVE  job["main"].doing # "register"
      <4>1. IsJob("main", job["main"])
        BY DEF TypeInv, AreJobs, Threads
      <4> QED BY <2>2, <2>4, <3>1, <4>1 DEF IsJob, Writing, Looking, Waiting
    <3> QED BY <1>1, <2>2, <2>4, <3>1 DEF LoginInv, Registering, IsKnown
  <2> QED BY <2>3, <2>4
<1> QED BY <1>2, <1>3

\* A name that is free in the file is taken, and then its client's.
LEMMA LoginRegisters ==
  ASSUME TypeInv, FilesInv, LoginInv, NEW c, NEW n \in Names, NEW p, Register(c, n, p)
  PROVE  LoginInv'
<1> DEFINE text == With(Parsed(users), n, Account(p))
           j == [doing |-> "register", with |-> <<c, n>>, file |-> "users",
                 step |-> "read", text |-> text]
<1>1. /\ job'["main"] = j /\ UNCHANGED <<name, whole>> /\ Uses("users")
      /\ n \notin DOMAIN Parsed(users) /\ n \in DOMAIN text
  BY DEF Register, Reads, TypeInv, AreJobs, Threads, With
<1>2. j.doing = "register" /\ j.with[2] = n /\ j.text = text
  OBVIOUS
<1> HIDE DEF j, text
<1>3. ASSUME ~damaged'["users"]
      PROVE  ~damaged["users"] /\ n \notin DOMAIN whole.users
  <2>1. ~damaged["users"] /\ Busy("users") = {}
    BY <1>1, <1>3 DEF Uses, TypeInv
  <2> QED BY <1>1, <2>1, ReadWhole
<1> QED BY <1>1, <1>2, <1>3 DEF LoginInv, Registering, IsKnown

LEMMA LoginRegistered ==
  ASSUME TypeInv, FilesInv, LoginInv, RegisterEnds
  PROVE  LoginInv'
<1>1. PICK c, n : c = job["main"].with[1] /\ n = job["main"].with[2]
  OBVIOUS
<1>2. c \in Clients /\ n \in Names
  BY <1>1, WhoIsServed DEF RegisterEnds, TypeInv
<1>3. /\ Closes("main", Idle) /\ Idle.file = "none" /\ "main" \in Threads
      /\ name' = [name EXCEPT ![c] = n] /\ job["main"].doing = "register"
  BY <1>1 DEF RegisterEnds, Idle, Threads
<1>4. job'["main"].doing = "nothing" /\ damaged' = damaged
  BY <1>3 DEF Closes, TypeInv, AreJobs, Idle
<1>5. job["main"].file = "users"
  <2>1. Writing(job["main"])
    BY <1>3, WhoWrites DEF Closes, TypeInv
  <2> QED BY <1>3, <2>1 DEF Writing
<1>6. whole'.users = job["main"].text
  BY <1>3, <1>5 DEF Closes, TypeInv
<1>7. ASSUME ~damaged["users"]
      PROVE  /\ \A d \in Clients : IsKnown(name[d])'
             /\ \A d, e \in Clients : name'[d] = name'[e] /\ name'[d] # None => d = e
  <2>1. n \notin DOMAIN whole.users /\ n \in DOMAIN job["main"].text
    BY <1>1, <1>3, <1>7 DEF LoginInv, Registering
  <2>2. DOMAIN whole.users \subseteq DOMAIN job["main"].text
    <3>1. "main" \in Busy("users") /\ FileInv("users") /\ job["main"].step = "open"
      BY <1>3, <1>5 DEF Busy, FilesInv, Files, Closes
    <3> QED BY <1>7, <3>1 DEF FileInv, Keeps
  <2>3. \A d \in Clients : name[d] = None \/ name[d] \in DOMAIN whole.users
    BY <1>7 DEF LoginInv, IsKnown
  <2>4. n # None /\ \A d \in Clients : name'[d] = IF d = c THEN n ELSE name[d]
    BY <1>2, <1>3, AccountConstants DEF TypeInv
  <2>5. \A d \in Clients : IsKnown(name[d])'
    BY <1>6, <2>1, <2>2, <2>3, <2>4 DEF IsKnown
  <2>6. \A d, e \in Clients : name[d] = name[e] /\ name[d] # None => d = e
    BY <1>7 DEF LoginInv
  <2> QED BY <2>1, <2>3, <2>4, <2>5, <2>6
<1> QED BY <1>4, <1>7 DEF LoginInv, Registering

\* The table is looked at before the name is taken from the file.
LEMMA LoginLogsIn ==
  ASSUME TypeInv, FilesInv, LoginInv, NEW c \in Clients,
         (\E n \in Names, p \in Passwords : Login(c, n, p)) \/ Logout(c)
  PROVE  LoginInv'
<1>1. job["main"].doing = "nothing" /\ UNCHANGED <<job, whole>>
  BY DEF Login, Logout, FilesStay, IsFree, Idle
<1>2. CASE Logout(c)
  <2>1. damaged' = damaged /\ name' = [name EXCEPT ![c] = None]
    BY <1>2 DEF Logout, FilesStay
  <2> QED BY <1>1, <2>1 DEF TypeInv, LoginInv, Registering, IsKnown
<1>3. ASSUME NEW n \in Names, NEW p \in Passwords, Login(c, n, p)
      PROVE  LoginInv'
  <2>1. /\ name' = [name EXCEPT ![c] = n] /\ \A d \in Clients : name[d] # n
        /\ n \in DOMAIN Parsed(users) /\ Uses("users")
    BY <1>3 DEF Login, LoggedIn
  <2>2. ASSUME ~damaged'["users"]
        PROVE  ~damaged["users"] /\ n \in DOMAIN whole.users
    <3>1. ~damaged["users"] /\ Busy("users") = {}
      BY <2>1, <2>2 DEF Uses, TypeInv
    <3> QED BY <2>1, <3>1, ReadWhole
  <2> QED BY <1>1, <2>1, <2>2 DEF TypeInv, LoginInv, Registering, IsKnown
<1> QED BY <1>2, <1>3

\* The main thread's own write begins.
LEMMA LoginOpens ==
  ASSUME TypeInv, LoginInv, NEW t \in Threads, Opens(t)
  PROVE  LoginInv'
<1>1. /\ UNCHANGED <<name, whole, damaged>>
      /\ t # "main" => job'["main"] = job["main"]
  BY DEF Opens, TypeInv, AreJobs, Threads
<1>2. CASE t # "main"
  BY <1>1, <1>2, LoginRests
<1>3. CASE t = "main"
  <2>1. Writing(job["main"])
    BY <1>3, WhoWrites DEF Opens, TypeInv
  <2>2. /\ job'["main"].doing = job["main"].doing /\ job'["main"].with = job["main"].with
        /\ job'["main"].text = job["main"].text
    BY <1>3, <2>1 DEF Opens, Writing, TypeInv, AreJobs
  <2> QED BY <1>1, <2>2 DEF LoginInv, Registering, IsKnown
<1> QED BY <1>2, <1>3

LEMMA LoginStep == TypeInv /\ FilesInv /\ LoginInv /\ [Next]_vars => LoginInv'
<1> SUFFICES ASSUME TypeInv, FilesInv, LoginInv, [Next]_vars
             PROVE  LoginInv'
  OBVIOUS
<1>1. /\ {"main", "http"} \subseteq Threads /\ Lobbies \subseteq Threads
      /\ ~damaged'["users"] => ~damaged["users"]
  BY DamageStays DEF Threads, Files
<1>2. ASSUME NEW try \in Tries, NEW p \in Passwords,
             Register(try[1], try[2], p) \/ Login(try[1], try[2], p)
      PROVE  LoginInv'
  <2>1. try[1] \in Clients /\ try[2] \in Names
    BY AccountConstants
  <2> QED BY <1>2, <2>1, LoginRegisters, LoginLogsIn
<1>3. ASSUME NEW c \in Clients, Logout(c)
      PROVE  LoginInv'
  BY <1>3, LoginLogsIn
<1>4. ASSUME NEW c \in Clients, NEW l \in Lobbies, RequestCode(c, l) \/ ConnectToLobby(c, l)
      PROVE  LoginInv'
  <2>1. UNCHANGED <<name, whole>>
    BY <1>4 DEF RequestCode, ConnectToLobby, LooksUp
  <2>2. job'["main"].doing # "register"
    BY <1>1, <1>4 DEF RequestCode, ConnectToLobby, LooksUp, TypeInv, AreJobs
  <2> QED BY <1>1, <2>1, <2>2, LoginRests
<1>5. ASSUME NEW t \in Threads, Opens(t)
      PROVE  LoginInv'
  BY <1>5, LoginOpens
<1>6. CASE RegisterEnds
  BY <1>6, LoginRegistered
<1>7. CASE StartsGame
  <2>1. PICK next : Closes("main", next) /\ next \in {Idle, [Idle EXCEPT !.doing = "terminate"]}
    BY <1>7 DEF StartsGame
  <2>2. next.file = "none" /\ next.doing \in {"nothing", "terminate"}
    BY <2>1 DEF Idle
  <2>3. job'["main"].doing # "register" /\ name' = name
    BY <1>1, <1>7, <2>1, <2>2 DEF Closes, TypeInv, AreJobs, StartsGame
  <2> QED BY <1>1, <2>1, <2>2, <2>3, LoginCloses
<1>8. CASE BanEnds
  <2>1. PICK next : Closes("http", next) /\ next.file = "none"
    BY <1>8 DEF BanEnds, Idle
  <2>2. name' = name /\ job'["main"] = job["main"]
    BY <1>1, <1>8, <2>1 DEF BanEnds, Closes, TypeInv, AreJobs
  <2> QED BY <1>1, <2>1, <2>2, LoginCloses
<1>9. ASSUME NEW l \in Lobbies, SavesScores(l)
      PROVE  LoginInv'
  <2>1. Closes(l, Idle) /\ Idle.file = "none" /\ name' = name
    BY <1>9 DEF SavesScores, Idle
  <2>3. CASE l = "main"
    <3>1. job'["main"].doing # "register"
      BY <1>1, <2>1, <2>3 DEF Closes, TypeInv, AreJobs, Idle
    <3> QED BY <1>1, <2>1, <3>1, LoginCloses
  <2>4. CASE l # "main"
    <3>1. job'["main"] = job["main"]
      BY <1>1, <2>1, <2>4 DEF Closes, TypeInv, AreJobs
    <3> QED BY <1>1, <2>1, <2>4, <3>1, LoginCloses
  <2> QED BY <2>3, <2>4
<1>10. ASSUME \/ MakesLobby \/ Joins \/ Restart
              \/ \E c \in Clients : LeaveLobby(c)
              \/ \E l \in Lobbies : MasterStart(l) \/ CleanupClosedLobbies(l)
       PROVE  job'["main"].doing # "register" /\ UNCHANGED whole
  <2>1. CASE MakesLobby \/ Joins
    BY <1>1, <2>1 DEF MakesLobby, Joins, FilesStay, TypeInv, AreJobs, Idle
  <2>2. CASE Restart
    BY <1>1, <2>2 DEF Restart, Idle
  <2>3. CASE \E c \in Clients : LeaveLobby(c)
    BY <2>3 DEF LeaveLobby, FilesStay, IsFree, Idle
  <2>4. ASSUME NEW l \in Lobbies, MasterStart(l)
        PROVE  job'["main"].doing = "start" /\ UNCHANGED whole
    BY <1>1, <2>4 DEF MasterStart, Reads, TypeInv, AreJobs
  <2>5. ASSUME NEW l \in Lobbies, CleanupClosedLobbies(l)
        PROVE  job'["main"].doing = "nothing" /\ UNCHANGED whole
    BY <2>5 DEF CleanupClosedLobbies, FilesStay, IsFree, Idle
  <2> QED BY <1>10, <2>1, <2>2, <2>3, <2>4, <2>5
<1>11. ASSUME \/ MakesLobby \/ Joins
              \/ \E c \in Clients : LeaveLobby(c)
              \/ \E l \in Lobbies : MasterStart(l) \/ CleanupClosedLobbies(l)
       PROVE  LoginInv'
  <2>1. name' = name
    BY <1>11 DEF MakesLobby, Joins, LeaveLobby, MasterStart, CleanupClosedLobbies
  <2> QED BY <1>1, <1>10, <1>11, <2>1, LoginRests
<1>12. CASE Restart
  <2>1. \A c \in Clients : name'[c] = None
    BY <1>12 DEF Restart
  <2> QED BY <1>10, <1>12, <2>1 DEF LoginInv, Registering, IsKnown
<1>13. ASSUME \/ BannedLeaves
              \/ \E c \in Clients : KickPlayer(c)
       PROVE  LoginInv'
  <2>1. UNCHANGED <<name, whole>> /\ job'["main"] = job["main"]
    BY <1>1, <1>13 DEF BannedLeaves, KickPlayer, FilesStay, TypeInv, AreJobs
  <2> QED BY <1>1, <2>1, LoginRests
<1>14. ASSUME NEW l \in Lobbies, CloseLobby(l)
       PROVE  LoginInv'
  <2>1. UNCHANGED <<name, whole, job>>
    BY <1>14 DEF CloseLobby, FilesStay
  <2> QED BY <1>1, <2>1, LoginRests
<1>15. ASSUME NEW n \in Names, NEW b \in BOOLEAN, SaveUserBannedStatus(n, b)
       PROVE  LoginInv'
  <2>1. UNCHANGED <<name, whole>> /\ job'["main"] = job["main"]
    BY <1>1, <1>15 DEF SaveUserBannedStatus, Reads, TypeInv, AreJobs
  <2> QED BY <1>1, <2>1, LoginRests
<1>16. ASSUME NEW l \in Lobbies, NEW players \in SUBSET Clients, EndGame(l, players)
       PROVE  LoginInv'
  <2>1. /\ UNCHANGED <<name, whole>>
        /\ job'["main"] = job["main"] \/ job'["main"].doing = "end"
    BY <1>1, <1>16 DEF EndGame, Reads, TypeInv, AreJobs
  <2> QED BY <1>1, <2>1, LoginRests
<1>17. CASE UNCHANGED vars
  BY <1>1, <1>17, LoginRests DEF vars
<1> QED
  BY <1>2, <1>3, <1>4, <1>5, <1>6, <1>7, <1>8, <1>9, <1>11, <1>12, <1>13, <1>14, <1>15, <1>16,
     <1>17 DEF Next, ExecuteCommand

-----------------------------------------------------------------------------
(* The theorems.                                                            *)

LEMMA AccountsInit == Init => TypeInv /\ FilesInv /\ LoginInv
<1> SUFFICES ASSUME Init
             PROVE  TypeInv /\ FilesInv /\ LoginInv
  OBVIOUS
<1>1. /\ \A t \in Threads : job[t] = Idle
      /\ whole.users = Initial /\ whole.scores = Nobody
  BY DEF Init
<1>2. TypeInv
  <2>1. AreLobbies
    BY NobodyHolds DEF Init, AreLobbies, AreMembers
  <2>2. AreJobs
    BY <1>1, IdleIsJob DEF Init, AreJobs
  <2> QED BY <2>1, <2>2 DEF Init, TypeInv
<1>3. FilesInv
  <2>1. \A file \in Files : Busy(file) = {} /\ Text(file) = whole[file]
    BY <1>1 DEF Init, Files, Busy, Text, Idle
  <2>2. AreAccounts(whole.users) /\ AreScores(whole.scores)
    BY <1>1, AccountConstants, NobodyHolds DEF AreScores
  <2> QED BY <2>1, <2>2 DEF FilesInv, FileInv
<1>4. LoginInv
  <2>1. job["main"].doing = "nothing" /\ \A c \in Clients : name[c] = None
    BY <1>1 DEF Init, Idle, Threads
  <2> QED BY <2>1 DEF LoginInv, Registering, IsKnown
<1> QED BY <1>2, <1>3, <1>4

AccountsInv == TypeInv /\ FilesInv /\ LoginInv

LEMMA AccountsInvariant == Spec => []AccountsInv
<1>1. Init => AccountsInv
  BY AccountsInit DEF AccountsInv
<1>2. AccountsInv /\ [Next]_vars => AccountsInv'
  BY TypeStep, FilesStep, LoginStep DEF AccountsInv
<1> QED BY <1>1, <1>2, PTL DEF Spec

\* Unless users.json was used by two threads at once or left empty by a stop, no two
\* clients are logged in under one name: what login finds in the table and registration
\* in the file agree.
THEOREM OneLoginHolds == Spec => []OneLogin
<1>1. AccountsInv => OneLogin
  BY DEF AccountsInv, LoginInv, OneLogin
<1> QED BY <1>1, AccountsInvariant, PTL

\* No read, change and write of either file loses an account, a password, a game played,
\* a ban or a score, as long as nobody else uses the file meanwhile and no stop comes
\* between emptying and filling it.
THEOREM FilesKeep == Spec => FilesLoseNothing
<1>1. AccountsInv /\ [Next]_vars =>
        [ /\ ~damaged'.users =>
               \A n \in DOMAIN whole.users :
                 /\ n \in DOMAIN whole'.users
                 /\ whole'.users[n].password = whole.users[n].password
                 /\ whole'.users[n].games >= whole.users[n].games
                 /\ whole'.users[n].banned # whole.users[n].banned =>
                      job["http"].doing \in {"ban", "unban"} /\ job["http"].with[1] = n
          /\ ~damaged'.scores =>
               \A n \in DOMAIN whole.scores :
                 n \in DOMAIN whole'.scores /\ whole'.scores[n] >= whole.scores[n] ]_vars
  BY LosesNothing DEF AccountsInv
<1> QED BY <1>1, AccountsInvariant, PTL DEF Spec, FilesLoseNothing
=============================================================================
