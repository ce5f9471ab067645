------------------------- MODULE ClientScreensProofs -------------------------
(***************************************************************************)
(* Proofs about ClientScreens for any pages and bounds: as long as no two    *)
(* requests cross, the client and the server agree on who is in the lobby    *)
(* once everything sent has been read, and no start of a game is ignored.    *)
(*                                                                         *)
(* The invariant follows the conversation.  The packets under way to the    *)
(* client lead from what it has heard of a lobby to what the server has     *)
(* said, one phase each; the screens it shows, or is about to show, go with *)
(* the phase it has heard.                                                  *)
(***************************************************************************)
EXTENDS ClientScreens, TLAPS

-----------------------------------------------------------------------------
(* The conversation.                                                        *)

\* What the server has told a client of a lobby: nothing, or that it is out; the code
\* of a lobby opened for it; that it is in; that the game has started.
Phases == {"out", "coded", "in", "started"}

\* How a packet changes what the client was told.
Tells(p, was, is) ==
  \/ p = "code" /\ is = IF was = "out" THEN "coded" ELSE was
  \/ p = "joined" /\ is = IF was = "started" THEN was ELSE "in"
  \/ p = "refused" /\ was = "out" /\ is = was
  \/ p = "canStart" /\ was = "in" /\ is = "started"
  \/ p \in {"levelComplete", "nextLevel", "endGame"} /\ was \in {"in", "started"} /\ is = was
  \/ p \in {"ackLeave", "forceLeave"} /\ was \in {"in", "started"} /\ is = "out"
  \/ p \in {"accept", "connectUser", "registerFail"} /\ is = was

\* The phases the packets of d go through: after an ackLeave the client stays out, and
\* it is in the lobby whose code it has heard from a joined on.
Through(d, phases) ==
  /\ phases \in [1 .. (Len(d) + 1) -> Phases]
  /\ \A i \in DOMAIN d : Tells(d[i], phases[i], phases[i + 1])
  /\ \A i \in DOMAIN d : d[i] = "ackLeave" =>
       \A j \in DOMAIN phases : j > i => phases[j] = "out"
  /\ phases[Len(d) + 1] # "coded" =>
       \A i \in DOMAIN d : phases[i] = "coded" => \E j \in DOMAIN d : j >= i /\ d[j] = "joined"

\* The packets of d lead from one phase to another, and if quiet is true they never
\* mention a lobby.
Leads(d, from, to, quiet) ==
  \E phases \in [1 .. (Len(d) + 1) -> Phases] :
    /\ Through(d, phases)
    /\ phases[1] = from /\ phases[Len(d) + 1] = to
    /\ quiet => \A i \in DOMAIN phases : phases[i] = "out"

\* A packet of the set S is in the queue q.
Sent(S, q) == \E i \in DOMAIN q : q[i] \in S

\* All packets of S in q are in front of every p.
Precede(S, p, q) == \A i, j \in DOMAIN q : q[i] = p /\ q[j] \in S => j < i

Questions == {"request", "connect"}
Welcomes  == {"code", "joined"}

\* No question is behind a leave, and none is under way with its acknowledgement.
Ordered ==
  /\ Precede(Questions, "leave", up) /\ Precede(Welcomes, "ackLeave", down)
  /\ Sent(Questions, up) => ~ shouldDisconnect /\ ~ Sent({"ackLeave"}, down)
  /\ Sent(Welcomes, down) => ~ shouldDisconnect

\* What the client believes when it has heard phase, ...
ClientHas(phase) ==
  /\ phase = "out" => shouldDisconnect \/ (~ believes.in /\ ~ believes.ready)
  /\ phase # "out" => ~ shouldDisconnect
  /\ phase \in {"coded", "in"} => ~ believes.ready
  /\ phase = "coded" /\ believes.in => believes.master

\* ... and how it is in the lobby when the server has told it phase.
ServerHas(phase) ==
  /\ member <=> phase \in {"in", "started"}
  /\ phase # "out" => lobby # "none"
  /\ phase = "started" => lobby # "waiting"

-----------------------------------------------------------------------------
(* The screens.                                                             *)

\* Screens that come and go over another one.
Passing == Closable \ {"pause"}

\* The topmost screen of st that is not passing is s.
Base(st, s) ==
  \E i \in DOMAIN st :
    st[i].screen = s /\ \A j \in DOMAIN st : j > i => st[j].screen \in Passing

\* The frame will change to s.
Pending(s) == change = s /\ frame # "forget"

\* The client is, or will be, outside of all lobbies.
Home ==
  \/ \E s \in {"splash", "connection", "menu", "forceLeave"} : Base(stack, s)
  \/ \E s \in {"menu", "forceLeave"} : Pending(s)

\* Where the requests of a frame come from.
Stacked ==
  /\ stack # <<>> /\ stack[1].screen \notin Closable
  /\ \A i \in DOMAIN stack :
       stack[i].screen = "pause" => i > 1 /\ stack[i - 1].screen = "game"
  /\ push # None => frame \in {"change", "forget"} /\ push \in Closable \cup {"menu"}
  /\ push = "pause" /\ change = None => Top = "game"
  /\ push = "menu" /\ change = None => Top = "connection"
  /\ change \notin Closable \cup {"splash"}
  /\ change \in {"menu", "hosting", "guest"} => frame \in {"change", "forget"}
  /\ Pending("connection") => Top = "splash"
  /\ Pending("hosting") \/ Pending("guest") => Top = "menu"

Believing ==
  /\ believes.master => believes.in /\ believes.code
  /\ Pending("hosting") => believes.code

\* The screens go with the phase the client has heard last, and with what is under way.
Shown(from, quiet) ==
  /\ shouldDisconnect => quiet
  /\ from = "out" => shouldDisconnect \/ Home
  /\ from = "coded" =>
       Home \/ Pending("hosting") \/ Sent({"connect"}, up) \/ Sent({"joined"}, down)
  /\ Pending("hosting") => from # "out" \/ shouldDisconnect
  /\ (\E s \in {"guest", "game", "levelComplete", "results"} : Pending(s)) =>
       from \in {"in", "started"} \/ shouldDisconnect
  /\ Pending("menu") =>
       /\ ~ shouldDisconnect /\ ~ Sent({"ackLeave"}, down)
       /\ ~ Sent({"leave"}, up) \/ (quiet /\ ~ Sent(Questions, up))
  /\ Base(stack, "splash") \/ Base(stack, "connection") =>
       quiet /\ ~ Sent(Questions \cup {"leave"}, up) /\ ~ shouldDisconnect
  /\ Base(stack, "forceLeave") => ~ Sent({"leave"}, up) /\ ~ Sent({"ackLeave"}, down)
  /\ Base(stack, "menu") =>
       ~ Sent({"leave"}, up) /\ ~ Sent({"ackLeave"}, down) /\ ~ shouldDisconnect

Conversing(from, to, quiet) ==
  Leads(down, from, to, quiet) /\ ClientHas(from) /\ ServerHas(to) /\ Shown(from, quiet)

-----------------------------------------------------------------------------
(* Types.                                                                   *)

ToServer == {"connection", "request", "connect", "leave", "start", "leaderboard", "logout",
             "login", "register"}
ToClient == {"accept", "code", "joined", "refused", "canStart", "ackLeave", "forceLeave",
             "levelComplete", "nextLevel", "endGame", "connectUser", "registerFail"}
OneScreen == [screen : Screens, sawLobby : BOOLEAN, sawMaster : BOOLEAN]
Beliefs == [in : BOOLEAN, master : BOOLEAN, code : BOOLEAN, ready : BOOLEAN]

TypeOK ==
  /\ stack \in Seq(OneScreen)
  /\ change \in Screens \cup {None} /\ push \in Screens \cup {None} /\ pop \in BOOLEAN
  /\ frame \in {"update", "change", "forget", "pop"}
  /\ connected \in BOOLEAN /\ wasConnected \in BOOLEAN /\ named \in BOOLEAN
  /\ expecting \subseteq {"login", "register"}
  /\ believes \in Beliefs /\ justLeft \in BOOLEAN /\ shouldDisconnect \in BOOLEAN
  /\ up \in Seq(ToServer) /\ down \in Seq(ToClient)
  /\ lobby \in {"none", "waiting", "playing", "between", "over"} /\ member \in BOOLEAN
  /\ crossed \in BOOLEAN

Agreed ==
  /\ Stacked /\ Believing /\ Ordered
  /\ \E from, to \in Phases, quiet \in BOOLEAN : Conversing(from, to, quiet)

ScreensInv == TypeOK /\ (~ crossed => Agreed)

-----------------------------------------------------------------------------
(* Queues.                                                                  *)

\* What a longer queue holds ...
LEMMA AppendSends ==
  ASSUME NEW P, NEW q \in Seq(P), NEW x \in P
  PROVE  /\ Append(q, x) \in Seq(P)
         /\ \A S : Sent(S, Append(q, x)) <=> Sent(S, q) \/ x \in S
<1>1. /\ Append(q, x) \in Seq(P) /\ Len(Append(q, x)) = Len(q) + 1
      /\ Append(q, x)[Len(q) + 1] = x
      /\ \A i \in DOMAIN q : Append(q, x)[i] = q[i]
      /\ Len(q) \in Nat /\ DOMAIN q = 1 .. Len(q)
      /\ DOMAIN Append(q, x) = 1 .. (Len(q) + 1)
  OBVIOUS
<1> DEFINE r == Append(q, x)
<1>2. DOMAIN r = DOMAIN q \cup {Len(q) + 1}
  BY <1>1
<1> HIDE DEF r
<1>3. ASSUME NEW S
      PROVE  Sent(S, r) <=> Sent(S, q) \/ x \in S
  BY <1>1, <1>2 DEF Sent, r
<1> QED BY <1>1, <1>3 DEF r

\* ... and one without its head.
LEMMA TailSends ==
  ASSUME NEW P, NEW q \in Seq(P), q # <<>>
  PROVE  /\ Tail(q) \in Seq(P) /\ Head(q) \in P
         /\ \A S : Sent(S, q) <=> Sent(S, Tail(q)) \/ Head(q) \in S
<1>1. /\ Tail(q) \in Seq(P) /\ Len(Tail(q)) = Len(q) - 1 /\ Head(q) = q[1] /\ Head(q) \in P
      /\ \A i \in 1 .. (Len(q) - 1) : Tail(q)[i] = q[i + 1]
      /\ Len(q) \in Nat \ {0} /\ DOMAIN q = 1 .. Len(q)
      /\ DOMAIN Tail(q) = 1 .. (Len(q) - 1)
  OBVIOUS
<1> DEFINE t == Tail(q)
<1> HIDE DEF t
<1>2. ASSUME NEW S, Sent(S, q)
      PROVE  Sent(S, t) \/ Head(q) \in S
  <2>1. PICK i \in DOMAIN q : q[i] \in S
    BY <1>2 DEF Sent
  <2>2. CASE i = 1
    BY <1>1, <2>1, <2>2
  <2>3. CASE i # 1
    <3>1. i - 1 \in 1 .. (Len(q) - 1) /\ (i - 1) + 1 = i
      BY <1>1, <2>3
    <3>2. t[i - 1] = q[i] /\ i - 1 \in DOMAIN t
      BY <1>1, <3>1 DEF t
    <3> QED BY <2>1, <3>2 DEF Sent
  <2> QED BY <2>2, <2>3
<1>3. ASSUME NEW S, Sent(S, t)
      PROVE  Sent(S, q)
  <2>1. PICK i \in DOMAIN t : t[i] \in S
    BY <1>3 DEF Sent
  <2>2. i + 1 \in DOMAIN q /\ t[i] = q[i + 1]
    BY <1>1, <2>1 DEF t
  <2> QED BY <2>1, <2>2 DEF Sent
<1>4. ASSUME NEW S, Head(q) \in S
      PROVE  Sent(S, q)
  BY <1>1, <1>4 DEF Sent
<1> QED BY <1>1, <1>2, <1>3, <1>4 DEF t

\* The order in a queue stays when nothing of S is put behind a p ...
LEMMA AppendPrecedes ==
  ASSUME NEW P, NEW q \in Seq(P), NEW x \in P, NEW S, NEW p, p \notin S,
         Precede(S, p, q), x \in S => ~ Sent({p}, q)
  PROVE  Precede(S, p, Append(q, x))
<1> DEFINE r == Append(q, x)
<1>1. /\ r[Len(q) + 1] = x /\ Len(q) \in Nat /\ DOMAIN q = 1 .. Len(q)
      /\ \A i \in DOMAIN q : r[i] = q[i]
      /\ DOMAIN r = 1 .. (Len(q) + 1)
  OBVIOUS
<1> HIDE DEF r
<1>2. ASSUME NEW i \in DOMAIN r, NEW j \in DOMAIN r, r[i] = p, r[j] \in S
      PROVE  j < i
  <2>1. CASE i \in DOMAIN q /\ j \in DOMAIN q
    BY <1>1, <1>2, <2>1 DEF Precede
  <2>2. CASE i = Len(q) + 1
    <3>1. j # i
      BY <1>2
    <3> QED BY <1>1, <2>2, <3>1
  <2>3. CASE i \in DOMAIN q /\ j = Len(q) + 1
    BY <1>1, <1>2, <2>3 DEF Sent
  <2> QED BY <1>1, <2>1, <2>2, <2>3
<1> QED BY <1>2 DEF Precede, r

\* ... and when the head is taken off, behind which nothing of S is if it is p.
LEMMA TailPrecedes ==
  ASSUME NEW P, NEW q \in Seq(P), q # <<>>, NEW S, NEW p, Precede(S, p, q)
  PROVE  Precede(S, p, Tail(q)) /\ (Head(q) = p => ~ Sent(S, q))
<1> DEFINE t == Tail(q)
<1>1. /\ Head(q) = q[1] /\ 1 \in DOMAIN q /\ DOMAIN q \subseteq Nat \ {0}
      /\ DOMAIN t \subseteq Nat
      /\ \A i \in DOMAIN t : i + 1 \in DOMAIN q /\ t[i] = q[i + 1]
  OBVIOUS
<1> HIDE DEF t
<1>2. ASSUME NEW i \in DOMAIN t, NEW j \in DOMAIN t, t[i] = p, t[j] \in S
      PROVE  j < i
  <2>1. j + 1 < i + 1
    BY <1>1, <1>2 DEF Precede
  <2> QED BY <1>1, <2>1
<1>3. ASSUME Head(q) = p, NEW j \in DOMAIN q, q[j] \in S
      PROVE  FALSE
  <2>1. j < 1
    BY <1>1, <1>3 DEF Precede
  <2> QED BY <1>1, <2>1
<1> QED BY <1>2, <1>3 DEF Precede, Sent, t

-----------------------------------------------------------------------------
(* What the packets on their way say.                                       *)

\* Without packets nothing changes.
LEMMA LeadsNowhere ==
  ASSUME NEW from, NEW to, NEW quiet, Leads(<<>>, from, to, quiet)
  PROVE  from = to
BY DEF Leads

\* The phases at both ends, and that nobody is told anything when it is quiet.
LEMMA LeadsEnds ==
  ASSUME NEW d \in Seq(ToClient), NEW from, NEW to, NEW quiet, Leads(d, from, to, quiet)
  PROVE  from \in Phases /\ to \in Phases /\ (quiet => from = "out" /\ to = "out")
BY DEF Leads

\* One packet more, which tells what the server has come to.
LEMMA LeadsOn ==
  ASSUME NEW d \in Seq(ToClient), NEW p \in ToClient, NEW from, NEW to, NEW quiet \in BOOLEAN,
         NEW next \in Phases, Leads(d, from, to, quiet), Tells(p, to, next),
         Sent({"ackLeave"}, d) => next = "out"
  PROVE  Leads(Append(d, p), from, next, quiet /\ next = "out")
<1>1. PICK phases \in [1 .. (Len(d) + 1) -> Phases] :
        /\ Through(d, phases)
        /\ phases[1] = from /\ phases[Len(d) + 1] = to
        /\ quiet => \A i \in DOMAIN phases : phases[i] = "out"
  BY DEF Leads
<1> DEFINE e == Append(d, p)
           more == [i \in 1 .. (Len(e) + 1) |-> IF i <= Len(d) + 1 THEN phases[i] ELSE next]
<1>2. /\ Len(d) \in Nat /\ Len(e) = Len(d) + 1 /\ DOMAIN d = 1 .. Len(d)
      /\ DOMAIN e = 1 .. (Len(d) + 1) /\ e[Len(d) + 1] = p
      /\ \A i \in 1 .. Len(d) : e[i] = d[i]
  OBVIOUS
<1> HIDE DEF e
<1>3. /\ more \in [1 .. (Len(e) + 1) -> Phases]
      /\ more[Len(e) + 1] = next
      /\ \A i \in 1 .. (Len(d) + 1) : more[i] = phases[i]
  BY <1>1, <1>2
<1> HIDE DEF more
<1>4. ASSUME NEW i \in DOMAIN e
      PROVE  Tells(e[i], more[i], more[i + 1])
  <2>1. CASE i <= Len(d)
    <3>1. i \in DOMAIN d /\ i \in 1 .. (Len(d) + 1) /\ i + 1 \in 1 .. (Len(d) + 1)
      BY <1>2, <2>1
    <3>2. Tells(d[i], phases[i], phases[i + 1])
      BY <1>1, <3>1 DEF Through
    <3> QED BY <1>2, <1>3, <3>1, <3>2
  <2>2. CASE i = Len(d) + 1
    BY <1>1, <1>2, <1>3, <2>2
  <2> QED BY <1>2, <2>1, <2>2
<1>5. ASSUME NEW i \in DOMAIN e, e[i] = "ackLeave", NEW j \in DOMAIN more, j > i
      PROVE  more[j] = "out"
  <2>1. CASE i <= Len(d)
    <3>1. i \in DOMAIN d /\ d[i] = "ackLeave"
      BY <1>2, <1>5, <2>1
    <3>2. next = "out"
      BY <3>1 DEF Sent
    <3>3. CASE j <= Len(d) + 1
      BY <1>1, <1>2, <1>3, <1>5, <3>1, <3>3 DEF Through
    <3>4. CASE j > Len(d) + 1
      BY <1>2, <1>3, <3>2, <3>4
    <3> QED BY <1>2, <1>3, <3>3, <3>4
  <2>2. CASE i = Len(d) + 1
    <3>1. p = "ackLeave" /\ j = Len(e) + 1
      BY <1>2, <1>3, <1>5, <2>2
    <3> QED BY <1>3, <3>1 DEF Tells
  <2> QED BY <1>2, <2>1, <2>2
<1>51. ASSUME next # "coded", NEW i \in DOMAIN e, more[i] = "coded"
       PROVE  \E j \in DOMAIN e : j >= i /\ e[j] = "joined"
  <2>1. CASE i <= Len(d) /\ to # "coded"
    <3>1. i \in DOMAIN d /\ phases[i] = "coded"
      BY <1>2, <1>3, <1>51, <2>1
    <3>2. PICK j \in DOMAIN d : j >= i /\ d[j] = "joined"
      BY <1>1, <2>1, <3>1 DEF Through
    <3> QED BY <1>2, <3>2
  <2>2. CASE i = Len(d) + 1 \/ to = "coded"
    <3>1. to = "coded"
      BY <1>1, <1>2, <1>3, <1>51, <2>2
    <3>2. p = "joined" /\ Len(d) + 1 \in DOMAIN e /\ Len(d) + 1 >= i
      BY <1>2, <1>51, <3>1 DEF Tells
    <3> QED BY <1>2, <3>2
  <2> QED BY <1>2, <2>1, <2>2
<1>6. Through(e, more)
  BY <1>3, <1>4, <1>5, <1>51 DEF Through
<1>7. more[1] = from
  BY <1>1, <1>2, <1>3
<1>8. quiet /\ next = "out" => \A i \in DOMAIN more : more[i] = "out"
  BY <1>1, <1>2, <1>3
<1> QED BY <1>3, <1>6, <1>7, <1>8 DEF Leads, e

\* The first packet is taken off, and the client has heard what it tells.
LEMMA LeadsFrom ==
  ASSUME NEW d \in Seq(ToClient), d # <<>>, NEW from, NEW to, NEW quiet \in BOOLEAN,
         Leads(d, from, to, quiet)
  PROVE  \E next \in Phases :
           /\ Tells(Head(d), from, next)
           /\ Leads(Tail(d), next, to, quiet \/ Head(d) = "ackLeave")
<1>1. PICK phases \in [1 .. (Len(d) + 1) -> Phases] :
        /\ Through(d, phases)
        /\ phases[1] = from /\ phases[Len(d) + 1] = to
        /\ quiet => \A i \in DOMAIN phases : phases[i] = "out"
  BY DEF Leads
<1> DEFINE t == Tail(d)
           rest == [i \in 1 .. (Len(t) + 1) |-> phases[i + 1]]
<1>2. /\ Len(d) \in Nat \ {0} /\ Len(t) = Len(d) - 1 /\ DOMAIN d = 1 .. Len(d)
      /\ DOMAIN t = 1 .. (Len(d) - 1) /\ Head(d) = d[1]
      /\ \A i \in 1 .. (Len(d) - 1) : t[i] = d[i + 1]
  OBVIOUS
<1> HIDE DEF t
<1>3. /\ rest \in [1 .. (Len(t) + 1) -> Phases]
      /\ \A i \in 1 .. Len(d) : rest[i] = phases[i + 1]
      /\ DOMAIN rest = 1 .. Len(d)
  BY <1>1, <1>2
<1> HIDE DEF rest
<1>4. ASSUME NEW i \in DOMAIN t
      PROVE  Tells(t[i], rest[i], rest[i + 1])
  <2>1. i + 1 \in DOMAIN d /\ i \in 1 .. Len(d) /\ i + 1 \in 1 .. Len(d)
    BY <1>2
  <2>2. Tells(d[i + 1], phases[i + 1], phases[(i + 1) + 1])
    BY <1>1, <2>1 DEF Through
  <2> QED BY <1>2, <1>3, <2>1, <2>2
<1>5. ASSUME NEW i \in DOMAIN t, t[i] = "ackLeave", NEW j \in DOMAIN rest, j > i
      PROVE  rest[j] = "out"
  <2>1. /\ i + 1 \in DOMAIN d /\ d[i + 1] = "ackLeave"
        /\ j + 1 \in DOMAIN phases /\ j + 1 > i + 1 /\ rest[j] = phases[j + 1]
    BY <1>1, <1>2, <1>3, <1>5
  <2> QED BY <1>1, <2>1 DEF Through
<1>51. ASSUME rest[Len(t) + 1] # "coded", NEW i \in DOMAIN t, rest[i] = "coded"
       PROVE  \E j \in DOMAIN t : j >= i /\ t[j] = "joined"
  <2>1. /\ i + 1 \in DOMAIN d /\ phases[i + 1] = "coded" /\ phases[Len(d) + 1] # "coded"
        /\ i \in Nat \ {0}
    BY <1>2, <1>3, <1>51
  <2>2. PICK j \in DOMAIN d : j >= i + 1 /\ d[j] = "joined"
    BY <1>1, <2>1 DEF Through
  <2>3. j - 1 \in DOMAIN t /\ j - 1 >= i /\ t[j - 1] = d[(j - 1) + 1] /\ (j - 1) + 1 = j
    BY <1>2, <2>1, <2>2
  <2> QED BY <2>2, <2>3
<1>6. Through(t, rest)
  BY <1>3, <1>4, <1>5, <1>51 DEF Through
<1>7. Tells(Head(d), from, rest[1])
  BY <1>1, <1>2, <1>3 DEF Through
<1>8. rest[Len(t) + 1] = to /\ rest[1] \in Phases
  BY <1>1, <1>2, <1>3
<1>9. quiet \/ Head(d) = "ackLeave" => \A i \in DOMAIN rest : rest[i] = "out"
  <2>1. ASSUME NEW i \in DOMAIN rest, quiet \/ Head(d) = "ackLeave"
        PROVE  phases[i + 1] = "out"
    <3>1. i + 1 \in DOMAIN phases /\ i + 1 > 1 /\ 1 \in DOMAIN d
      BY <1>1, <1>2, <1>3
    <3> QED BY <1>1, <1>2, <2>1, <3>1 DEF Through
  <2> QED BY <1>3, <2>1
<1>10. Leads(t, rest[1], to, quiet \/ Head(d) = "ackLeave")
  BY <1>3, <1>6, <1>8, <1>9 DEF Leads
<1> QED BY <1>7, <1>8, <1>10 DEF t

\* What the packets say when they lead nowhere near a lobby, out of it or into it.
LEMMA LeadsSays ==
  ASSUME NEW d \in Seq(ToClient), NEW from, NEW to, NEW quiet \in BOOLEAN,
         Leads(d, from, to, quiet)
  PROVE  /\ quiet => ~ Sent({"ackLeave"}, d) /\ ~ Sent(Welcomes, d)
         /\ Sent({"ackLeave"}, d) => to = "out"
         /\ from = "coded" /\ to # "coded" => Sent({"joined"}, d)
<1>1. PICK phases \in [1 .. (Len(d) + 1) -> Phases] :
        /\ Through(d, phases)
        /\ phases[1] = from /\ phases[Len(d) + 1] = to
        /\ quiet => \A i \in DOMAIN phases : phases[i] = "out"
  BY DEF Leads
<1>2. Len(d) \in Nat /\ DOMAIN d = 1 .. Len(d)
  OBVIOUS
<1>3. ASSUME NEW i \in DOMAIN d
      PROVE  Tells(d[i], phases[i], phases[i + 1]) /\ i \in DOMAIN phases /\ i + 1 \in DOMAIN phases
  BY <1>1, <1>2 DEF Through
<1>4. ASSUME quiet
      PROVE  ~ Sent({"ackLeave"}, d) /\ ~ Sent(Welcomes, d)
  BY <1>1, <1>3, <1>4 DEF Sent, Tells, Welcomes
<1>5. ASSUME NEW i \in DOMAIN d, d[i] = "ackLeave"
      PROVE  to = "out"
  <2>1. Len(d) + 1 \in DOMAIN phases /\ Len(d) + 1 > i
    BY <1>1, <1>2
  <2> QED BY <1>1, <1>5, <2>1 DEF Through
<1>6. ASSUME from = "coded", to # "coded"
      PROVE  Sent({"joined"}, d)
  <2>1. 1 \in DOMAIN d
    BY <1>1, <1>2, <1>6
  <2> QED BY <1>1, <1>6, <2>1 DEF Through, Sent
<1> QED BY <1>4, <1>5, <1>6 DEF Sent

-----------------------------------------------------------------------------
(* The stack.                                                               *)

\* The screen on top is the base, unless it is passing.
LEMMA BaseOfTop ==
  ASSUME NEW st \in Seq(OneScreen), st # <<>>, NEW s, Base(st, s), Last(st).screen \notin Passing
  PROVE  Last(st).screen = s
<1>1. PICK i \in DOMAIN st :
        st[i].screen = s /\ \A j \in DOMAIN st : j > i => st[j].screen \in Passing
  BY DEF Base
<1>2. /\ Len(st) \in DOMAIN st /\ DOMAIN st = 1 .. Len(st) /\ Last(st) = st[Len(st)]
      /\ Len(st) \in Nat
  BY DEF Last
<1>3. ~ (Len(st) > i)
  BY <1>1, <1>2
<1>4. Len(st) = i
  BY <1>2, <1>3
<1> QED BY <1>1, <1>2, <1>4

LEMMA TopIsBase ==
  ASSUME NEW st \in Seq(OneScreen), st # <<>>
  PROVE  Base(st, Last(st).screen)
<1>1. /\ Len(st) \in DOMAIN st /\ DOMAIN st = 1 .. Len(st) /\ Last(st) = st[Len(st)]
      /\ Len(st) \in Nat
  BY DEF Last
<1>2. \A j \in DOMAIN st : ~ (j > Len(st))
  BY <1>1
<1> QED BY <1>1, <1>2 DEF Base

\* What a screen more on the stack ...
LEMMA BasePushed ==
  ASSUME NEW st \in Seq(OneScreen), NEW top \in OneScreen
  PROVE  LET q == Append(st, top) IN
           /\ q \in Seq(OneScreen) /\ q # <<>> /\ Last(q) = top
           /\ top.screen \in Passing => \A s : s \notin Passing => (Base(q, s) <=> Base(st, s))
           /\ top.screen \notin Passing => \A s : Base(q, s) <=> s = top.screen
<1> DEFINE q == Append(st, top)
<1>1. /\ q \in Seq(OneScreen) /\ q # <<>>
      /\ Len(st) \in Nat /\ Len(q) = Len(st) + 1 /\ q[Len(st) + 1] = top
      /\ DOMAIN st = 1 .. Len(st) /\ DOMAIN q = 1 .. (Len(st) + 1)
      /\ \A i \in DOMAIN st : q[i] = st[i]
  OBVIOUS
<1>2. Last(q) = top
  BY <1>1 DEF Last
<1> HIDE DEF q
<1>3. ASSUME top.screen \in Passing, NEW s, s \notin Passing, Base(q, s)
      PROVE  Base(st, s)
  <2>1. PICK i \in DOMAIN q :
          q[i].screen = s /\ \A j \in DOMAIN q : j > i => q[j].screen \in Passing
    BY <1>3 DEF Base
  <2>2. i \in DOMAIN st
    BY <1>1, <1>3, <2>1
  <2> QED BY <1>1, <2>1, <2>2 DEF Base
<1>4. ASSUME top.screen \in Passing, NEW s, Base(st, s)
      PROVE  Base(q, s)
  <2>1. PICK i \in DOMAIN st :
          st[i].screen = s /\ \A j \in DOMAIN st : j > i => st[j].screen \in Passing
    BY <1>4 DEF Base
  <2>2. ASSUME NEW j \in DOMAIN q, j > i
        PROVE  q[j].screen \in Passing
    BY <1>1, <1>4, <2>1, <2>2
  <2> QED BY <1>1, <2>1, <2>2 DEF Base
<1>5. ASSUME top.screen \notin Passing, NEW s
      PROVE  Base(q, s) <=> s = top.screen
  BY <1>1, <1>2, <1>5, BaseOfTop, TopIsBase
<1> QED BY <1>1, <1>2, <1>3, <1>4, <1>5 DEF q

\* ... and one fewer make of the base.
LEMMA BasePopped ==
  ASSUME NEW st \in Seq(OneScreen), st # <<>>
  PROVE  /\ Front(st) \in Seq(OneScreen)
         /\ Len(Front(st)) = Len(st) - 1 /\ DOMAIN Front(st) = 1 .. (Len(st) - 1)
         /\ \A i \in DOMAIN Front(st) : i \in DOMAIN st /\ Front(st)[i] = st[i]
         /\ Last(st).screen \in Passing =>
              \A s : s \notin Passing => (Base(Front(st), s) <=> Base(st, s))
<1> DEFINE q == Front(st)
<1>1. /\ Len(st) \in Nat \ {0} /\ DOMAIN st = 1 .. Len(st)
      /\ Last(st) = st[Len(st)]
  BY DEF Last
<1>2. /\ q \in Seq(OneScreen) /\ DOMAIN q = 1 .. (Len(st) - 1)
      /\ \A i \in DOMAIN q : q[i] = st[i]
  BY <1>1 DEF Front
<1>21. Len(q) = Len(st) - 1
  BY <1>1 DEF Front
<1> HIDE DEF q
<1>3. ASSUME Last(st).screen \in Passing, NEW s, s \notin Passing, Base(st, s)
      PROVE  Base(q, s)
  <2>1. PICK i \in DOMAIN st :
          st[i].screen = s /\ \A j \in DOMAIN st : j > i => st[j].screen \in Passing
    BY <1>3 DEF Base
  <2>2. i # Len(st)
    BY <1>1, <1>3, <2>1
  <2>3. i \in DOMAIN q
    BY <1>1, <1>2, <2>1, <2>2
  <2> QED BY <1>1, <1>2, <2>1, <2>3 DEF Base
<1>4. ASSUME Last(st).screen \in Passing, NEW s, Base(q, s)
      PROVE  Base(st, s)
  <2>1. PICK i \in DOMAIN q :
          q[i].screen = s /\ \A j \in DOMAIN q : j > i => q[j].screen \in Passing
    BY <1>4 DEF Base
  <2>2. ASSUME NEW j \in DOMAIN st, j > i
        PROVE  st[j].screen \in Passing
    BY <1>1, <1>2, <1>4, <2>1, <2>2
  <2> QED BY <1>1, <1>2, <2>1, <2>2 DEF Base
<1>5. \A i \in DOMAIN q : i \in DOMAIN st
  BY <1>1, <1>2
<1> QED BY <1>2, <1>21, <1>3, <1>4, <1>5 DEF q

\* Stacks of the same screens have the same base.
LEMMA BaseOfScreens ==
  ASSUME NEW st \in Seq(OneScreen), NEW q \in Seq(OneScreen), DOMAIN q = DOMAIN st,
         \A i \in DOMAIN st : q[i].screen = st[i].screen, NEW s
  PROVE  Base(q, s) <=> Base(st, s)
BY DEF Base

-----------------------------------------------------------------------------
(* Types.                                                                   *)

\* The beliefs' parts, and what makes other beliefs.
LEMMA BeliefsAre ==
  ASSUME NEW b \in Beliefs, NEW x \in BOOLEAN
  PROVE  /\ [b EXCEPT !.code = x] \in Beliefs /\ [b EXCEPT !.in = x] \in Beliefs
         /\ [b EXCEPT !.ready = x] \in Beliefs
         /\ OutOfLobby \in Beliefs
         /\ [OutOfLobby EXCEPT !.code = b.code] \in Beliefs
         /\ [OutOfLobby EXCEPT !.ready = b.ready] \in Beliefs
         /\ [b EXCEPT !.in = TRUE, !.master = TRUE, !.code = TRUE] \in Beliefs
BY DEF Beliefs, OutOfLobby

\* What enter() of a screen does.
LEMMA EnterType ==
  ASSUME TypeOK, NEW below \in Seq(OneScreen), NEW s \in Screens, EnterOn(below, s)
  PROVE  /\ stack' \in Seq(OneScreen) /\ believes' \in Beliefs /\ justLeft' \in BOOLEAN
         /\ up' \in Seq(ToServer)
         /\ \E top \in OneScreen : stack' = Append(below, top) /\ top.screen = s
<1>1. PICK top \in OneScreen : stack' = Append(below, top) /\ top.screen = s
  <2>1. CASE s = "menu"
    <3> DEFINE top == [Show(s) EXCEPT !.sawLobby = believes.in, !.sawMaster = believes.master]
    <3>1. top \in OneScreen /\ top.screen = s
      BY DEF OneScreen, Show, TypeOK, Beliefs
    <3> QED BY <2>1, <3>1 DEF EnterOn
  <2>2. CASE s # "menu"
    <3>1. Show(s) \in OneScreen /\ Show(s).screen = s
      BY DEF OneScreen, Show
    <3> QED BY <2>2, <3>1 DEF EnterOn
  <2> QED BY <2>1, <2>2
<1>2. believes' \in Beliefs /\ justLeft' \in BOOLEAN
  BY BeliefsAre DEF EnterOn, TypeOK
<1>3. up' \in Seq(ToServer)
  BY AppendSends DEF EnterOn, TypeOK, ToServer
<1> QED BY <1>1, <1>2, <1>3, BasePushed

\* A menu that looks at the lobby stays the same screen.
LEMMA SawMenu ==
  ASSUME TypeOK, stack # <<>>, NEW b1 \in BOOLEAN, NEW b2 \in BOOLEAN
  PROVE  LET q == [stack EXCEPT ![Len(stack)].sawLobby = b1, ![Len(stack)].sawMaster = b2] IN
           /\ q \in Seq(OneScreen) /\ q # <<>> /\ DOMAIN q = DOMAIN stack
           /\ \A i \in DOMAIN stack : q[i].screen = stack[i].screen
           /\ Last(q).screen = Last(stack).screen
<1> DEFINE top == [stack[Len(stack)] EXCEPT !.sawLobby = b1, !.sawMaster = b2]
           q == [stack EXCEPT ![Len(stack)] = top]
<1>1. Len(stack) \in Nat \ {0} /\ DOMAIN stack = 1 .. Len(stack) /\ stack \in Seq(OneScreen)
  BY DEF TypeOK
<1>2. stack[Len(stack)] \in OneScreen
  BY <1>1
<1>3. top \in OneScreen /\ top.screen = stack[Len(stack)].screen
  BY <1>2 DEF OneScreen
<1> HIDE DEF top
<1>4. /\ q \in Seq(OneScreen) /\ DOMAIN q = DOMAIN stack /\ Len(q) = Len(stack)
      /\ \A i \in DOMAIN stack : q[i] = IF i = Len(stack) THEN top ELSE stack[i]
  BY <1>1, <1>3
<1>5. [stack EXCEPT ![Len(stack)].sawLobby = b1, ![Len(stack)].sawMaster = b2] = q
  BY <1>1, <1>2 DEF top, OneScreen
<1> HIDE DEF q
<1>6. q # <<>>
  BY <1>1, <1>4
<1>7. Last(q) = top /\ Last(stack) = stack[Len(stack)]
  BY <1>1, <1>4 DEF Last
<1> QED BY <1>1, <1>3, <1>4, <1>5, <1>6, <1>7

\* What a click sends.
LEMMA SendType ==
  ASSUME TypeOK, NEW p \in ToServer, Send(p)
  PROVE  up' \in Seq(ToServer)
BY AppendSends DEF Send, TypeOK

\* What a packet that is taken leaves.
LEMMA ReceiveType ==
  ASSUME TypeOK, NEW p, Receive(p)
  PROVE  down' \in Seq(ToClient) /\ p \in ToClient
BY TailSends DEF Receive, TypeOK

\* The main thread's updates keep the types ...
LEMMA UpdateTypes == TypeOK /\ Update => TypeOK'
<1> SUFFICES ASSUME TypeOK, Update
             PROVE  TypeOK'
  OBVIOUS
<1> USE DEF Updating, server, account, requests, Quiet, Open, NoRequest
<1>0. Pages \subseteq Screens
  BY DEF Screens
<1>1. CASE SplashUpdate
  BY <1>1 DEF SplashUpdate, Request, TypeOK, Screens
<1>2. CASE ConnectionUpdate
  <2>1. up' \in Seq(ToServer)
    BY <1>2, AppendSends DEF ConnectionUpdate, TypeOK, ToServer
  <2>2. push' \in Screens \cup {None}
    BY <1>0, <1>2 DEF ConnectionUpdate, TypeOK
  <2> QED BY <1>2, <2>1, <2>2 DEF ConnectionUpdate, TypeOK
<1>3. CASE ConnectionSucceeds
  BY <1>3 DEF ConnectionSucceeds, TypeOK, Screens
<1>4. CASE MenuUpdate
  <2>1. /\ up' \in Seq(ToServer) /\ push' \in Screens \cup {None} /\ believes' \in Beliefs
        /\ expecting' \subseteq {"login", "register"} /\ named' \in BOOLEAN
    <3>1. MenuClick
      BY <1>4 DEF MenuUpdate
    <3>2. CASE Quiet /\ UNCHANGED <<push, expecting, named, believes>>
      BY <3>2 DEF TypeOK
    <3>3. CASE AskForCode
      BY <3>3, SendType DEF AskForCode, TypeOK, ToServer
    <3>4. CASE JoinByCode
      BY <3>4, SendType, BeliefsAre DEF JoinByCode, TypeOK, ToServer
    <3>5. CASE OpenScreen
      <4>1. push' \in Screens
        BY <1>0, <3>5 DEF OpenScreen, Screens
      <4> QED BY <3>5, <4>1 DEF OpenScreen, TypeOK
    <3>6. CASE OpenLeaderboard
      <4>1. push' \in Screens
        BY <1>0, <3>6 DEF OpenLeaderboard
      <4>2. up' \in Seq(ToServer)
        BY <3>6, SendType DEF OpenLeaderboard, ToServer
      <4> QED BY <3>6, <4>1, <4>2 DEF OpenLeaderboard, TypeOK
    <3>7. CASE LogOut
      BY <3>7, SendType, BeliefsAre DEF LogOut, TypeOK, ToServer
    <3> QED BY <3>1, <3>2, <3>3, <3>4, <3>5, <3>6, <3>7 DEF MenuClick
  <2>2. change' \in Screens \cup {None} /\ crossed' \in BOOLEAN
    <3>1. LobbyScreen(Last(stack)) \in Screens \cup {None}
      BY DEF LobbyScreen, Screens, InLobbyScreens
    <3> QED BY <1>4, <3>1 DEF MenuUpdate, TypeOK
  <2>3. stack' \in Seq(OneScreen)
    <3>1. believes.in \in BOOLEAN /\ believes.master \in BOOLEAN /\ stack # <<>>
      BY <1>4 DEF MenuUpdate, On, TypeOK, Beliefs
    <3> HIDE DEF Updating
    <3> QED BY <1>4, <3>1, SawMenu DEF MenuUpdate, TypeOK
  <2> QED BY <1>4, <2>1, <2>2, <2>3 DEF MenuUpdate, TypeOK
<1>5. CASE PageUpdate
  <2>1. pop' \in BOOLEAN
    BY <1>5 DEF PageUpdate, TypeOK
  <2> QED BY <1>5, <2>1 DEF PageUpdate, TypeOK
<1>6. CASE GameUpdate
  BY <1>6 DEF GameUpdate, TypeOK, Screens, InLobbyScreens
<1>7. CASE LevelCompleteUpdate
  BY <1>7 DEF LevelCompleteUpdate, TypeOK
<1>8. CASE ForceLeaveUpdate
  <2>1. /\ change' \in Screens \cup {None} /\ crossed' \in BOOLEAN
        /\ believes' \in Beliefs /\ shouldDisconnect' \in BOOLEAN
    BY <1>8, BeliefsAre DEF ForceLeaveUpdate, Request, TypeOK, Screens
  <2> QED BY <1>8, <2>1 DEF ForceLeaveUpdate, TypeOK
<1>9. ASSUME NEW s \in {"login", "register"}, AccountUpdate(s)
      PROVE  TypeOK'
  <2>1. up' \in Seq(ToServer)
    BY <1>9, SendType DEF AccountUpdate, TypeOK, ToServer
  <2>2. pop' \in BOOLEAN /\ expecting' \subseteq {"login", "register"}
    BY <1>9 DEF AccountUpdate, TypeOK
  <2> QED BY <1>9, <2>1, <2>2 DEF AccountUpdate, TypeOK
<1>10. ASSUME GoHome
       PROVE  /\ change' \in Screens \cup {None} /\ crossed' \in BOOLEAN
              /\ believes' \in Beliefs /\ shouldDisconnect' \in BOOLEAN
  BY <1>10, BeliefsAre DEF GoHome, Request, TypeOK, Screens
<1>11. ASSUME Leave \/ StartGame
       PROVE  up' \in Seq(ToServer) /\ UNCHANGED <<push, pop>>
  BY <1>11, SendType DEF Leave, StartGame, ToServer
<1>12. ASSUME NEW s \in {"hosting", "guest"}, LobbyUpdate(s)
       PROVE  TypeOK'
  <2>1. up' \in Seq(ToServer) /\ push' \in Screens \cup {None} /\ pop' = pop
    BY <1>11, <1>12 DEF LobbyUpdate, OpenOver, TypeOK, Screens
  <2> QED BY <1>10, <1>12, <2>1 DEF LobbyUpdate, TypeOK
<1>13. CASE PauseUpdate
  <2>1. up' \in Seq(ToServer) /\ push' \in Screens \cup {None} /\ pop' \in BOOLEAN
    BY <1>0, <1>11, <1>13 DEF PauseUpdate, OpenOver, TypeOK
  <2> QED BY <1>10, <1>13, <2>1 DEF PauseUpdate, TypeOK
<1>14. CASE ResultsUpdate
  <2>1. up' \in Seq(ToServer) /\ push' = push /\ pop' = pop
    BY <1>11, <1>14 DEF ResultsUpdate, TypeOK
  <2> QED BY <1>10, <1>14, <2>1 DEF ResultsUpdate, TypeOK
<1> QED BY <1>1, <1>2, <1>3, <1>4, <1>5, <1>6, <1>7, <1>8, <1>9, <1>12, <1>13, <1>14 DEF Update

\* ... and so do the requests it serves, ...
LEMMA RequestTypes == TypeOK /\ (ChangeState \/ PushState \/ PopState) => TypeOK'
<1> SUFFICES ASSUME TypeOK, ChangeState \/ PushState \/ PopState
             PROVE  TypeOK'
  OBVIOUS
<1> USE DEF server, account, requests
<1>1. CASE ChangeState
  <2>1. /\ stack' \in Seq(OneScreen) /\ believes' \in Beliefs /\ justLeft' \in BOOLEAN
        /\ up' \in Seq(ToServer)
    <3>1. (IF stack = <<>> THEN stack ELSE Front(stack)) \in Seq(OneScreen)
      BY BasePopped DEF TypeOK
    <3> DEFINE below == IF stack = <<>> THEN stack ELSE Front(stack)
    <3>2. change # None => change \in Screens /\ EnterOn(below, change)
      BY <1>1 DEF ChangeState, TypeOK
    <3> HIDE DEF below
    <3>3. CASE change # None
      BY <3>1, <3>2, <3>3, EnterType DEF below
    <3>4. CASE change = None
      BY <1>1, <3>4 DEF ChangeState, TypeOK
    <3> QED BY <3>3, <3>4
  <2> QED BY <1>1, <2>1 DEF ChangeState, TypeOK
<1>2. CASE PushState
  <2>1. /\ stack' \in Seq(OneScreen) /\ believes' \in Beliefs /\ justLeft' \in BOOLEAN
        /\ up' \in Seq(ToServer)
    <3>1. push # None => push \in Screens /\ EnterOn(stack, push)
      BY <1>2 DEF PushState, TypeOK
    <3>2. CASE push # None
      BY <3>1, <3>2, EnterType DEF TypeOK
    <3>3. CASE push = None
      BY <1>2, <3>3 DEF PushState, TypeOK
    <3> QED BY <3>2, <3>3
  <2> QED BY <1>2, <2>1 DEF PushState, TypeOK
<1>3. CASE PopState
  BY <1>3, BasePopped DEF PopState, TypeOK
<1> QED BY <1>1, <1>2, <1>3

\* ... the network thread ...
LEMMA HandlerTypes == TypeOK /\ NetworkThread => TypeOK'
<1> SUFFICES ASSUME TypeOK, NetworkThread
             PROVE  TypeOK'
  OBVIOUS
<1> USE DEF server, account, requests
<1>0. down' \in Seq(ToClient)
  BY ReceiveType DEF NetworkThread, Accept, HandleCode, HandleLobbyConnectValue, HandleCanStart,
     HandleGameScreen, HandleForceLeave, HandleAckLeaveLobby, HandleConnectUser, HandleRegisterFail
<1>1. CASE Accept
  BY <1>0, <1>1 DEF Accept, TypeOK
<1>2. CASE HandleCode
  <2>1. believes' \in Beliefs
    BY <1>2, BeliefsAre DEF HandleCode, TypeOK
  <2> QED BY <1>0, <1>2, <2>1 DEF HandleCode, TypeOK
<1>3. CASE HandleLobbyConnectValue
  <2>1. believes' \in Beliefs
    BY <1>3, BeliefsAre DEF HandleLobbyConnectValue, TypeOK
  <2> QED BY <1>0, <1>3, <2>1 DEF HandleLobbyConnectValue, TypeOK
<1>4. CASE HandleCanStart
  <2>1. believes' \in Beliefs /\ change' \in Screens \cup {None} /\ crossed' \in BOOLEAN
    BY <1>4, BeliefsAre DEF HandleCanStart, NoRequest, Request, TypeOK, Screens, InLobbyScreens
  <2> QED BY <1>0, <1>4, <2>1 DEF HandleCanStart, TypeOK
<1>5. CASE HandleGameScreen
  <2>1. change' \in Screens \cup {None} /\ crossed' \in BOOLEAN
    BY <1>5 DEF HandleGameScreen, Request, TypeOK, Screens, InLobbyScreens
  <2> QED BY <1>0, <1>5, <2>1 DEF HandleGameScreen, TypeOK
<1>6. CASE HandleForceLeave
  <2>1. believes' \in Beliefs /\ change' \in Screens \cup {None} /\ crossed' \in BOOLEAN
    BY <1>6, BeliefsAre DEF HandleForceLeave, Request, TypeOK, Screens
  <2> QED BY <1>0, <1>6, <2>1 DEF HandleForceLeave, TypeOK
<1>7. CASE HandleAckLeaveLobby
  BY <1>0, <1>7 DEF HandleAckLeaveLobby, TypeOK
<1>8. CASE HandleConnectUser
  <2>1. pop' \in BOOLEAN /\ expecting' \subseteq {"login", "register"}
    BY <1>8 DEF HandleConnectUser, TypeOK
  <2> QED BY <1>0, <1>8, <2>1 DEF HandleConnectUser, TypeOK
<1>9. CASE HandleRegisterFail
  <2>1. expecting' \subseteq {"login", "register"}
    BY <1>9 DEF HandleRegisterFail, TypeOK
  <2> QED BY <1>0, <1>9, <2>1 DEF HandleRegisterFail, TypeOK
<1> QED BY <1>1, <1>2, <1>3, <1>4, <1>5, <1>6, <1>7, <1>8, <1>9 DEF NetworkThread

\* The answer to a packet is one packet or none.
LEMMA AnswersAre ==
  ASSUME TypeOK, NEW p, NEW a \in Answers(p)
  PROVE  a = <<>> \/ \E x \in ToClient : a = <<x>>
BY DEF Answers, ToClient

\* What a queue with such an answer holds.
LEMMA AppendAnswer ==
  ASSUME NEW a, a = <<>> \/ \E x \in ToClient : a = <<x>>
  PROVE  /\ down \in Seq(ToClient) => down \o a \in Seq(ToClient)
         /\ down \in Seq(ToClient) /\ a = <<>> => down \o a = down
         /\ \A x \in ToClient : down \in Seq(ToClient) /\ a = <<x>> => down \o a = Append(down, x)
<1>1. ASSUME a = <<>>, down \in Seq(ToClient)
      PROVE  down \o a = down
  BY <1>1
<1>2. ASSUME NEW x \in ToClient, a = <<x>>, down \in Seq(ToClient)
      PROVE  down \o a = Append(down, x) /\ Append(down, x) \in Seq(ToClient)
  BY <1>2
<1> QED BY <1>1, <1>2

\* ... and the server.
LEMMA ServerTypes == TypeOK /\ Server => TypeOK'
<1> SUFFICES ASSUME TypeOK, Server
             PROVE  TypeOK'
  OBVIOUS
<1> USE DEF server, account, requests
<1>1. CASE Serve
  <2>1. up' \in Seq(ToServer)
    BY <1>1, TailSends DEF Serve, TypeOK
  <2>2. down' \in Seq(ToClient)
    BY <1>1, AnswersAre, AppendAnswer DEF Serve, TypeOK
  <2>3. lobby' \in {"none", "waiting", "playing", "between", "over"} /\ member' \in BOOLEAN
    BY <1>1 DEF Serve, TypeOK
  <2> QED BY <1>1, <2>1, <2>2, <2>3 DEF Serve, TypeOK
<1>2. CASE LobbyMoves
  <2>1. PICK step \in LobbySteps :
          /\ step[1] = lobby /\ lobby' = step[2]
          /\ down' = IF member THEN down \o step[3] ELSE down
    BY <1>2 DEF LobbyMoves
  <2>2. /\ step[3] = <<>> \/ \E x \in ToClient : step[3] = <<x>>
        /\ step[2] \in {"waiting", "playing", "between", "over"}
    BY DEF LobbySteps, ToClient
  <2>3. down' \in Seq(ToClient)
    BY <2>1, <2>2, AppendAnswer DEF TypeOK
  <2> QED BY <1>2, <2>1, <2>2, <2>3 DEF LobbyMoves, TypeOK
<1>3. CASE ForceOut
  <2>1. down' \in Seq(ToClient)
    BY <1>3, AppendSends DEF ForceOut, TypeOK, ToClient
  <2>2. lobby' \in {"none", "waiting", "playing", "between", "over"} /\ member' \in BOOLEAN
    BY <1>3 DEF ForceOut, TypeOK
  <2> QED BY <1>3, <2>1, <2>2 DEF ForceOut, TypeOK
<1> QED BY <1>1, <1>2, <1>3 DEF Server

\* The state stays typed.
LEMMA TypeStep == TypeOK /\ [Next]_vars => TypeOK'
<1> SUFFICES ASSUME TypeOK, [Next]_vars
             PROVE  TypeOK'
  OBVIOUS
<1>1. CASE SecondPasses
  <2>1. /\ justLeft' \in BOOLEAN
        /\ UNCHANGED <<stack, change, push, pop, frame, connected, named, expecting>>
        /\ UNCHANGED <<wasConnected, believes, shouldDisconnect, up, down, lobby, member, crossed>>
    BY <1>1 DEF SecondPasses, requests, account, server
  <2> QED BY <2>1 DEF TypeOK
<1>2. CASE UNCHANGED vars
  BY <1>2 DEF vars, requests, account, server, TypeOK
<1> QED BY <1>1, <1>2, UpdateTypes, RequestTypes, HandlerTypes, ServerTypes DEF Next, MainThread

-----------------------------------------------------------------------------
(* The main thread's steps.                                                 *)

\* A step of the client that reads no packet goes on with the same conversation.
LEMMA SameTalk ==
  ASSUME NEW from \in Phases, NEW to \in Phases, NEW quiet \in BOOLEAN,
         Conversing(from, to, quiet), UNCHANGED <<down, lobby, member>>,
         Stacked', Believing', Ordered', ClientHas(from)', Shown(from, quiet)'
  PROVE  Agreed'
BY DEF Agreed, Conversing, ServerHas

\* What is on its way to the server after p has been sent; no question may follow a leave.
LEMMA SentUp ==
  ASSUME TypeOK, NEW p \in ToServer, up' = Append(up, p)
  PROVE  /\ Sent(Questions, up') <=> Sent(Questions, up) \/ p \in Questions
         /\ Sent({"leave"}, up') <=> Sent({"leave"}, up) \/ p = "leave"
         /\ Sent({"connect"}, up') <=> Sent({"connect"}, up) \/ p = "connect"
         /\ Sent(Questions \cup {"leave"}, up') <=>
              Sent(Questions \cup {"leave"}, up) \/ p \in Questions \cup {"leave"}
         /\ Precede(Questions, "leave", up) /\ (p \in Questions => ~ Sent({"leave"}, up)) =>
              Precede(Questions, "leave", up')
<1>1. up \in Seq(ToServer)
  BY DEF TypeOK
<1>2. \A S : Sent(S, up') <=> Sent(S, up) \/ p \in S
  BY <1>1, AppendSends
<1>3. ASSUME Precede(Questions, "leave", up), p \in Questions => ~ Sent({"leave"}, up)
      PROVE  Precede(Questions, "leave", up')
  BY <1>1, <1>3, AppendPrecedes DEF Questions
<1> QED BY <1>2, <1>3

\* A screen on top that is not passing is the only base.
LEMMA OnlyBase ==
  ASSUME TypeOK, stack # <<>>, Last(stack).screen \notin Passing, NEW s
  PROVE  Base(stack, s) <=> s = Last(stack).screen
BY BaseOfTop, TopIsBase DEF TypeOK

\* The screens that are no passing ones.
LEMMA NotPassing ==
  /\ {"splash", "connection", "menu", "results", "forceLeave"} \cap Closable = {}
  /\ InLobbyScreens \cap Closable = {"pause"}
  /\ Screens \ Closable \subseteq
       {"splash", "connection", "menu", "results", "forceLeave", "hosting", "guest", "game",
        "levelComplete"}
  /\ None \notin Screens
BY ScreensConstants DEF Closable, InLobbyScreens, Screens

\* The screens whose request says something of a lobby.
Requested == {"menu", "forceLeave", "hosting", "guest", "game", "levelComplete", "results"}

\* A frame in which the screen on top looks at nothing of a lobby and says nothing of one.
LEMMA PlainFrame ==
  ASSUME TypeOK, Agreed, frame = "update", frame' = "change",
         UNCHANGED <<stack, believes, shouldDisconnect, down, server>>,
         \/ up' = up
         \/ \E p \in ToServer \ (Questions \cup {"leave"}) : up' = Append(up, p),
         \/ push' = push
         \/ push' \in Passing
         \/ push' = "pause" /\ Top = "game"
         \/ push' = "menu" /\ Top = "connection",
         \/ change' = change
         \/ change' = "connection" /\ change = None /\ Top = "splash"
  PROVE  Agreed'
<1>1. PICK from \in Phases, to \in Phases, quiet \in BOOLEAN : Conversing(from, to, quiet)
  BY DEF Agreed
<1>2. /\ Sent(Questions, up') <=> Sent(Questions, up)
      /\ Sent({"leave"}, up') <=> Sent({"leave"}, up)
      /\ Sent({"connect"}, up') <=> Sent({"connect"}, up)
      /\ Sent(Questions \cup {"leave"}, up') <=> Sent(Questions \cup {"leave"}, up)
      /\ Precede(Questions, "leave", up) => Precede(Questions, "leave", up')
  <2>1. CASE up' = up
    BY <2>1
  <2>2. ASSUME NEW p \in ToServer \ (Questions \cup {"leave"}), up' = Append(up, p)
        PROVE  <1>2
    BY <2>2, SentUp DEF Questions
  <2> QED BY <2>1, <2>2
<1>3. /\ \A s \in Requested : Pending(s)' <=> Pending(s)
      /\ Home' <=> Home
  BY NotPassing DEF Pending, Home, Requested, Screens, InLobbyScreens
<1>4. Stacked'
  BY NotPassing DEF Agreed, Stacked, Top, Pending, Passing
<1>5. Believing'
  BY DEF Agreed, Believing, Pending
<1>6. Ordered'
  BY <1>2 DEF Agreed, Ordered
<1>7. ClientHas(from)'
  BY <1>1 DEF Conversing, ClientHas
<1>8. Shown(from, quiet)'
  BY <1>1, <1>2, <1>3 DEF Conversing, Shown, Requested
<1> QED BY <1>1, <1>4, <1>5, <1>6, <1>7, <1>8, SameTalk DEF server

\* The frames in which nothing more is to be said about a lobby.
LEMMA PlainUpdates ==
  ASSUME TypeOK, Agreed, ~ crossed, ~ crossed',
         \/ SplashUpdate \/ ConnectionUpdate \/ ConnectionSucceeds \/ PageUpdate
         \/ GameUpdate \/ LevelCompleteUpdate
         \/ \E s \in {"login", "register"} : AccountUpdate(s)
  PROVE  Agreed'
<1> USE DEF Updating, server, account, requests, Open, On, Top
<1>1. CASE SplashUpdate
  <2>1. change = None /\ change' = "connection" /\ Top = "splash"
    BY <1>1 DEF SplashUpdate, Request
  <2> QED BY <1>1, <2>1, PlainFrame DEF SplashUpdate
<1>2. CASE ConnectionUpdate
  <2>1. \/ up' = up
        \/ \E p \in ToServer \ (Questions \cup {"leave"}) : up' = Append(up, p)
    BY <1>2 DEF ConnectionUpdate, ToServer, Questions
  <2>2. push' = push \/ push' \in Passing
    BY <1>2 DEF ConnectionUpdate, Passing, Closable
  <2> QED BY <1>2, <2>1, <2>2, PlainFrame DEF ConnectionUpdate
<1>3. CASE ConnectionSucceeds
  BY <1>3, PlainFrame DEF ConnectionSucceeds
<1>4. CASE PageUpdate
  BY <1>4, PlainFrame DEF PageUpdate
<1>5. CASE GameUpdate
  <2>1. push' = push \/ (push' = "pause" /\ Top = "game")
    BY <1>5 DEF GameUpdate
  <2> QED BY <1>5, <2>1, PlainFrame DEF GameUpdate
<1>6. CASE LevelCompleteUpdate
  BY <1>6, PlainFrame DEF LevelCompleteUpdate
<1>7. ASSUME NEW s \in {"login", "register"}, AccountUpdate(s)
      PROVE  Agreed'
  <2>1. \/ up' = up
        \/ \E p \in ToServer \ (Questions \cup {"leave"}) : up' = Append(up, p)
    BY <1>7 DEF AccountUpdate, Quiet, Send, ToServer, Questions
  <2> QED BY <1>7, <2>1, PlainFrame DEF AccountUpdate
<1> QED BY <1>1, <1>2, <1>3, <1>4, <1>5, <1>6, <1>7

\* A screen that lets the user leave the lobby, and notices that the server let him go.
LEMMA LobbyFrame ==
  ASSUME TypeOK, Agreed, ~ crossed, ~ crossed', frame = "update", frame' = "change",
         stack # <<>>, Last(stack).screen \in {"hosting", "guest", "pause", "results"},
         GoHome, UNCHANGED <<stack, down, server>>,
         up' = up \/ \E p \in {"leave", "start"} : up' = Append(up, p),
         push' = push \/ push' \in Passing
  PROVE  Agreed'
<1>1. PICK from \in Phases, to \in Phases, quiet \in BOOLEAN : Conversing(from, to, quiet)
  BY DEF Agreed
<1>2. /\ Sent(Questions, up') <=> Sent(Questions, up)
      /\ Sent({"connect"}, up) => Sent({"connect"}, up')
      /\ Precede(Questions, "leave", up) => Precede(Questions, "leave", up')
  <2>1. CASE up' = up
    BY <2>1
  <2>2. ASSUME NEW p \in {"leave", "start"}, up' = Append(up, p)
        PROVE  <1>2
    BY <2>2, SentUp DEF Questions, ToServer
  <2> QED BY <2>1, <2>2
<1>3. \A s \in {"splash", "connection", "menu", "forceLeave"} : ~ Base(stack, s)
  BY OnlyBase, NotPassing DEF Passing, InLobbyScreens
<1>4. CASE shouldDisconnect
  <2>1. /\ change = None /\ change' = "menu" /\ believes' = OutOfLobby /\ shouldDisconnect' = FALSE
    BY <1>4 DEF GoHome, Request
  <2>2. quiet /\ from = "out" /\ ~ Sent({"ackLeave"}, down)
    BY <1>1, <1>4, LeadsEnds, LeadsSays DEF Conversing, Shown, TypeOK
  <2>3. Stacked'
    BY <2>1, NotPassing DEF Agreed, Stacked, Top, Pending, Passing, Screens
  <2>4. Believing'
    BY <2>1 DEF Believing, Pending, OutOfLobby
  <2>5. Ordered'
    BY <1>2, <1>4, <2>1 DEF Agreed, Ordered
  <2>6. ClientHas(from)'
    BY <2>1, <2>2 DEF ClientHas, OutOfLobby
  <2>7. ~ Sent(Questions, up')
    BY <1>2, <1>4 DEF Agreed, Ordered
  <2>8. Shown(from, quiet)'
    BY <1>3, <2>1, <2>2, <2>7 DEF Shown, Home, Pending
  <2> QED BY <1>1, <2>3, <2>4, <2>5, <2>6, <2>8, SameTalk DEF server
<1>5. CASE ~ shouldDisconnect
  <2>1. UNCHANGED <<change, believes, shouldDisconnect>>
    BY <1>5 DEF GoHome, NoRequest
  <2>2. ~ Pending("menu") /\ ~ Pending("menu")'
    BY <2>1 DEF Agreed, Stacked, Pending
  <2>3. \A s \in Requested : Pending(s)' <=> Pending(s)
    BY <2>1 DEF Pending
  <2>4. Stacked'
    BY <2>1, NotPassing DEF Agreed, Stacked, Top, Pending, Passing
  <2>5. Believing'
    BY <2>1 DEF Agreed, Believing, Pending
  <2>6. Ordered'
    BY <1>2, <2>1 DEF Agreed, Ordered
  <2>7. ClientHas(from)'
    BY <1>1, <2>1 DEF Conversing, ClientHas
  <2>8. Home' <=> Home
    BY <2>3 DEF Home, Requested
  <2>9. Shown(from, quiet)'
    BY <1>1, <1>2, <1>3, <2>1, <2>2, <2>3, <2>8 DEF Conversing, Shown, Requested
  <2> QED BY <1>1, <2>4, <2>5, <2>6, <2>7, <2>9, SameTalk DEF server
<1> QED BY <1>4, <1>5

LEMMA LobbyUpdates ==
  ASSUME TypeOK, Agreed, ~ crossed, ~ crossed',
         PauseUpdate \/ ResultsUpdate \/ \E s \in {"hosting", "guest"} : LobbyUpdate(s)
  PROVE  Agreed'
<1> USE DEF Updating, Open, On, Quiet, Leave, Send
<1>1. CASE PauseUpdate
  <2>1. up' = up \/ \E p \in {"leave", "start"} : up' = Append(up, p)
    BY <1>1 DEF PauseUpdate, OpenOver
  <2>2. push' = push \/ push' \in Passing
    BY <1>1 DEF PauseUpdate, OpenOver, Passing, Closable
  <2> QED BY <1>1, <2>1, <2>2, LobbyFrame DEF PauseUpdate
<1>2. CASE ResultsUpdate
  <2>1. up' = up \/ \E p \in {"leave", "start"} : up' = Append(up, p)
    BY <1>2 DEF ResultsUpdate
  <2>2. push' = push
    BY <1>2 DEF ResultsUpdate
  <2> QED BY <1>2, <2>1, <2>2, LobbyFrame DEF ResultsUpdate
<1>3. ASSUME NEW s \in {"hosting", "guest"}, LobbyUpdate(s)
      PROVE  Agreed'
  <2>1. up' = up \/ \E p \in {"leave", "start"} : up' = Append(up, p)
    BY <1>3 DEF LobbyUpdate, OpenOver, StartGame
  <2>2. push' = push \/ push' \in Passing
    BY <1>3 DEF LobbyUpdate, OpenOver, StartGame, Passing, Closable
  <2> QED BY <1>3, <2>1, <2>2, LobbyFrame DEF LobbyUpdate
<1> QED BY <1>1, <1>2, <1>3

\* The screen that tells the client that it was put out.
LEMMA ForceLeaveFrame ==
  ASSUME TypeOK, Agreed, ~ crossed, ~ crossed', ForceLeaveUpdate
  PROVE  Agreed'
<1> USE DEF Updating, server, account, requests, On
<1>1. CASE NoRequest /\ UNCHANGED <<believes, shouldDisconnect>>
  BY <1>1, PlainFrame DEF ForceLeaveUpdate, NoRequest
<1>2. CASE Request("menu") /\ believes' = OutOfLobby /\ shouldDisconnect' = FALSE
  <2>1. PICK from \in Phases, to \in Phases, quiet \in BOOLEAN : Conversing(from, to, quiet)
    BY DEF Agreed
  <2>2. /\ change = None /\ change' = "menu" /\ believes' = OutOfLobby
        /\ shouldDisconnect' = FALSE /\ frame' = "change" /\ push' = push
        /\ stack # <<>> /\ Last(stack).screen = "forceLeave"
        /\ UNCHANGED <<stack, up, down, lobby, member>>
    BY <1>2 DEF Request, ForceLeaveUpdate
  <2>3. /\ ~ Base(stack, "splash") /\ ~ Base(stack, "connection") /\ ~ Base(stack, "menu")
        /\ Base(stack, "forceLeave")
    BY <2>2, OnlyBase, NotPassing DEF Passing
  <2>4. ~ Sent({"leave"}, up) /\ ~ Sent({"ackLeave"}, down)
    BY <2>1, <2>3 DEF Conversing, Shown
  <2>5. Stacked'
    BY <2>2, NotPassing DEF Agreed, Stacked, Top, Pending, Passing, Screens
  <2>6. Believing'
    BY <2>2 DEF Believing, Pending, OutOfLobby
  <2>7. Ordered'
    BY <2>2, <2>4 DEF Agreed, Ordered
  <2>8. ClientHas(from)'
    BY <2>2 DEF ClientHas, OutOfLobby
  <2>9. Shown(from, quiet)'
    BY <2>2, <2>3, <2>4 DEF Shown, Home, Pending
  <2> QED BY <2>1, <2>2, <2>5, <2>6, <2>7, <2>8, <2>9, SameTalk
<1> QED BY <1>1, <1>2 DEF ForceLeaveUpdate

\* What a click in the menu sends, says and asks for; a question and a logout only from a
\* client that is in no lobby and asks for none.
LEMMA MenuClicks ==
  ASSUME TypeOK, MenuUpdate, ~ crossed'
  PROVE  /\ \/ up' = up
            \/ \E p \in ToServer \ {"leave"} :
                 up' = Append(up, p) /\ (p \in Questions => ~ Asking /\ ~ believes.in)
         /\ \E code \in BOOLEAN :
              /\ believes' = [believes EXCEPT !.code = code]
              /\ code \/ ~ believes.in \/ believes.code = code
         /\ push' = push \/ push' \in Passing
<1> USE DEF Open, Send
<1>0. believes = [believes EXCEPT !.code = believes.code] /\ believes.code \in BOOLEAN
  BY DEF TypeOK, Beliefs
<1>1. Append(up, "request") # up /\ Append(up, "connect") # up /\ Append(up, "logout") # up
  BY DEF TypeOK
<1>2. \A p : Last(Append(up, p)) = p
  BY DEF TypeOK, Last
<1>3. ASSUME NEW p \in {"request", "connect", "logout"}, up' = Append(up, p)
      PROVE  ~ Asking /\ ~ believes.in
  BY <1>1, <1>2, <1>3 DEF MenuUpdate
<1>4. CASE Quiet /\ UNCHANGED <<push, expecting, named, believes>>
  BY <1>0, <1>4 DEF Quiet
<1>5. CASE AskForCode
  BY <1>0, <1>3, <1>5 DEF AskForCode, ToServer
<1>6. CASE JoinByCode
  BY <1>3, <1>6 DEF JoinByCode, ToServer
<1>7. CASE OpenScreen
  <2>1. push' \in Passing
    BY <1>7, ScreensConstants DEF OpenScreen, Passing, Closable
  <2> QED BY <1>0, <1>7, <2>1 DEF OpenScreen, Quiet
<1>8. CASE OpenLeaderboard
  <2>1. push' \in Passing
    BY <1>8 DEF OpenLeaderboard, Passing, Closable
  <2>2. up' = Append(up, "leaderboard") /\ "leaderboard" \in ToServer \ {"leave"}
        /\ "leaderboard" \notin Questions
    BY <1>8 DEF OpenLeaderboard, ToServer, Questions
  <2> QED BY <1>0, <1>8, <2>1, <2>2 DEF OpenLeaderboard
<1>9. CASE LogOut
  BY <1>3, <1>9 DEF LogOut, ToServer
<1> QED BY <1>4, <1>5, <1>6, <1>7, <1>8, <1>9 DEF MenuUpdate, MenuClick

\* The menu, which looks at the lobby and goes to its screen.
LEMMA MenuFrame ==
  ASSUME TypeOK, Agreed, ~ crossed, ~ crossed', MenuUpdate
  PROVE  Agreed'
<1> USE DEF Updating, server, On
<1>1. PICK from \in Phases, to \in Phases, quiet \in BOOLEAN : Conversing(from, to, quiet)
  BY DEF Agreed
<1>2. /\ frame = "update" /\ frame' = "change" /\ stack # <<>> /\ Last(stack).screen = "menu"
      /\ UNCHANGED <<shouldDisconnect, down, lobby, member>>
  BY DEF MenuUpdate
<1>3. PICK code \in BOOLEAN :
        /\ believes' = [believes EXCEPT !.code = code]
        /\ code \/ ~ believes.in \/ believes.code = code
  BY MenuClicks
<1>4. /\ believes'.in = believes.in /\ believes'.master = believes.master
      /\ believes'.ready = believes.ready /\ believes'.code = code
  BY <1>3 DEF TypeOK, Beliefs
<1>5. /\ ~ Base(stack, "splash") /\ ~ Base(stack, "connection") /\ ~ Base(stack, "forceLeave")
      /\ Base(stack, "menu")
  BY <1>2, OnlyBase, NotPassing DEF Passing
<1>6. ~ Sent({"leave"}, up) /\ ~ Sent({"ackLeave"}, down) /\ ~ shouldDisconnect
  BY <1>1, <1>5 DEF Conversing, Shown
\* The stack shows the same screens.
<1>7. /\ stack' \in Seq(OneScreen) /\ stack' # <<>> /\ DOMAIN stack' = DOMAIN stack
      /\ \A i \in DOMAIN stack : stack'[i].screen = stack[i].screen
      /\ Last(stack').screen = "menu"
  <2>1. stack \in Seq(OneScreen) /\ believes.in \in BOOLEAN /\ believes.master \in BOOLEAN
    BY DEF TypeOK, Beliefs
  <2>2. \/ stack' = stack
        \/ stack' = [stack EXCEPT ![Len(stack)].sawLobby = believes.in,
                                  ![Len(stack)].sawMaster = believes.master]
    BY DEF MenuUpdate
  <2>3. CASE stack' = stack
    BY <1>2, <2>1, <2>3
  <2>4. CASE stack' = [stack EXCEPT ![Len(stack)].sawLobby = believes.in,
                                    ![Len(stack)].sawMaster = believes.master]
    BY <1>2, <2>1, <2>4, SawMenu
  <2> QED BY <2>2, <2>3, <2>4
<1>8. \A s : Base(stack', s) <=> Base(stack, s)
  BY <1>7, BaseOfScreens DEF TypeOK
\* What it asks for.
<1>9. \/ change' = change
      \/ change = None /\ change' = "hosting" /\ believes.in /\ code
      \/ change = None /\ change' = "guest" /\ believes.in /\ ~ believes.master
  <2>1. \/ change' = change
        \/ change = None /\ change' = LobbyScreen(Last(stack)) /\ change' # None
    BY DEF MenuUpdate
  <2>2. LobbyScreen(Last(stack)) \in {None, "hosting", "guest"}
    BY DEF LobbyScreen
  <2>3. LobbyScreen(Last(stack)) = "hosting" => believes.master
    BY NotPassing DEF LobbyScreen, Screens, InLobbyScreens
  <2>4. LobbyScreen(Last(stack)) = "guest" => believes.in /\ ~ believes.master
    BY NotPassing DEF LobbyScreen, Screens, InLobbyScreens
  <2>5. believes.master => believes.in /\ code
    BY <1>3 DEF Agreed, Believing
  <2> QED BY <2>1, <2>2, <2>3, <2>4, <2>5
<1>10. /\ Sent({"leave"}, up') <=> Sent({"leave"}, up)
       /\ Sent({"connect"}, up) => Sent({"connect"}, up')
       /\ Precede(Questions, "leave", up) => Precede(Questions, "leave", up')
  <2>1. CASE up' = up
    BY <2>1
  <2>2. ASSUME NEW p \in ToServer \ {"leave"}, up' = Append(up, p)
        PROVE  <1>10
    BY <1>6, <2>2, SentUp
  <2> QED BY <2>1, <2>2, MenuClicks
<1>11. push' = push \/ push' \in Passing
  BY MenuClicks
<1>12. Stacked'
  <2>1. \A i \in DOMAIN stack' :
          stack'[i].screen = "pause" => i > 1 /\ stack'[i - 1].screen = "game"
    <3>1. \A i \in DOMAIN stack : i > 1 => i - 1 \in DOMAIN stack
      BY DEF TypeOK
    <3> QED BY <1>7, <3>1 DEF Agreed, Stacked
  <2>2. stack'[1].screen \notin Closable
    <3>1. 1 \in DOMAIN stack
      BY <1>2 DEF TypeOK
    <3> QED BY <1>7, <3>1 DEF Agreed, Stacked
  <2>3. Top = "menu" /\ Top' = "menu"
    BY <1>2, <1>7 DEF Top
  <2>4. push # None => frame \in {"change", "forget"}
    BY DEF Agreed, Stacked
  <2>5. push' # None => push' \in Passing
    BY <1>2, <1>11, <2>4
  <2>6. change \notin {"menu", "hosting", "guest"} /\ change \notin Closable \cup {"splash"}
    BY <1>2 DEF Agreed, Stacked
  <2>7. ~ Pending("connection")
    BY <2>3 DEF Agreed, Stacked
  <2>8. change' \notin Closable \cup {"splash", "menu"} /\ ~ Pending("connection")'
    BY <1>2, <1>9, <2>6, <2>7, NotPassing DEF Pending, InLobbyScreens
  <2> QED BY <1>2, <1>7, <2>1, <2>2, <2>3, <2>5, <2>8, NotPassing DEF Stacked, Pending, Passing
<1>13. Believing'
  BY <1>2, <1>3, <1>4, <1>9 DEF Agreed, Believing, Pending, Stacked
<1>14. Ordered'
  BY <1>2, <1>6, <1>10 DEF Agreed, Ordered
<1>15. ClientHas(from)'
  BY <1>1, <1>2, <1>4 DEF Conversing, ClientHas
<1>16. from # "out" => ~ shouldDisconnect
  BY <1>1 DEF Conversing, ClientHas
<1>17. believes.in => from # "out" /\ (~ believes.master => from \in {"in", "started"})
  BY <1>1, <1>6 DEF Conversing, ClientHas, Phases
<1>18. Pending("menu")' = FALSE
  BY <1>2, <1>9 DEF Agreed, Stacked, Pending
<1>19. Shown(from, quiet)'
  <2>1. Pending("hosting")' => from # "out"
    BY <1>2, <1>9, <1>17 DEF Agreed, Stacked, Pending
  <2>2. (\E s \in {"guest", "game", "levelComplete", "results"} : Pending(s))' =>
          from \in {"in", "started"}
    <3>1. ASSUME NEW s \in {"guest", "game", "levelComplete", "results"}, Pending(s)'
          PROVE  from \in {"in", "started"}
      <4>1. CASE change' = change
        BY <1>1, <1>2, <1>6, <3>1, <4>1 DEF Conversing, Shown, Pending
      <4>2. CASE change' # change
        BY <1>9, <1>17, <3>1, <4>2 DEF Pending
      <4> QED BY <4>1, <4>2
    <3> QED BY <3>1 DEF Pending
  <2>3. Home'
    BY <1>5, <1>8 DEF Home
  <2> QED BY <1>2, <1>5, <1>6, <1>8, <1>10, <1>18, <2>1, <2>2, <2>3 DEF Shown
<1> QED BY <1>1, <1>2, <1>12, <1>13, <1>14, <1>15, <1>19, SameTalk

\* Nothing that leaves a lobby is under way when nothing is asked or answered.
LEMMA NotAsking ==
  ASSUME ~ Asking
  PROVE  ~ Sent({"leave"}, up) /\ ~ Sent({"ackLeave"}, down)
BY DEF Asking, Sent, ToSet

\* A stack with one more screen over a stack it begins with.
LEMMA StackedOn ==
  ASSUME NEW st \in Seq(OneScreen), NEW below \in Seq(OneScreen), NEW top \in OneScreen,
         st = Append(below, top), \A i \in DOMAIN below : i \in DOMAIN stack /\ below[i] = stack[i],
         Agreed, top.screen \notin Closable \/ below # <<>>,
         top.screen = "pause" => below # <<>> /\ Last(below).screen = "game"
  PROVE  /\ st # <<>> /\ st[1].screen \notin Closable
         /\ \A i \in DOMAIN st : st[i].screen = "pause" => i > 1 /\ st[i - 1].screen = "game"
<1>1. /\ Len(below) \in Nat /\ Len(st) = Len(below) + 1 /\ st[Len(below) + 1] = top
      /\ DOMAIN below = 1 .. Len(below) /\ DOMAIN st = 1 .. (Len(below) + 1)
      /\ \A i \in DOMAIN below : st[i] = below[i]
      /\ st # <<>> /\ Last(below) = below[Len(below)]
      /\ below = <<>> <=> Len(below) = 0
  BY DEF Last
<1>2. st[1].screen \notin Closable
  <2>1. CASE below = <<>>
    BY <1>1, <2>1
  <2>2. CASE below # <<>>
    <3>1. 1 \in DOMAIN below
      BY <1>1, <2>2
    <3> QED BY <1>1, <3>1 DEF Agreed, Stacked
  <2> QED BY <2>1, <2>2
<1>3. ASSUME NEW i \in DOMAIN st, st[i].screen = "pause"
      PROVE  i > 1 /\ st[i - 1].screen = "game"
  <2>1. CASE i \in DOMAIN below
    <3>1. i > 1 /\ stack[i - 1].screen = "game"
      BY <1>1, <1>3, <2>1 DEF Agreed, Stacked
    <3>2. i - 1 \in DOMAIN below
      BY <1>1, <2>1, <3>1
    <3> QED BY <1>1, <3>1, <3>2
  <2>2. CASE i = Len(below) + 1
    <3>1. below # <<>> /\ below[Len(below)].screen = "game" /\ i - 1 = Len(below)
      BY <1>1, <1>3, <2>2
    <3>2. Len(below) \in DOMAIN below /\ i > 1
      BY <1>1, <2>2, <3>1
    <3> QED BY <1>1, <3>1, <3>2
  <2> QED BY <1>1, <2>1, <2>2
<1> QED BY <1>1, <1>2, <1>3

\* The frame changes the screen on top.
LEMMA ChangeStateStep ==
  ASSUME TypeOK, Agreed, ~ crossed, ~ crossed', ChangeState
  PROVE  Agreed'
<1> USE DEF server, requests
<1>1. PICK from \in Phases, to \in Phases, quiet \in BOOLEAN : Conversing(from, to, quiet)
  BY DEF Agreed
<1>2. /\ frame = "change" /\ frame' = "forget"
      /\ UNCHANGED <<change, push, shouldDisconnect, down, lobby, member>>
      /\ change \in {"menu", "forceLeave"} => ~ Asking
  BY DEF ChangeState
<1>3. CASE change = None
  <2>1. UNCHANGED <<stack, believes, up>>
    BY <1>3 DEF ChangeState
  <2>2. \A s \in Requested \cup {"connection"} : ~ Pending(s) /\ ~ Pending(s)'
    BY <1>2, <1>3, NotPassing DEF Pending, Requested, Screens, InLobbyScreens
  <2>3. Stacked'
    BY <1>2, <1>3, <2>1, <2>2 DEF Agreed, Stacked, Top, Requested
  <2>4. Believing' /\ Ordered'
    BY <1>2, <2>1, <2>2 DEF Agreed, Believing, Ordered, Requested
  <2>5. ClientHas(from)'
    BY <1>1, <1>2, <2>1 DEF Conversing, ClientHas
  <2>6. Home' <=> Home
    BY <2>1, <2>2 DEF Home, Requested
  <2>7. Shown(from, quiet)'
    BY <1>1, <1>2, <2>1, <2>2, <2>6 DEF Conversing, Shown, Requested
  <2> QED BY <1>1, <1>2, <2>3, <2>4, <2>5, <2>7, SameTalk
<1>4. CASE change # None
  <2> DEFINE below == Front(stack)
  <2>1. change \in Screens \ Closable /\ change # "splash" /\ change \notin Passing
    BY <1>4 DEF Agreed, Stacked, TypeOK, Passing
  <2>2. stack # <<>> /\ EnterOn(below, change)
    BY <1>4 DEF ChangeState, Agreed, Stacked
  <2>3. below \in Seq(OneScreen) /\ \A i \in DOMAIN below : i \in DOMAIN stack /\ below[i] = stack[i]
    BY <2>2, BasePopped DEF TypeOK
  <2> HIDE DEF below
  <2>4. PICK top \in OneScreen : stack' = Append(below, top) /\ top.screen = change
    BY <2>1, <2>2, <2>3, EnterType
  <2>5. stack' \in Seq(OneScreen) /\ \A s : Base(stack', s) <=> s = change
    BY <2>1, <2>3, <2>4, BasePushed
  <2>6. /\ stack' # <<>> /\ stack'[1].screen \notin Closable
        /\ \A i \in DOMAIN stack' :
             stack'[i].screen = "pause" => i > 1 /\ stack'[i - 1].screen = "game"
    BY <2>1, <2>3, <2>4, <2>5, StackedOn DEF Closable
  <2>7. \A s : ~ Pending(s)' /\ (Pending(s) <=> change = s)
    BY <1>2 DEF Pending
  <2>8. Stacked'
    BY <1>2, <1>4, <2>6, <2>7 DEF Agreed, Stacked
\* What it does to the beliefs, and what it sends.
  <2>9. /\ change = "menu" => ~ believes'.in /\ ~ believes'.ready /\ ~ believes'.master
        /\ change # "menu" => believes' = believes
    BY <2>2 DEF EnterOn, OutOfLobby
  <2>10. Believing'
    BY <2>7, <2>9 DEF Agreed, Believing
  <2>11. ClientHas(from)'
    BY <1>1, <1>2, <2>9 DEF Conversing, ClientHas
  <2>12. CASE change = "hosting"
    <3>1. believes.code /\ up' = Append(up, "connect")
      BY <2>2, <2>7, <2>12 DEF Agreed, Believing, EnterOn
    <3>2. Base(stack, "menu")
      <4>1. Last(stack).screen = "menu"
        BY <2>2, <2>7, <2>12 DEF Agreed, Stacked, Top
      <4> QED BY <2>2, <4>1, TopIsBase DEF TypeOK
    <3>3. ~ Sent({"leave"}, up) /\ ~ Sent({"ackLeave"}, down) /\ ~ shouldDisconnect
      BY <1>1, <3>2 DEF Conversing, Shown
    <3>4. /\ Sent({"connect"}, up')
          /\ Precede(Questions, "leave", up) => Precede(Questions, "leave", up')
      BY <3>1, <3>3, SentUp DEF ToServer
    <3>5. Ordered'
      BY <1>2, <3>3, <3>4 DEF Agreed, Ordered
    <3>6. from # "out"
      BY <1>1, <2>7, <2>12, <3>3 DEF Conversing, Shown
    <3>7. Shown(from, quiet)'
      BY <1>2, <2>5, <2>7, <2>12, <3>3, <3>4, <3>6 DEF Shown
    <3> QED BY <1>1, <1>2, <2>8, <2>10, <2>11, <3>5, <3>7, SameTalk
  <2>13. CASE change # "hosting"
    <3>1. up' = up
      BY <2>2, <2>13 DEF EnterOn
    <3>2. Ordered'
      BY <1>2, <3>1 DEF Agreed, Ordered
    <3>3. CASE change \in {"menu", "forceLeave"}
      <4>1. ~ Sent({"leave"}, up) /\ ~ Sent({"ackLeave"}, down)
        BY <1>2, <3>3, NotAsking
      <4>2. Home'
        BY <2>5, <3>3 DEF Home
      <4>3. change = "menu" => ~ shouldDisconnect
        BY <1>1, <2>7 DEF Conversing, Shown
      <4>4. Shown(from, quiet)'
        BY <1>1, <1>2, <2>5, <2>7, <3>1, <3>3, <4>1, <4>2, <4>3 DEF Conversing, Shown
      <4> QED BY <1>1, <1>2, <2>8, <2>10, <2>11, <3>2, <4>4, SameTalk
    <3>4. CASE change = "connection"
      <4>1. Base(stack, "splash")
        <5>1. Last(stack).screen = "splash"
          BY <2>2, <2>7, <3>4 DEF Agreed, Stacked, Top
        <5> QED BY <2>2, <5>1, TopIsBase DEF TypeOK
      <4>2. Home'
        BY <2>5, <3>4 DEF Home
      <4>3. Shown(from, quiet)'
        BY <1>1, <1>2, <2>5, <2>7, <3>1, <3>4, <4>1, <4>2 DEF Conversing, Shown
      <4> QED BY <1>1, <1>2, <2>8, <2>10, <2>11, <3>2, <4>3, SameTalk
    <3>5. CASE change \in {"guest", "game", "levelComplete", "results"}
      <4>1. from \in {"in", "started"} \/ shouldDisconnect
        BY <1>1, <2>7, <3>5 DEF Conversing, Shown
      <4>2. from # "coded"
        BY <1>1, <4>1 DEF Conversing, ClientHas
      <4>3. Shown(from, quiet)'
        BY <1>1, <1>2, <2>5, <2>7, <3>5, <4>1, <4>2 DEF Conversing, Shown
      <4> QED BY <1>1, <1>2, <2>8, <2>10, <2>11, <3>2, <4>3, SameTalk
    <3> QED BY <2>1, <2>13, <3>3, <3>4, <3>5, NotPassing
  <2> QED BY <2>12, <2>13
<1> QED BY <1>3, <1>4

\* The frame puts a screen on the others.
LEMMA PushStateStep ==
  ASSUME TypeOK, Agreed, ~ crossed, ~ crossed', PushState
  PROVE  Agreed'
<1> USE DEF server, requests
<1>1. PICK from \in Phases, to \in Phases, quiet \in BOOLEAN : Conversing(from, to, quiet)
  BY DEF Agreed
<1>2. /\ frame = "forget" /\ frame' = "pop" /\ change' = None /\ push' = None
      /\ UNCHANGED <<shouldDisconnect, down, lobby, member>>
      /\ push # None => change = None
  BY DEF PushState
<1>3. \A s \in Requested \cup {"connection"} : ~ Pending(s) /\ ~ Pending(s)'
  BY <1>2, NotPassing DEF Pending, Requested, Screens, InLobbyScreens
<1>4. None \notin Closable \cup {"splash", "menu", "hosting", "guest", "pause"}
  BY NotPassing DEF Screens, InLobbyScreens, Closable
<1>5. CASE push = None
  <2>1. UNCHANGED <<stack, believes, up>>
    BY <1>5 DEF PushState
  <2>2. Stacked'
    BY <1>2, <1>3, <1>4, <2>1 DEF Agreed, Stacked, Requested
  <2>3. Believing' /\ Ordered'
    BY <1>2, <1>3, <2>1 DEF Agreed, Believing, Ordered, Requested
  <2>4. ClientHas(from)'
    BY <1>1, <1>2, <2>1 DEF Conversing, ClientHas
  <2>5. Home' <=> Home
    BY <1>3, <2>1 DEF Home, Requested
  <2>6. Shown(from, quiet)'
    BY <1>1, <1>2, <1>3, <2>1, <2>5 DEF Conversing, Shown, Requested
  <2> QED BY <1>1, <1>2, <2>2, <2>3, <2>4, <2>6, SameTalk
<1>6. CASE push # None
  <2>1. /\ push \in Screens /\ push \in Closable \cup {"menu"} /\ change = None
        /\ EnterOn(stack, push) /\ stack # <<>>
        /\ push = "pause" => Last(stack).screen = "game"
        /\ push = "menu" => Last(stack).screen = "connection"
    BY <1>2, <1>6 DEF PushState, TypeOK, Agreed, Stacked, Top
  <2>2. PICK top \in OneScreen : stack' = Append(stack, top) /\ top.screen = push
    BY <2>1, EnterType DEF TypeOK
  <2>3. /\ stack' \in Seq(OneScreen)
        /\ push \in Passing => \A s : s \notin Passing => (Base(stack', s) <=> Base(stack, s))
        /\ push \notin Passing => \A s : Base(stack', s) <=> s = push
    BY <2>2, BasePushed DEF TypeOK
  <2>4. /\ stack' # <<>> /\ stack'[1].screen \notin Closable
        /\ \A i \in DOMAIN stack' :
             stack'[i].screen = "pause" => i > 1 /\ stack'[i - 1].screen = "game"
    BY <2>1, <2>2, <2>3, StackedOn DEF TypeOK
  <2>5. Stacked'
    BY <1>2, <1>3, <1>4, <2>4 DEF Stacked, Requested
  <2>6. /\ push = "menu" => ~ believes'.in /\ ~ believes'.ready /\ ~ believes'.master
        /\ push # "menu" => believes' = believes
        /\ up' = up
    BY <2>1, NotPassing DEF EnterOn, OutOfLobby, InLobbyScreens
  <2>7. Believing' /\ Ordered'
    BY <1>2, <1>3, <2>6 DEF Agreed, Believing, Ordered, Requested
  <2>8. ClientHas(from)'
    BY <1>1, <1>2, <2>6 DEF Conversing, ClientHas
  <2>9. {"splash", "connection", "menu", "forceLeave"} \cap Passing = {} /\ "pause" \notin Passing
    BY NotPassing DEF Passing
  <2>10. CASE push \in Passing
    <3>1. Home' <=> Home
      BY <1>3, <2>3, <2>9, <2>10 DEF Home, Requested
    <3>2. Shown(from, quiet)'
      BY <1>1, <1>2, <1>3, <2>3, <2>6, <2>9, <2>10, <3>1 DEF Conversing, Shown, Requested
    <3> QED BY <1>1, <1>2, <2>5, <2>7, <2>8, <3>2, SameTalk
  <2>11. CASE push = "pause"
    <3>1. "game" \notin Passing
      BY NotPassing DEF Passing, InLobbyScreens
    <3>2. \A s \in {"splash", "connection", "menu", "forceLeave"} : ~ Base(stack, s) /\ ~ Base(stack', s)
      BY <2>1, <2>3, <2>9, <2>11, <3>1, OnlyBase
    <3>3. ~ Home
      BY <1>3, <3>2 DEF Home, Requested
    <3>4. Shown(from, quiet)'
      BY <1>1, <1>2, <1>3, <2>6, <3>2, <3>3 DEF Conversing, Shown, Requested
    <3> QED BY <1>1, <1>2, <2>5, <2>7, <2>8, <3>4, SameTalk
  <2>12. CASE push = "menu"
    <3>1. Base(stack, "connection")
      BY <2>1, <2>12, TopIsBase DEF TypeOK
    <3>2. quiet /\ ~ Sent(Questions \cup {"leave"}, up) /\ ~ shouldDisconnect
      BY <1>1, <3>1 DEF Conversing, Shown
    <3>3. ~ Sent({"leave"}, up)
      BY <3>2 DEF Sent
    <3>4. ~ Sent({"ackLeave"}, down)
      BY <1>1, <3>2, LeadsSays DEF Conversing, TypeOK
    <3>5. Home'
      BY <2>3, <2>9, <2>12 DEF Home
    <3>6. Shown(from, quiet)'
      BY <1>2, <1>3, <2>3, <2>6, <2>9, <2>12, <3>2, <3>3, <3>4, <3>5 DEF Shown, Requested
    <3> QED BY <1>1, <1>2, <2>5, <2>7, <2>8, <3>6, SameTalk
  <2> QED BY <2>1, <2>10, <2>11, <2>12 DEF Passing
<1> QED BY <1>5, <1>6

\* The frame takes a screen off.
LEMMA PopStateStep ==
  ASSUME TypeOK, Agreed, ~ crossed, ~ crossed', PopState
  PROVE  Agreed'
<1> USE DEF server, requests
<1>1. PICK from \in Phases, to \in Phases, quiet \in BOOLEAN : Conversing(from, to, quiet)
  BY DEF Agreed
<1>2. /\ frame = "pop" /\ frame' = "update"
      /\ UNCHANGED <<change, push, believes, up, shouldDisconnect, down, lobby, member>>
      /\ stack # <<>> /\ (pop => Last(stack).screen \in Closable)
      /\ stack' = IF pop THEN Front(stack) ELSE stack
  BY DEF PopState, Agreed, Stacked, Top
<1>3. /\ push = None /\ None \notin {"pause", "menu"} /\ change \notin {"menu", "hosting", "guest"}
      /\ change \notin Closable \cup {"splash"}
      /\ \A s : Pending(s)' <=> Pending(s)
  BY <1>2, NotPassing DEF Agreed, Stacked, Pending, Screens, InLobbyScreens
<1>4. /\ stack' # <<>> /\ stack'[1].screen \notin Closable
      /\ \A i \in DOMAIN stack' :
           stack'[i].screen = "pause" => i > 1 /\ stack'[i - 1].screen = "game"
      /\ Last(stack).screen = "pause" /\ pop => Last(stack').screen = "game"
  <2>1. CASE ~ pop
    BY <1>2, <2>1 DEF Agreed, Stacked
  <2>2. CASE pop
    <3>1. /\ stack \in Seq(OneScreen) /\ Len(stack) \in Nat \ {0} /\ Last(stack) = stack[Len(stack)]
          /\ stack[1].screen \notin Closable /\ stack' = Front(stack)
      BY <1>2, <2>2 DEF TypeOK, Last, Agreed, Stacked
    <3>2. Len(stack) # 1
      BY <1>2, <2>2, <3>1
    <3>3. /\ DOMAIN stack' = 1 .. (Len(stack) - 1) /\ Len(stack') = Len(stack) - 1
          /\ \A i \in DOMAIN stack' : i \in DOMAIN stack /\ stack'[i] = stack[i]
      BY <3>1, BasePopped
    <3>4. stack' # <<>> /\ Last(stack') = stack[Len(stack) - 1]
      BY <3>1, <3>2, <3>3 DEF Last
    <3>5. \A i \in DOMAIN stack' : i > 1 => i - 1 \in DOMAIN stack'
      BY <3>1, <3>3
    <3>6. 1 \in DOMAIN stack' /\ Len(stack) \in DOMAIN stack
      BY <3>1, <3>2, <3>3
    <3> QED BY <2>2, <3>1, <3>3, <3>4, <3>5, <3>6 DEF Agreed, Stacked
  <2> QED BY <2>1, <2>2
<1>5. ~ Pending("connection") \/ stack' = stack
  <2>1. Pending("connection") => Last(stack).screen = "splash"
    BY <1>2 DEF Agreed, Stacked, Top
  <2> QED BY <1>2, <2>1, NotPassing
<1>6. Stacked'
  BY <1>2, <1>3, <1>4, <1>5 DEF Agreed, Stacked, Top, Pending
<1>7. Believing' /\ Ordered'
  BY <1>2, <1>3 DEF Agreed, Believing, Ordered
<1>8. ClientHas(from)'
  BY <1>1, <1>2 DEF Conversing, ClientHas
<1>9. \A s \in {"splash", "connection", "menu", "forceLeave"} : Base(stack', s) <=> Base(stack, s)
  <2>1. {"splash", "connection", "menu", "forceLeave", "pause", "game"} \cap Passing = {}
    BY NotPassing DEF Passing, InLobbyScreens
  <2>2. CASE ~ pop
    BY <1>2, <2>2
  <2>3. CASE pop /\ Last(stack).screen \in Passing
    BY <1>2, <2>1, <2>3, BasePopped DEF TypeOK
  <2>4. CASE pop /\ Last(stack).screen = "pause"
    <3>1. \A s \in {"splash", "connection", "menu", "forceLeave"} : ~ Base(stack, s)
      BY <1>2, <2>1, <2>4, OnlyBase
    <3>2. stack' \in Seq(OneScreen)
      BY <1>2, <2>4, BasePopped DEF TypeOK
    <3>3. \A s \in {"splash", "connection", "menu", "forceLeave"} : ~ Base(stack', s)
      BY <1>4, <2>1, <2>4, <3>2, BaseOfTop
    <3> QED BY <3>1, <3>3
  <2> QED BY <1>2, <2>2, <2>3, <2>4 DEF Passing
<1>10. Home' <=> Home
  BY <1>3, <1>9 DEF Home
<1>11. Shown(from, quiet)'
  BY <1>1, <1>2, <1>3, <1>9, <1>10 DEF Conversing, Shown
<1> QED BY <1>1, <1>2, <1>6, <1>7, <1>8, <1>11, SameTalk

-----------------------------------------------------------------------------
(* The network thread's steps.                                              *)

\* Having read a packet the client is one phase further.
LEMMA NextTalk ==
  ASSUME NEW next \in Phases, NEW to \in Phases, NEW silent \in BOOLEAN,
         Leads(down', next, to, silent), ServerHas(to), UNCHANGED <<lobby, member>>,
         Stacked', Believing', Ordered', ClientHas(next)', Shown(next, silent)'
  PROVE  Agreed'
<1>1. ServerHas(to)'
  BY DEF ServerHas
<1>2. Conversing(next, to, silent)'
  BY <1>1 DEF Conversing
<1> QED BY <1>2 DEF Agreed

\* What is left to read, and what the packet says.
LEMMA Heard ==
  ASSUME TypeOK, Agreed, NEW p, Receive(p), UNCHANGED up
  PROVE  /\ Sent({"ackLeave"}, down) <=> Sent({"ackLeave"}, down') \/ p = "ackLeave"
         /\ Sent({"joined"}, down) <=> Sent({"joined"}, down') \/ p = "joined"
         /\ Sent(Welcomes, down) <=> Sent(Welcomes, down') \/ p \in Welcomes
         /\ Precede(Welcomes, "ackLeave", down')
         /\ p = "ackLeave" => ~ Sent(Welcomes, down)
         /\ \E from, to, next \in Phases, quiet \in BOOLEAN :
              /\ Conversing(from, to, quiet) /\ Tells(p, from, next)
              /\ Leads(down', next, to, quiet \/ p = "ackLeave")
<1>1. down \in Seq(ToClient) /\ down # <<>> /\ Head(down) = p /\ down' = Tail(down)
  BY DEF TypeOK, Receive
<1>2. \A S : Sent(S, down) <=> Sent(S, down') \/ p \in S
  BY <1>1, TailSends
<1>3. Precede(Welcomes, "ackLeave", down') /\ (p = "ackLeave" => ~ Sent(Welcomes, down))
  BY <1>1, TailPrecedes DEF Agreed, Ordered
<1>4. PICK from \in Phases, to \in Phases, quiet \in BOOLEAN : Conversing(from, to, quiet)
  BY DEF Agreed
<1>5. \E next \in Phases :
        Tells(p, from, next) /\ Leads(down', next, to, quiet \/ p = "ackLeave")
  BY <1>1, <1>4, LeadsFrom DEF Conversing
<1> QED BY <1>2, <1>3, <1>4, <1>5

\* The packets that are not about lobbies.
LEMMA OtherPackets ==
  ASSUME TypeOK, Agreed, NEW p \in {"accept", "connectUser", "registerFail"}, Receive(p),
         UNCHANGED <<stack, change, push, frame, believes, shouldDisconnect, up, lobby, member>>
  PROVE  Agreed'
<1>1. PICK from \in Phases, to \in Phases, next \in Phases, quiet \in BOOLEAN :
        /\ Conversing(from, to, quiet) /\ Tells(p, from, next)
        /\ Leads(down', next, to, quiet \/ p = "ackLeave")
  BY Heard
<1>2. next = from /\ (quiet \/ p = "ackLeave") = quiet
  BY <1>1 DEF Tells
<1>3. /\ Sent({"ackLeave"}, down) <=> Sent({"ackLeave"}, down')
      /\ Sent({"joined"}, down) <=> Sent({"joined"}, down')
      /\ Sent(Welcomes, down) <=> Sent(Welcomes, down')
      /\ Precede(Welcomes, "ackLeave", down')
  BY Heard DEF Welcomes
<1>4. Stacked' /\ Believing'
  BY DEF Agreed, Stacked, Believing, Top, Pending
<1>5. Ordered'
  BY <1>3 DEF Agreed, Ordered
<1>6. ClientHas(from)'
  BY <1>1 DEF Conversing, ClientHas
<1>7. Home' <=> Home
  BY DEF Home, Pending
<1>8. Shown(from, quiet)'
  BY <1>1, <1>3, <1>7 DEF Conversing, Shown, Pending
<1> QED BY <1>1, <1>2, <1>4, <1>5, <1>6, <1>8, NextTalk DEF Conversing

LEMMA HandleCodeStep ==
  ASSUME TypeOK, Agreed, HandleCode
  PROVE  Agreed'
<1> USE DEF server, requests, account
<1>0. /\ Receive("code") /\ believes' = [believes EXCEPT !.in = TRUE, !.master = TRUE, !.code = TRUE]
      /\ UNCHANGED <<stack, change, push, frame, shouldDisconnect, up, lobby, member>>
  BY DEF HandleCode
<1>1. PICK from \in Phases, to \in Phases, next \in Phases, quiet \in BOOLEAN :
        /\ Conversing(from, to, quiet) /\ Tells("code", from, next)
        /\ Leads(down', next, to, quiet \/ "code" = "ackLeave")
  BY <1>0, Heard
<1>2. /\ Sent({"ackLeave"}, down) <=> Sent({"ackLeave"}, down')
      /\ Sent({"joined"}, down) <=> Sent({"joined"}, down')
      /\ Sent(Welcomes, down') => Sent(Welcomes, down)
      /\ Sent(Welcomes, down) /\ Precede(Welcomes, "ackLeave", down')
  BY <1>0, Heard DEF Welcomes
<1>3. /\ believes'.in /\ believes'.master /\ believes'.code
      /\ believes'.ready = believes.ready
  BY <1>0 DEF TypeOK, Beliefs
<1>4. ~ quiet /\ ~ shouldDisconnect
  BY <1>1, <1>2, LeadsSays DEF Agreed, Ordered, Conversing, TypeOK
<1>5. /\ next # "out" /\ (from # "out" => next = from) /\ (from = "out" => next = "coded")
  BY <1>1 DEF Tells
<1>6. Stacked' /\ Believing'
  BY <1>0, <1>3 DEF Agreed, Stacked, Believing, Top, Pending
<1>7. Ordered'
  BY <1>0, <1>2, <1>4 DEF Agreed, Ordered
<1>8. ClientHas(next)'
  BY <1>0, <1>1, <1>3, <1>4, <1>5 DEF Conversing, ClientHas
<1>9. Home' <=> Home
  BY <1>0 DEF Home, Pending
<1>10. Shown(next, FALSE)'
  BY <1>0, <1>1, <1>2, <1>4, <1>5, <1>9 DEF Conversing, Shown, Pending
<1>11. Leads(down', next, to, FALSE)
  BY <1>1, <1>4 DEF Leads
<1> QED BY <1>0, <1>1, <1>6, <1>7, <1>8, <1>10, <1>11, NextTalk DEF Conversing

LEMMA HandleLobbyConnectValueStep ==
  ASSUME TypeOK, Agreed, HandleLobbyConnectValue
  PROVE  Agreed'
<1> USE DEF server, requests, account
<1>0. UNCHANGED <<stack, change, push, frame, shouldDisconnect, up, lobby, member>>
  BY DEF HandleLobbyConnectValue
<1>1. CASE Receive("joined") /\ believes' = [believes EXCEPT !.in = TRUE]
  <2>1. PICK from \in Phases, to \in Phases, next \in Phases, quiet \in BOOLEAN :
          /\ Conversing(from, to, quiet) /\ Tells("joined", from, next)
          /\ Leads(down', next, to, quiet \/ "joined" = "ackLeave")
    BY <1>0, <1>1, Heard
  <2>2. /\ Sent({"ackLeave"}, down) <=> Sent({"ackLeave"}, down')
        /\ Sent(Welcomes, down') => Sent(Welcomes, down)
        /\ Sent(Welcomes, down) /\ Precede(Welcomes, "ackLeave", down')
    BY <1>0, <1>1, Heard DEF Welcomes
  <2>3. /\ believes'.in /\ believes'.master = believes.master /\ believes'.code = believes.code
        /\ believes'.ready = believes.ready
    BY <1>1 DEF TypeOK, Beliefs
  <2>4. ~ quiet /\ ~ shouldDisconnect
    BY <2>1, <2>2, LeadsSays DEF Agreed, Ordered, Conversing, TypeOK
  <2>5. next \in {"in", "started"} /\ (next = "in" => from # "started")
    BY <2>1 DEF Tells
  <2>6. Stacked' /\ Believing'
    BY <1>0, <2>3 DEF Agreed, Stacked, Believing, Top, Pending
  <2>7. Ordered'
    BY <1>0, <2>2, <2>4 DEF Agreed, Ordered
  <2>8. ClientHas(next)'
    BY <1>0, <2>1, <2>3, <2>4, <2>5 DEF Conversing, ClientHas, Phases
  <2>9. Shown(next, FALSE)'
    BY <1>0, <2>1, <2>2, <2>4, <2>5 DEF Conversing, Shown, Pending
  <2>10. Leads(down', next, to, FALSE)
    BY <2>1, <2>4 DEF Leads
  <2> QED BY <1>0, <2>1, <2>6, <2>7, <2>8, <2>9, <2>10, NextTalk DEF Conversing
<1>2. CASE Receive("refused") /\ believes' = [OutOfLobby EXCEPT !.ready = believes.ready]
  <2>1. PICK from \in Phases, to \in Phases, next \in Phases, quiet \in BOOLEAN :
          /\ Conversing(from, to, quiet) /\ Tells("refused", from, next)
          /\ Leads(down', next, to, quiet \/ "refused" = "ackLeave")
    BY <1>0, <1>2, Heard
  <2>2. /\ Sent({"ackLeave"}, down) <=> Sent({"ackLeave"}, down')
        /\ Sent({"joined"}, down) <=> Sent({"joined"}, down')
        /\ Sent(Welcomes, down') <=> Sent(Welcomes, down)
        /\ Precede(Welcomes, "ackLeave", down')
    BY <1>0, <1>2, Heard DEF Welcomes
  <2>3. ~ believes'.in /\ ~ believes'.master /\ believes'.ready = believes.ready
    BY <1>2 DEF OutOfLobby
  <2>4. next = "out" /\ from = "out" /\ (quiet \/ "refused" = "ackLeave") = quiet
    BY <2>1 DEF Tells
  <2>5. ~ Pending("hosting")
    <3>1. ASSUME Pending("hosting")
          PROVE  Base(stack, "menu")
      <4>1. stack # <<>> /\ Last(stack).screen = "menu"
        BY <3>1 DEF Agreed, Stacked, Top
      <4> QED BY <4>1, TopIsBase DEF TypeOK
    <3> QED BY <2>1, <2>4, <3>1 DEF Conversing, Shown
  <2>6. Stacked' /\ Believing'
    BY <1>0, <2>3, <2>5 DEF Agreed, Stacked, Believing, Top, Pending
  <2>7. Ordered'
    BY <1>0, <2>2 DEF Agreed, Ordered
  <2>8. ClientHas(next)'
    BY <1>0, <2>1, <2>3, <2>4 DEF Conversing, ClientHas
  <2>9. Home' <=> Home
    BY <1>0 DEF Home, Pending
  <2>10. Shown(next, quiet)'
    BY <1>0, <2>1, <2>2, <2>4, <2>9 DEF Conversing, Shown, Pending
  <2> QED BY <1>0, <2>1, <2>4, <2>6, <2>7, <2>8, <2>10, NextTalk DEF Conversing
<1> QED BY <1>1, <1>2 DEF HandleLobbyConnectValue

\* The packets of the game ask for its screens.
LEMMA HandleGameStep ==
  ASSUME TypeOK, Agreed, ~ crossed, ~ crossed', HandleCanStart \/ HandleGameScreen
  PROVE  Agreed'
<1> USE DEF server, requests, account
<1>0. /\ UNCHANGED <<stack, push, frame, shouldDisconnect, up, lobby, member>>
      /\ \E p \in {"canStart", "levelComplete", "nextLevel", "endGame"} :
           /\ Receive(p)
           /\ p = "canStart" => HandleCanStart
           /\ p # "canStart" => HandleGameScreen /\ believes' = believes
  BY DEF HandleCanStart, HandleGameScreen
<1>1. PICK p \in {"canStart", "levelComplete", "nextLevel", "endGame"} :
        /\ Receive(p)
        /\ p = "canStart" => HandleCanStart
        /\ p # "canStart" => HandleGameScreen /\ believes' = believes
  BY <1>0
<1>2. PICK from \in Phases, to \in Phases, next \in Phases, quiet \in BOOLEAN :
        /\ Conversing(from, to, quiet) /\ Tells(p, from, next)
        /\ Leads(down', next, to, quiet \/ p = "ackLeave")
  BY <1>0, <1>1, Heard
<1>3. /\ Sent({"ackLeave"}, down) <=> Sent({"ackLeave"}, down')
      /\ Sent(Welcomes, down) <=> Sent(Welcomes, down')
      /\ Precede(Welcomes, "ackLeave", down')
  BY <1>0, <1>1, Heard DEF Welcomes
<1>4. /\ from \in {"in", "started"} /\ next \in {"in", "started"}
      /\ p = "canStart" => from = "in" /\ next = "started"
      /\ p # "canStart" => next = from
  BY <1>2 DEF Tells
<1>5. ~ shouldDisconnect /\ ~ quiet
  BY <1>2, <1>4, LeadsEnds DEF Conversing, ClientHas, TypeOK
<1>6. PICK s \in {"game", "levelComplete", "results"} :
        change = None /\ frame # "forget" /\ change' = s
  <2>1. CASE p = "canStart"
    <3>1. ~ believes.ready
      BY <1>2, <1>4, <2>1 DEF Conversing, ClientHas
    <3> QED BY <1>1, <2>1, <3>1 DEF HandleCanStart, Request
  <2>2. CASE p # "canStart"
    BY <1>1, <2>2 DEF HandleGameScreen, Request
  <2> QED BY <2>1, <2>2
<1>7. /\ believes'.in = believes.in /\ believes'.master = believes.master
      /\ believes'.code = believes.code
      /\ believes'.ready = (believes.ready \/ p = "canStart")
  <2>1. believes \in Beliefs
    BY DEF TypeOK
  <2>2. CASE p = "canStart"
    <3>1. ~ believes.ready
      BY <1>2, <1>4, <2>2 DEF Conversing, ClientHas
    <3>2. believes' = [believes EXCEPT !.ready = TRUE]
      BY <1>1, <2>2, <3>1 DEF HandleCanStart
    <3> QED BY <2>1, <2>2, <3>2 DEF Beliefs
  <2>3. CASE p # "canStart"
    BY <1>1, <2>1, <2>3 DEF Beliefs
  <2> QED BY <2>2, <2>3
<1>8. /\ ~ Pending("menu")' /\ ~ Pending("hosting")' /\ ~ Pending("guest")'
      /\ ~ Pending("connection")'
  BY <1>6 DEF Pending
<1>9. Stacked'
  <2>1. s \notin Closable \cup {"splash"}
    BY <1>6, NotPassing DEF InLobbyScreens
  <2>2. s # None
    BY <1>6, NotPassing DEF Screens, InLobbyScreens
  <2> QED BY <1>0, <1>6, <1>8, <2>1, <2>2 DEF Agreed, Stacked
<1>10. Believing'
  BY <1>7, <1>8 DEF Agreed, Believing
<1>11. Ordered'
  BY <1>0, <1>3 DEF Agreed, Ordered
<1>12. ClientHas(next)'
  BY <1>0, <1>2, <1>4, <1>5, <1>7 DEF Conversing, ClientHas
<1>13. Shown(next, FALSE)'
  BY <1>0, <1>2, <1>3, <1>4, <1>5, <1>8 DEF Conversing, Shown
<1>14. Leads(down', next, to, FALSE)
  BY <1>1, <1>2, <1>5 DEF Leads
<1> QED BY <1>0, <1>2, <1>9, <1>10, <1>11, <1>12, <1>13, <1>14, NextTalk DEF Conversing

LEMMA HandleForceLeaveStep ==
  ASSUME TypeOK, Agreed, ~ crossed, ~ crossed', HandleForceLeave
  PROVE  Agreed'
<1> USE DEF server, requests, account
<1>0. /\ Receive("forceLeave") /\ believes' = OutOfLobby
      /\ UNCHANGED <<stack, push, frame, shouldDisconnect, up, lobby, member>>
      /\ change = None /\ frame # "forget" /\ change' = "forceLeave"
  BY DEF HandleForceLeave, Request
<1>1. PICK from \in Phases, to \in Phases, next \in Phases, quiet \in BOOLEAN :
        /\ Conversing(from, to, quiet) /\ Tells("forceLeave", from, next)
        /\ Leads(down', next, to, quiet \/ "forceLeave" = "ackLeave")
  BY <1>0, Heard
<1>2. /\ Sent({"ackLeave"}, down) <=> Sent({"ackLeave"}, down')
      /\ Sent(Welcomes, down) <=> Sent(Welcomes, down')
      /\ Precede(Welcomes, "ackLeave", down')
  BY <1>0, Heard DEF Welcomes
<1>3. from \in {"in", "started"} /\ next = "out"
  BY <1>1 DEF Tells
<1>4. ~ shouldDisconnect /\ ~ quiet
  BY <1>1, <1>3, LeadsEnds DEF Conversing, ClientHas, TypeOK
<1>5. \A s \in (Requested \cup {"connection"}) \ {"forceLeave"} : ~ Pending(s)'
  BY <1>0 DEF Pending
<1>6. Stacked'
  <2>1. "forceLeave" \notin Closable \cup {"splash"} /\ "forceLeave" # None
    BY NotPassing DEF Screens
  <2> QED BY <1>0, <1>5, <2>1 DEF Agreed, Stacked, Requested
<1>7. Believing'
  BY <1>0 DEF Believing, OutOfLobby, Pending
<1>8. Ordered'
  BY <1>0, <1>2 DEF Agreed, Ordered
<1>9. ClientHas(next)'
  BY <1>0, <1>3 DEF ClientHas, OutOfLobby
<1>10. Home'
  BY <1>0 DEF Home, Pending
<1>11. Shown(next, FALSE)'
  BY <1>0, <1>1, <1>2, <1>3, <1>4, <1>5, <1>10 DEF Conversing, Shown, Requested
<1>12. Leads(down', next, to, FALSE)
  BY <1>1, <1>4 DEF Leads
<1> QED BY <1>0, <1>1, <1>6, <1>7, <1>8, <1>9, <1>11, <1>12, NextTalk DEF Conversing

LEMMA HandleAckLeaveLobbyStep ==
  ASSUME TypeOK, Agreed, HandleAckLeaveLobby
  PROVE  Agreed'
<1> USE DEF server, requests, account
<1>0. /\ Receive("ackLeave") /\ shouldDisconnect' = TRUE
      /\ UNCHANGED <<stack, change, push, frame, believes, up, lobby, member>>
  BY DEF HandleAckLeaveLobby
<1>1. PICK from \in Phases, to \in Phases, next \in Phases, quiet \in BOOLEAN :
        /\ Conversing(from, to, quiet) /\ Tells("ackLeave", from, next)
        /\ Leads(down', next, to, quiet \/ "ackLeave" = "ackLeave")
  BY <1>0, Heard
<1>2. /\ Sent({"ackLeave"}, down) /\ ~ Sent(Welcomes, down) /\ ~ Sent(Welcomes, down')
      /\ Precede(Welcomes, "ackLeave", down')
  BY <1>0, Heard DEF Welcomes
<1>3. from \in {"in", "started"} /\ next = "out"
  BY <1>1 DEF Tells
<1>4. ~ Sent(Questions, up)
  BY <1>2 DEF Agreed, Ordered
<1>5. ~ quiet
  BY <1>1, <1>3, LeadsEnds DEF Conversing, TypeOK
<1>6. /\ ~ Base(stack, "splash") /\ ~ Base(stack, "connection") /\ ~ Base(stack, "menu")
      /\ ~ Base(stack, "forceLeave") /\ ~ Pending("menu")
  BY <1>1, <1>2, <1>5 DEF Conversing, Shown
<1>7. Stacked' /\ Believing'
  BY <1>0 DEF Agreed, Stacked, Believing, Top, Pending
<1>8. Ordered'
  BY <1>0, <1>2, <1>4 DEF Agreed, Ordered
<1>9. ClientHas(next)'
  BY <1>0, <1>3 DEF ClientHas
<1>10. Shown(next, TRUE)'
  BY <1>0, <1>3, <1>6 DEF Shown, Pending
<1>11. Leads(down', next, to, TRUE)
  BY <1>1 DEF Leads
<1> QED BY <1>0, <1>1, <1>7, <1>8, <1>9, <1>10, <1>11, NextTalk DEF Conversing

\* The network thread keeps the client and the server agreed.
LEMMA NetworkStep ==
  ASSUME TypeOK, Agreed, ~ crossed', NetworkThread
  PROVE  Agreed'
<1> USE DEF server, requests, account
<1>1. CASE Accept \/ HandleConnectUser \/ HandleRegisterFail
  BY <1>1, OtherPackets DEF Accept, HandleConnectUser, HandleRegisterFail
<1> QED BY <1>1, HandleCodeStep, HandleLobbyConnectValueStep, HandleGameStep,
           HandleForceLeaveStep, HandleAckLeaveLobbyStep DEF NetworkThread

-----------------------------------------------------------------------------
(* The server's steps.                                                      *)

\* The server reads the packet h, or none.
Reads(h) == \/ h = "none" /\ up' = up
            \/ up # <<>> /\ h = Head(up) /\ up' = Tail(up)

\* What is left for it to read.
LEMMA LeftUp ==
  ASSUME TypeOK, Agreed, NEW h, Reads(h)
  PROVE  /\ Sent(Questions, up) <=> Sent(Questions, up') \/ h \in Questions
         /\ Sent({"leave"}, up) <=> Sent({"leave"}, up') \/ h = "leave"
         /\ Sent({"connect"}, up) <=> Sent({"connect"}, up') \/ h = "connect"
         /\ Sent(Questions \cup {"leave"}, up) <=>
              Sent(Questions \cup {"leave"}, up') \/ h \in Questions \cup {"leave"}
         /\ Precede(Questions, "leave", up')
         /\ h = "leave" => ~ Sent(Questions, up)
<1>1. up \in Seq(ToServer) /\ Precede(Questions, "leave", up)
  BY DEF TypeOK, Agreed, Ordered
<1>2. CASE h = "none" /\ up' = up
  BY <1>1, <1>2 DEF Questions
<1>3. CASE up # <<>> /\ h = Head(up) /\ up' = Tail(up)
  <2>1. \A S : Sent(S, up) <=> Sent(S, up') \/ h \in S
    BY <1>1, <1>3, TailSends
  <2>2. Precede(Questions, "leave", up') /\ (h = "leave" => ~ Sent(Questions, up))
    BY <1>1, <1>3, TailPrecedes
  <2> QED BY <2>1, <2>2
<1> QED BY <1>2, <1>3 DEF Reads

\* A packet to the client tells it the phase the server has come to: a welcome answers a
\* question, and an acknowledgement a leave.
LEMMA Told ==
  ASSUME TypeOK, Agreed, NEW from \in Phases, NEW to \in Phases, NEW quiet \in BOOLEAN,
         Conversing(from, to, quiet), NEW h, Reads(h),
         NEW x \in ToClient, down' = Append(down, x),
         NEW next \in Phases, Tells(x, to, next), ServerHas(next)',
         x \in Welcomes => h \in Questions, x = "ackLeave" => h = "leave",
         h = "connect" => next # "coded",
         UNCHANGED <<stack, change, push, frame, believes, shouldDisconnect>>
  PROVE  Agreed'
<1> DEFINE silent == quiet /\ next = "out"
<1>1. down \in Seq(ToClient)
  BY DEF TypeOK
<1>2. /\ quiet => to = "out" /\ from = "out"
      /\ Sent({"ackLeave"}, down) => to = "out"
  BY <1>1, LeadsEnds, LeadsSays DEF Conversing
<1>3. x \notin Welcomes /\ to = "out" => next = "out" /\ x # "ackLeave"
  BY DEF Tells, Welcomes
<1>4. x \in Welcomes => Sent(Questions, up) /\ ~ shouldDisconnect /\ ~ Sent({"ackLeave"}, down)
  BY LeftUp DEF Agreed, Ordered
<1>5. Leads(down', from, next, silent)
  <2>1. Leads(down, from, to, quiet)
    BY DEF Conversing
  <2>2. Sent({"ackLeave"}, down) => next = "out"
    BY <1>2, <1>3, <1>4
  <2> QED BY <1>1, <2>1, <2>2, LeadsOn
<1>6. /\ down' \in Seq(ToClient)
      /\ Sent({"ackLeave"}, down') <=> Sent({"ackLeave"}, down) \/ x = "ackLeave"
      /\ Sent({"joined"}, down') <=> Sent({"joined"}, down) \/ x = "joined"
      /\ Sent(Welcomes, down') <=> Sent(Welcomes, down) \/ x \in Welcomes
  BY <1>1, AppendSends
<1>7. Precede(Welcomes, "ackLeave", down')
  BY <1>1, <1>4, AppendPrecedes DEF Agreed, Ordered, Welcomes
<1>8. from = "coded" /\ next # "coded" => Sent({"joined"}, down')
  BY <1>5, <1>6, LeadsSays
<1>9. shouldDisconnect => silent
  BY <1>2, <1>3, <1>4 DEF Conversing, Shown
<1>10. quiet /\ x \notin Welcomes => silent
  BY <1>2, <1>3
<1> HIDE DEF silent
<1>11. Stacked' /\ Believing'
  BY DEF Agreed, Stacked, Believing, Top, Pending
<1>12. Ordered'
  BY <1>4, <1>6, <1>7, LeftUp DEF Agreed, Ordered
<1>13. ClientHas(from)'
  BY DEF Conversing, ClientHas
<1>14. Home' <=> Home
  BY DEF Home, Pending
\* An acknowledgement leaves nobody in the menu, nor on the way to it.
<1>15. x = "ackLeave" => Sent({"leave"}, up) /\ ~ quiet
  BY <1>2, <1>3, LeftUp DEF Welcomes
<1>16. Pending("menu") =>
         /\ ~ shouldDisconnect /\ ~ Sent({"ackLeave"}, down')
         /\ ~ Sent({"leave"}, up') \/ (silent /\ ~ Sent(Questions, up'))
  BY <1>4, <1>6, <1>10, <1>15, LeftUp DEF Conversing, Shown
<1>17. Base(stack, "splash") \/ Base(stack, "connection") =>
         silent /\ ~ Sent(Questions \cup {"leave"}, up') /\ ~ shouldDisconnect
  <2>1. Sent(Questions, up) => Sent(Questions \cup {"leave"}, up)
    BY DEF Sent
  <2> QED BY <1>4, <1>10, <2>1, LeftUp DEF Conversing, Shown
<1>18. /\ Base(stack, "forceLeave") => ~ Sent({"leave"}, up') /\ ~ Sent({"ackLeave"}, down')
       /\ Base(stack, "menu") =>
            ~ Sent({"leave"}, up') /\ ~ Sent({"ackLeave"}, down') /\ ~ shouldDisconnect
  BY <1>6, <1>15, LeftUp DEF Conversing, Shown
<1>19. from = "coded" =>
         Home \/ Pending("hosting") \/ Sent({"connect"}, up') \/ Sent({"joined"}, down')
  BY <1>6, <1>8, LeftUp DEF Conversing, Shown
<1>20. Shown(from, silent)'
  BY <1>9, <1>14, <1>16, <1>17, <1>18, <1>19 DEF Conversing, Shown, Pending
<1>21. Conversing(from, next, silent)'
  BY <1>5, <1>13, <1>20 DEF Conversing
<1>22. silent \in BOOLEAN
  BY DEF silent
<1> QED BY <1>11, <1>12, <1>21, <1>22 DEF Agreed

\* A step of the server that tells the client nothing.
LEMMA Untold ==
  ASSUME TypeOK, Agreed, NEW from \in Phases, NEW to \in Phases, NEW quiet \in BOOLEAN,
         Conversing(from, to, quiet), NEW h, Reads(h), h # "connect",
         ServerHas(to)',
         UNCHANGED <<stack, change, push, frame, believes, shouldDisconnect, down>>
  PROVE  Agreed'
<1>1. Stacked' /\ Believing'
  BY DEF Agreed, Stacked, Believing, Top, Pending
<1>2. Ordered'
  BY LeftUp DEF Agreed, Ordered
<1>3. ClientHas(from)'
  BY DEF Conversing, ClientHas
<1>4. Home' <=> Home
  BY DEF Home, Pending
<1>5. Shown(from, quiet)'
  BY <1>4, LeftUp DEF Conversing, Shown, Pending
<1> QED BY <1>1, <1>2, <1>3, <1>5 DEF Agreed, Conversing

\* The answer to a packet.
LEMMA ServeStep ==
  ASSUME TypeOK, Agreed, Serve
  PROVE  Agreed'
<1> USE DEF server, requests, account
<1>1. PICK from \in Phases, to \in Phases, quiet \in BOOLEAN : Conversing(from, to, quiet)
  BY DEF Agreed
<1> DEFINE h == Head(up)
<1>2. PICK a \in Answers(h) : down' = down \o a
  BY DEF Serve
<1>3. /\ up # <<>> /\ h \in ToServer /\ Reads(h)
      /\ UNCHANGED <<stack, change, push, frame, believes, shouldDisconnect>>
      /\ CASE h = "request" /\ lobby = "none" -> lobby' = "waiting" /\ member' = FALSE
           [] h = "connect"  -> member' = (member \/ lobby # "none") /\ UNCHANGED lobby
           [] h = "start" /\ lobby = "waiting" -> lobby' = "playing" /\ UNCHANGED member
           [] h = "leave"    -> member' = FALSE /\ lobby' \in {lobby, IF member THEN "none" ELSE lobby}
           [] OTHER -> UNCHANGED server
  BY TailSends DEF Serve, Reads, TypeOK
<1> HIDE DEF h
<1>4. /\ down \in Seq(ToClient)
      /\ a = <<>> => down' = down
      /\ \A x \in ToClient : a = <<x>> => down' = Append(down, x)
  BY <1>2, AppendAnswer DEF TypeOK
<1>5. ServerHas(to) /\ Leads(down, from, to, quiet) /\ member \in BOOLEAN
  BY <1>1 DEF Conversing, TypeOK
<1>6. CASE h = "request"
  <2> DEFINE next == IF to = "out" THEN "coded" ELSE to
  <2>1. a = <<"code">> /\ "code" \in ToClient
    BY <1>2, <1>6 DEF Answers, ToClient
  <2>2. next \in Phases /\ Tells("code", to, next)
    BY DEF Phases, Tells
  <2>3. lobby' # "none" /\ (lobby # "none" => lobby' = lobby /\ member' = member)
        /\ (lobby = "none" => lobby' = "waiting" /\ member' = FALSE)
    BY <1>3, <1>6
  <2>4. ServerHas(next)'
    BY <1>5, <2>3 DEF ServerHas
  <2> HIDE DEF next
  <2>5. down' = Append(down, "code")
    BY <1>4, <2>1
  <2>6. "code" # "ackLeave" /\ h \in Questions /\ h # "connect"
    BY <1>6 DEF Questions
  <2> QED BY <1>1, <1>3, <2>1, <2>2, <2>4, <2>5, <2>6, Told
<1>7. CASE h = "connect"
  <2>1. member' = (member \/ lobby # "none") /\ lobby' = lobby
    BY <1>3, <1>7
  <2>2. CASE lobby = "none"
    <3>1. a = <<"refused">> /\ "refused" \in ToClient
      BY <1>2, <1>7, <2>2 DEF Answers, ToClient
    <3>2. to = "out" /\ Tells("refused", to, to)
      BY <1>5, <2>2 DEF ServerHas, Tells
    <3>3. ServerHas(to)'
      BY <1>5, <2>1, <2>2 DEF ServerHas
    <3>4. down' = Append(down, "refused")
      BY <1>4, <3>1
    <3> QED BY <1>1, <1>3, <3>1, <3>2, <3>3, <3>4, Told DEF Welcomes
  <2>3. CASE lobby # "none"
    <3> DEFINE next == IF to = "started" THEN to ELSE "in"
    <3>1. a = <<"joined">> /\ "joined" \in ToClient
      BY <1>2, <1>7, <2>3 DEF Answers, ToClient
    <3>2. next \in Phases /\ Tells("joined", to, next) /\ next # "coded"
      BY DEF Phases, Tells
    <3>3. ServerHas(next)'
      BY <1>5, <2>1, <2>3 DEF ServerHas
    <3> HIDE DEF next
    <3>4. down' = Append(down, "joined")
      BY <1>4, <3>1
    <3>5. h \in Questions
      BY <1>7 DEF Questions
    <3> QED BY <1>1, <1>3, <3>1, <3>2, <3>3, <3>4, <3>5, Told
  <2> QED BY <2>2, <2>3
<1>8. CASE h = "start"
  <2>1. lobby = "waiting" => lobby' = "playing" /\ member' = member
    BY <1>3, <1>8
  <2>2. CASE lobby = "waiting" /\ member
    <3>1. a = <<"canStart">> /\ "canStart" \in ToClient
      BY <1>2, <1>8, <2>2 DEF Answers, ToClient
    <3>2. to = "in" /\ Tells("canStart", to, "started")
      BY <1>5, <2>2 DEF ServerHas, Tells
    <3>3. ServerHas("started")'
      BY <2>1, <2>2 DEF ServerHas
    <3>4. down' = Append(down, "canStart")
      BY <1>4, <3>1
    <3>5. "started" \in Phases
      BY DEF Phases
    <3> QED BY <1>1, <1>3, <1>8, <3>1, <3>2, <3>3, <3>4, <3>5, Told DEF Welcomes
  <2>3. CASE ~ (lobby = "waiting" /\ member)
    <3>1. a = <<>>
      BY <1>2, <1>8, <2>3 DEF Answers
    <3>2. lobby # "waiting" => lobby' = lobby /\ member' = member
      BY <1>3, <1>8
    <3>3. ServerHas(to)'
      BY <1>5, <2>1, <2>3, <3>2 DEF ServerHas
    <3> QED BY <1>1, <1>3, <1>4, <1>8, <3>1, <3>3, Untold
  <2> QED BY <2>2, <2>3
<1>9. CASE h = "leave"
  <2>1. member' = FALSE /\ lobby' \in {lobby, IF member THEN "none" ELSE lobby}
    BY <1>3, <1>9
  <2>2. CASE member
    <3>1. a = <<"ackLeave">> /\ "ackLeave" \in ToClient
      BY <1>2, <1>9, <2>2 DEF Answers, ToClient
    <3>2. "out" \in Phases /\ Tells("ackLeave", to, "out")
      BY <1>5, <2>2 DEF ServerHas, Tells, Phases
    <3>3. ServerHas("out")'
      BY <2>1 DEF ServerHas
    <3>4. down' = Append(down, "ackLeave")
      BY <1>4, <3>1
    <3> QED BY <1>1, <1>3, <1>9, <3>1, <3>2, <3>3, <3>4, Told DEF Welcomes
  <2>3. CASE ~ member
    <3>1. a = <<>>
      BY <1>2, <1>9, <2>3 DEF Answers
    <3>2. lobby' = lobby
      BY <2>1, <2>3
    <3>3. ServerHas(to)'
      BY <1>5, <2>1, <2>3, <3>2 DEF ServerHas
    <3> QED BY <1>1, <1>3, <1>4, <1>9, <3>1, <3>3, Untold
  <2> QED BY <2>2, <2>3
<1>10. CASE h \notin {"request", "connect", "start", "leave"}
  <2>1. UNCHANGED <<lobby, member>>
    BY <1>3, <1>10
  <2>2. ServerHas(to)'
    BY <1>5, <2>1 DEF ServerHas
  <2>3. a = <<>> \/ \E x \in {"accept", "connectUser", "registerFail"} : a = <<x>>
    BY <1>2, <1>10 DEF Answers
  <2>4. CASE a = <<>>
    BY <1>1, <1>3, <1>4, <1>10, <2>2, <2>4, Untold
  <2>5. ASSUME NEW x \in {"accept", "connectUser", "registerFail"}, a = <<x>>
        PROVE  Agreed'
    <3>1. x \in ToClient /\ x \notin Welcomes /\ Tells(x, to, to)
      BY DEF ToClient, Welcomes, Tells
    <3>2. down' = Append(down, x)
      BY <1>4, <2>5, <3>1
    <3> QED BY <1>1, <1>3, <1>10, <2>2, <3>1, <3>2, Told
  <2> QED BY <2>3, <2>4, <2>5
<1> QED BY <1>6, <1>7, <1>8, <1>9, <1>10

\* What the others and the administrator do to the lobby.
LEMMA OthersStep ==
  ASSUME TypeOK, Agreed, LobbyMoves \/ ForceOut
  PROVE  Agreed'
<1> USE DEF server, requests, account
<1>1. PICK from \in Phases, to \in Phases, quiet \in BOOLEAN : Conversing(from, to, quiet)
  BY DEF Agreed
<1>2. ServerHas(to) /\ member \in BOOLEAN
  BY <1>1 DEF Conversing, TypeOK
<1>3. Reads("none")
  BY DEF LobbyMoves, ForceOut, Reads
<1>4. CASE LobbyMoves
  <2>1. PICK step \in LobbySteps :
          /\ step[1] = lobby /\ lobby' = step[2]
          /\ down' = IF member THEN down \o step[3] ELSE down
    BY <1>4 DEF LobbyMoves
  <2>2. UNCHANGED <<stack, change, push, frame, believes, shouldDisconnect, member>>
    BY <1>4 DEF LobbyMoves
  <2>3. CASE ~ member
    <3>1. lobby' # "none"
      BY <2>1 DEF LobbySteps
    <3>2. ServerHas(to)'
      BY <1>2, <2>2, <2>3, <3>1 DEF ServerHas
    <3>3. down' = down
      BY <2>1, <2>3
    <3> QED BY <1>1, <1>3, <2>2, <3>2, <3>3, Untold
  <2>4. CASE member
    <3>1. to \in {"in", "started"} /\ lobby # "none"
      BY <1>2, <2>4 DEF ServerHas
    <3>2. CASE lobby = "waiting"
      <4>1. step[3] = <<"canStart">> /\ lobby' = "playing" /\ "canStart" \in ToClient
        BY <2>1, <3>2 DEF LobbySteps, ToClient
      <4>2. to = "in" /\ Tells("canStart", to, "started") /\ "started" \in Phases
        BY <1>2, <3>1, <3>2 DEF ServerHas, Tells, Phases
      <4>3. ServerHas("started")'
        BY <2>2, <2>4, <4>1 DEF ServerHas
      <4>4. down' = Append(down, "canStart")
        BY <2>1, <2>4, <4>1, AppendAnswer DEF TypeOK
      <4> QED BY <1>1, <1>3, <2>2, <4>1, <4>2, <4>3, <4>4, Told DEF Welcomes
    <3>3. CASE lobby # "waiting"
      <4>1. PICK x \in {"levelComplete", "nextLevel", "endGame"} : step[3] = <<x>>
        BY <2>1, <3>1, <3>3 DEF LobbySteps
      <4>2. lobby' \notin {"none", "waiting"}
        BY <2>1, <3>1, <3>3 DEF LobbySteps
      <4>3. x \in ToClient /\ Tells(x, to, to) /\ x \notin Welcomes
        BY <3>1 DEF ToClient, Tells, Welcomes
      <4>4. ServerHas(to)'
        BY <1>2, <2>2, <4>2 DEF ServerHas
      <4>5. down' = Append(down, x)
        BY <2>1, <2>4, <4>1, <4>3, AppendAnswer DEF TypeOK
      <4> QED BY <1>1, <1>3, <2>2, <4>3, <4>4, <4>5, Told
    <3> QED BY <3>2, <3>3
  <2> QED BY <1>2, <2>3, <2>4
<1>5. CASE ForceOut
  <2>1. /\ member /\ down' = Append(down, "forceLeave") /\ member' = FALSE
        /\ UNCHANGED <<stack, change, push, frame, believes, shouldDisconnect>>
    BY <1>5 DEF ForceOut
  <2>2. "forceLeave" \in ToClient /\ "out" \in Phases /\ Tells("forceLeave", to, "out")
    BY <1>2, <2>1 DEF ToClient, Phases, Tells, ServerHas
  <2>3. ServerHas("out")'
    BY <2>1 DEF ServerHas
  <2> QED BY <1>1, <1>3, <2>1, <2>2, <2>3, Told DEF Welcomes
<1> QED BY <1>4, <1>5

-----------------------------------------------------------------------------
(* The results.                                                             *)

\* A step that only lets time pass.
LEMMA IdleStep ==
  ASSUME Agreed,
         UNCHANGED <<stack, change, push, frame, believes, shouldDisconnect, up, down, lobby, member>>
  PROVE  Agreed'
<1>1. PICK from \in Phases, to \in Phases, quiet \in BOOLEAN : Conversing(from, to, quiet)
  BY DEF Agreed
<1>2. Stacked' /\ Believing' /\ Ordered'
  BY DEF Agreed, Stacked, Believing, Ordered, Top, Pending
<1>3. ClientHas(from)' /\ Shown(from, quiet)'
  BY <1>1 DEF Conversing, ClientHas, Shown, Home, Pending
<1> QED BY <1>1, <1>2, <1>3, SameTalk

LEMMA ScreensStart == Init => ScreensInv
<1> SUFFICES ASSUME Init
             PROVE  ScreensInv
  OBVIOUS
<1>1. TypeOK
  <2>1. Show("splash") \in OneScreen
    BY DEF OneScreen, Show, Screens
  <2>2. stack \in Seq(OneScreen) /\ up \in Seq(ToServer) /\ down \in Seq(ToClient)
    BY <2>1 DEF Init
  <2>3. believes \in Beliefs
    BY DEF Init, Beliefs
  <2> QED BY <2>2, <2>3 DEF Init, TypeOK
<1>2. Len(stack) = 1 /\ stack[1].screen = "splash" /\ DOMAIN stack = {1} /\ stack # <<>>
  BY DEF Init, Show
<1>3. Last(stack).screen = "splash"
  BY <1>2 DEF Last
<1>4. /\ Base(stack, "splash") /\ ~ Base(stack, "connection") /\ ~ Base(stack, "menu")
      /\ ~ Base(stack, "forceLeave")
  BY <1>1, <1>2, <1>3, OnlyBase, NotPassing DEF Passing
<1>5. /\ push = None /\ change = None /\ None \notin Closable
      /\ None \notin {"splash", "connection", "menu", "hosting", "guest", "game", "levelComplete",
                      "results", "forceLeave", "pause"}
  BY NotPassing DEF Init, Screens, InLobbyScreens, Closable
<1>6. Stacked
  BY <1>2, <1>5, NotPassing DEF Stacked, Pending
<1>7. Believing /\ Ordered
  BY <1>5 DEF Init, Believing, Ordered, Pending, Precede, Sent
<1>8. \A S : ~ Sent(S, up) /\ ~ Sent(S, down)
  BY DEF Init, Sent
<1>9. Leads(down, "out", "out", TRUE)
  <2> DEFINE phases == [i \in 1 .. (Len(down) + 1) |-> "out"]
  <2>1. phases \in [1 .. (Len(down) + 1) -> Phases] /\ Through(down, phases)
    BY DEF Init, Phases, Through
  <2>2. phases[1] = "out" /\ phases[Len(down) + 1] = "out" /\ \A i \in DOMAIN phases : phases[i] = "out"
    BY DEF Init
  <2> QED BY <2>1, <2>2 DEF Leads
<1>10. ClientHas("out") /\ ServerHas("out")
  BY DEF Init, ClientHas, ServerHas
<1>11. Home
  BY <1>4 DEF Home
<1>12. Shown("out", TRUE)
  BY <1>4, <1>5, <1>8, <1>11 DEF Init, Shown, Pending
<1>13. "out" \in Phases /\ Conversing("out", "out", TRUE)
  BY <1>9, <1>10, <1>12 DEF Phases, Conversing
<1> QED BY <1>1, <1>6, <1>7, <1>13 DEF ScreensInv, Agreed

LEMMA ScreensStep == ScreensInv /\ [Next]_vars => ScreensInv'
<1> SUFFICES ASSUME ScreensInv, [Next]_vars
             PROVE  ScreensInv'
  OBVIOUS
<1>1. TypeOK /\ TypeOK'
  BY TypeStep DEF ScreensInv
<1>2. SUFFICES ASSUME ~ crossed'
               PROVE  Agreed'
  BY <1>1 DEF ScreensInv
<1>3. ASSUME Next
      PROVE  ~ crossed
  BY <1>3 DEF Next, MainThread, NetworkThread, Server
<1>4. CASE MainThread
  <2>1. ~ crossed /\ Agreed
    BY <1>4 DEF MainThread, ScreensInv
  <2>2. CASE Update
    BY <1>1, <1>2, <2>1, <2>2, PlainUpdates, MenuFrame, LobbyUpdates, ForceLeaveFrame DEF Update
  <2> QED BY <1>1, <1>2, <1>4, <2>1, <2>2, ChangeStateStep, PushStateStep, PopStateStep DEF MainThread
<1>5. CASE NetworkThread
  BY <1>1, <1>2, <1>5, NetworkStep DEF NetworkThread, ScreensInv
<1>6. CASE Server
  BY <1>1, <1>6, ServeStep, OthersStep DEF Server, ScreensInv
<1>7. CASE ~ crossed /\ SecondPasses
  BY <1>7, IdleStep DEF SecondPasses, ScreensInv, requests, account, server
<1>8. CASE UNCHANGED vars
  BY <1>2, <1>8, IdleStep DEF vars, ScreensInv, requests, account, server
<1> QED BY <1>4, <1>5, <1>6, <1>7, <1>8 DEF Next

\* In every behaviour, as long as no two requests cross, the packets under way lead from what
\* the client has heard of its lobby to what the server holds, and its screens go with it.
THEOREM ScreensAgree == Spec => []ScreensInv
BY ScreensStart, ScreensStep, PTL DEF Spec

\* A CAN_START that arrives finds _ready not set, whatever games were played before: the
\* handler of the packet never ignores the start of a game, for any pages and bounds.
THEOREM ScreensHearStarts == Spec => []StartsAreHeard
<1>1. ScreensInv => StartsAreHeard
  <2> SUFFICES ASSUME ScreensInv, ~ crossed, down # <<>>, Head(down) = "canStart"
               PROVE  ~ believes.ready
    BY DEF StartsAreHeard
  <2>1. PICK from \in Phases, to \in Phases, quiet \in BOOLEAN : Conversing(from, to, quiet)
    BY DEF ScreensInv, Agreed
  <2>2. \E next \in Phases : Tells("canStart", from, next)
    BY <2>1, LeadsFrom DEF Conversing, ScreensInv, TypeOK
  <2>3. from = "in"
    BY <2>2 DEF Tells
  <2> QED BY <2>1, <2>3 DEF Conversing, ClientHas
<1> QED BY <1>1, ScreensAgree, PTL

\* A client that shows a screen of a lobby and believes to be in it is a member on the server
\* once everything sent is read: no answer, eviction or leave is lost between the threads, for
\* any pages and bounds.
THEOREM ScreensAreMembers == Spec => []LobbyScreensAreMembers
<1>1. ScreensInv => LobbyScreensAreMembers
  <2> SUFFICES ASSUME ScreensInv, Settled, Top \in InLobbyScreens, believes.in, ~ crossed
               PROVE  member
    BY DEF LobbyScreensAreMembers
  <2>1. PICK from \in Phases, to \in Phases, quiet \in BOOLEAN : Conversing(from, to, quiet)
    BY DEF ScreensInv, Agreed
  <2>2. from = to
    BY <2>1, LeadsNowhere DEF Conversing, Settled
  <2>3. from # "out"
    BY <2>1 DEF Conversing, ClientHas, Settled
  <2>4. from # "coded"
    <3>1. ~ Sent({"connect"}, up) /\ ~ Sent({"joined"}, down)
      BY DEF Settled, Sent
    <3>2. \A s \in {"menu", "forceLeave", "hosting"} : ~ Pending(s)
      BY NotPassing DEF Settled, Pending, Screens, InLobbyScreens
    <3>3. from = "coded" =>
            \E s \in {"splash", "connection", "menu", "forceLeave"} : Base(stack, s)
      BY <2>1, <3>1, <3>2 DEF Conversing, Shown, Home
    <3>4. stack # <<>> /\ Last(stack).screen \in InLobbyScreens
      BY DEF ScreensInv, Agreed, Stacked, Top
    <3>5. Last(stack).screen \notin Passing /\
          Last(stack).screen \notin {"splash", "connection", "menu", "forceLeave"}
      BY <3>4, NotPassing DEF Passing, InLobbyScreens
    <3>6. \A s : Base(stack, s) => s = Last(stack).screen
      BY <3>4, <3>5, OnlyBase DEF ScreensInv
    <3> QED BY <3>3, <3>5, <3>6
  <2> QED BY <2>1, <2>2, <2>3, <2>4 DEF Conversing, ServerHas, Phases
<1> QED BY <1>1, ScreensAgree, PTL

=============================================================================
