--------------------------- MODULE MCServerSession ---------------------------
(* ServerSession on small instances: two endpoints, two lobby codes and a      *)
(* handful of ids, so that the id counter wraps.                               *)
EXTENDS ServerSession, TLC

CONSTANT other  \* one of the codes

\* Two clients in one lobby, or one client that moves between two: what both of them could do in
\* two lobbies is left out.  Only packets of clients are held back by it.
Narrow == Len(clients) <= 1 \/ other \notin listed

MCSpec == Init /\ [][Next /\ Narrow']_vars /\ Fairness
=============================================================================
