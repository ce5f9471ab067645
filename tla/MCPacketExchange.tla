-------------------------- MODULE MCPacketExchange --------------------------
(* PacketExchange with bytes of sixteen values, integers of two bytes and     *)
(* longs of three, names of three characters and leaderboards of two entries. *)
(* The entities have negative numbers, numbers between two steps, and states  *)
(* of more than one character; one batch is long enough to be compressed.     *)
EXTENDS PacketExchange

MCQuantum == <<<<4, 4, 2, 4, 4>>, <<2, 2>>, <<1>>, <<2, 2, 4>>>>
MCNames == {<<12, 15>>, <<15, 11, 12>>}
MCLongNames == {<<11, 12, 15, 11>>}
MCCodes == {<<2, 3, 4>>, <<15, 15, 15>>}
MCShortCodes == {<<2, 3>>}
MCTexts == {<<9>>, <<11, 12, 13, 10>>, <<7, 7, 7, 7, 7>>}
MCClients == {1, 9}
MCIds == {1, 20}
MCNumbers == {0, 300}
MCScoreboards == {{}, {<<<<11>>, 2>>}, {<<<<11>>, 2>>, <<<<12, 15>>, 7>>, <<<<11>>, 5>>}}

Wall == 0 :> <<-17, 30, 0, 4, 4>>
Ship == 0 :> <<101, -3, 5, 4, -4>> @@ 1 :> <<199, 200>> @@ 2 :> <<90>>
          @@ 3 :> <<0, 7, 30>> @@ 4 :> <<11, 12>>
Mob == 0 :> <<-2, 2, -1, 1, 6>> @@ 1 :> <<-1, 20>> @@ 4 :> <<15>>
MCWorlds == {<<<<1, Wall>>>>, <<<<20, Ship>>>>, <<<<1, Mob>>, <<20, Wall>>>>,
             <<<<1, Ship>>, <<20, Mob>>, <<3, Ship>>>>}
=============================================================================
