---------------------------- MODULE PacketCodec ----------------------------
(***************************************************************************)
(* How libs/Packet and common/packet turn the payload of a message into     *)
(* bytes and back: big-endian numbers, variable-length numbers, one builder *)
(* and one parser per packet type, the component groups of a game state and *)
(* their compression.  The 64-bit payload values are small here: a byte has *)
(* Radix values, a variable-length byte carries one of VarintData.          *)
(*                                                                         *)
(* A packet is a record of its header fields and the bytes after them; zlib *)
(* is an encoding that is sometimes shorter.                                *)
(***************************************************************************)
EXTENDS Integers, Sequences, SequencesExt, FiniteSets

CONSTANTS
  Radix,        \* values of a byte, 256 in the code
  IntBytes,     \* bytes of an int32_t, 4
  LongBytes,    \* bytes of a uint64_t, 8
  VarintData,   \* values a byte of a varint carries, 128
  MaxVarint,    \* MAX_VARINT_BYTES, 10
  NameLength,   \* characters of a name, a code or a score on the wire, 8
  Entries,      \* entries of a leaderboard, 10
  MinCompress,  \* MIN_COMPRESS_SIZE, 50
  Quantum       \* for each component, what one step of its numbers is worth

ASSUME CodecConstants ==
  /\ {Radix, IntBytes, LongBytes, NameLength, Entries, MinCompress} \subseteq Nat \ {0}
  /\ IntBytes < LongBytes
  /\ VarintData \in 2..(Radix - 1) /\ Radix <= 2 * VarintData
  /\ VarintData ^ MaxVarint >= Radix ^ LongBytes

\* The characters the formats know.
NUL == 0
CR == 13
LF == 10
Yes == 8
No == 9

Upto(n) == [k \in 1..n |-> k]
\* The n elements from position i on, or those there are.
Mid(s, i, n) == SubSeq(s, i, IF i + n - 1 < Len(s) THEN i + n - 1 ELSE Len(s))
\* The first of a set of positions, or the default where it is empty.
FirstOf(positions, default) ==
  IF positions = {} THEN default ELSE CHOOSE k \in positions : \A j \in positions : k <= j

-----------------------------------------------------------------------------
(* Numbers.                                                                 *)

\* serializeUChar, serializeUInt, serializeULong: the low bytes, highest first.
Serialise(v, bytes) == [k \in 1..bytes |-> (v \div Radix ^ (bytes - k)) % Radix]
Deserialise(data) == FoldLeft(LAMBDA v, byte : v * Radix + byte, 0, data)

Longs(values) == FlattenSeq([k \in DOMAIN values |-> Serialise(values[k], LongBytes)])
Chars(values) == [k \in DOMAIN values |-> values[k] % Radix]

\* The whole numbers of LongBytes in data; what is left over is ignored.
ReadLongs(data) ==
  [k \in 1..(Len(data) \div LongBytes) |->
     Deserialise(Mid(data, (k - 1) * LongBytes + 1, LongBytes))]

\* Varint::encodedSize.
VarintSize(v) == CHOOSE n \in 1..MaxVarint : /\ v < VarintData ^ n
                                             /\ n > 1 => v >= VarintData ^ (n - 1)

\* Varint::encode: groups of VarintData, lowest first, all but the last flagged.
Varint(v) ==
  LET n == VarintSize(v)
  IN [k \in 1..n |-> ((v \div VarintData ^ (k - 1)) % VarintData)
                       + IF k < n THEN VarintData ELSE 0]

\* Varint::decode at position i: the value and the bytes it took.
Decode(data, i) ==
  LET rest == Mid(data, i, MaxVarint)
      n == FirstOf({k \in DOMAIN rest : rest[k] < VarintData}, Len(rest))
  IN [value |-> FoldRight(LAMBDA byte, v : v * VarintData + (byte % VarintData),
                          SubSeq(rest, 1, n), 0) % Radix ^ LongBytes,
      read |-> n]

\* n of them in a row.
ReadVarints(data, i, n) ==
  FoldLeft(LAMBDA r, k : LET d == Decode(data, r.at)
                         IN [values |-> Append(r.values, d.value), at |-> r.at + d.read],
           [values |-> <<>>, at |-> i], Upto(n))

\* quantizeFloat rounds to the nearest step, half a step away from zero;
\* packQuantizedFloat keeps the bits of the int32_t.
Round(x, step) ==
  IF x >= 0 THEN (2 * x + step) \div (2 * step) ELSE -((step - 2 * x) \div (2 * step))

Quantise(x, step) == Round(x, step) % Radix ^ IntBytes

\* dequantizeFloat: the low bits as an int32_t.
Dequantise(v, step) ==
  LET low == v % Radix ^ IntBytes
  IN step * (IF 2 * low >= Radix ^ IntBytes THEN low - Radix ^ IntBytes ELSE low)

\* PacketManager::formatString: cut or filled to NameLength characters.
FormatString(s) == [k \in 1..NameLength |-> IF k \in DOMAIN s THEN s[k] ELSE NUL]

\* A string read up to its first NUL, and one whose NULs are left out.
UptoNul(s) == SubSeq(s, 1, FirstOf({k \in DOMAIN s : s[k] = NUL}, Len(s) + 1) - 1)
WithoutNul(s) == SelectSeq(s, LAMBDA c : c # NUL)

-----------------------------------------------------------------------------
(* Packets with one builder and one parser: registerDefaultPacketHandlers.  *)

SingleUChar == {"accept", "disconnect", "leave_lobby", "connect_value", "ack_leave",
                "force_leave"}
MultiUChar == {"code", "register", "login", "connect_to_lobby", "master_start",
               "connect_user", "leaderboard", "profile", "rules", "rules_update"}
OptionalULong == {"connect", "request_leaderboard", "request_profile", "whoami",
                  "end_game", "request_lobby", "register_fail", "level_complete",
                  "next_level"}
Chat == {"new_chat", "broadcast_chat"}
Types == SingleUChar \cup MultiUChar \cup OptionalULong \cup Chat
           \cup {"event", "can_start", "spawn", "death", "status"}

\* registerLength.
RegisteredLength(type) ==
  CASE type \in SingleUChar -> 1
    [] type \in {"code", "connect_to_lobby", "master_start", "connect_user"} -> NameLength
    [] type \in {"register", "login"} -> 2 * NameLength
    [] type = "leaderboard" -> 2 * NameLength * Entries
    [] type = "profile" -> 5 * NameLength
    [] type = "rules" -> 3
    [] type = "rules_update" -> 2
    [] type = "event" -> 1 + LongBytes
    [] type = "death" -> LongBytes
    [] type = "status" -> 4 * LongBytes
    [] OTHER -> 0

\* What a builder takes of the payload with at(): less of it is an exception.
Needed(type) ==
  CASE type \in MultiUChar -> RegisteredLength(type)
    [] type \in SingleUChar \cup {"spawn", "death"} -> 1
    [] type = "event" -> 2
    [] OTHER -> 0

\* The builders, one per register function.
UCharsBody(payload, n) == Chars(SubSeq(payload, 1, n))
UCharULongBody(payload) == Chars(SubSeq(payload, 1, 1)) \o Longs(SubSeq(payload, 2, 2))
SpawnPlayerBody(payload) == Longs(SubSeq(payload, 1, 1)) \o Chars(Tail(payload))
SingleULongBody(payload) == Longs(SubSeq(payload, 1, 1))
OptionalULongBody(payload) == Longs(Mid(payload, 1, 1))
ServerStatusBody(payload) == Longs(Mid(payload, 1, 4))
CanStartBody(payload) == Longs(payload)

Build(type, payload) ==
  CASE type \in SingleUChar \cup MultiUChar -> UCharsBody(payload, RegisteredLength(type))
    [] type \in OptionalULong -> OptionalULongBody(payload)
    [] type = "death" -> SingleULongBody(payload)
    [] type = "event" -> UCharULongBody(payload)
    [] type = "spawn" -> SpawnPlayerBody(payload)
    [] type = "status" -> ServerStatusBody(payload)
    [] type = "can_start" -> CanStartBody(payload)
    [] type \in Chat -> Chars(payload)

\* Types whose packet stays empty whatever the payload.
NoBody == {"connect", "request_leaderboard", "register_fail", "request_profile"}

\* The length pack writes into the header.
DeclaredLength(type, payload) ==
  CASE type \in Chat -> Len(payload)
    [] type \in NoBody -> 0
    [] type = "spawn" -> Len(payload) + LongBytes - 1
    [] RegisteredLength(type) # 0 -> RegisteredLength(type)
    [] OTHER -> Len(payload) * LongBytes

\* PacketManager::pack.
Pack(id, type, payload) ==
  [id |-> id, type |-> type, length |-> DeclaredLength(type, payload),
   body |-> IF type \in NoBody THEN <<>> ELSE Build(type, payload)]

\* The parsers: the lengths they accept, and the payload they set.
Parses(type, body) ==
  CASE type \in SingleUChar \cup MultiUChar \cup {"event", "death", "status"} ->
         Len(body) = RegisteredLength(type)
    [] type \in OptionalULong -> Len(body) \in {0, LongBytes}
    [] type = "spawn" -> Len(body) > LongBytes
    [] type = "can_start" -> Len(body) >= LongBytes /\ Len(body) % LongBytes = 0

Parse(type, body) ==
  CASE type \in SingleUChar \cup MultiUChar -> body
    [] type \in OptionalULong \cup {"death", "status", "can_start"} -> ReadLongs(body)
    [] type = "event" -> SubSeq(body, 1, 1) \o ReadLongs(Tail(body))
    [] type = "spawn" ->
         ReadLongs(SubSeq(body, 1, LongBytes)) \o SubSeq(body, LongBytes + 1, Len(body))

-----------------------------------------------------------------------------
(* Game states: the entities of a batch, the components of an entity.       *)

TRANSFORM == 0
HEALTH == 1
SCORE == 2
CHARGED_SHOT == 3
ANIMATION_STATE == 4
Numeric == {TRANSFORM, HEALTH, SCORE, CHARGED_SHOT}
Width == <<5, 2, 1, 3>>
EndOfString == <<CR, LF, NUL>>

\* Mutant of Converters: the animation state first.
ConvertersAnimationFirst == <<ANIMATION_STATE, TRANSFORM, HEALTH, SCORE, CHARGED_SHOT>>

\* Lobby::_convertFunctions, in their order.
Converters == <<TRANSFORM, HEALTH, SCORE, CHARGED_SHOT, ANIMATION_STATE>>

\* One converter, of an entity that has the component: a function from its
\* components to their numbers or characters.
Converted(entity, c) ==
  IF c \notin DOMAIN entity THEN <<>>
  ELSE IF c = ANIMATION_STATE THEN <<c>> \o entity[c] \o EndOfString
  ELSE <<c>> \o [k \in DOMAIN entity[c] |-> Quantise(entity[c][k], Quantum[c + 1][k])]

EntityPayload(id, entity) ==
  <<id>> \o FlattenSeq([k \in DOMAIN Converters |-> Converted(entity, Converters[k])])

EndsAt(payload, j) == Mid(payload, j, 3) = EndOfString

\* The pack functions, tried in turn from each position on.
EntityBody(payload) ==
  LET from[i \in 2..(Len(payload) + 1)] ==
        IF i > Len(payload) THEN <<>>
        ELSE IF payload[i] \in Numeric
        THEN LET n == Width[payload[i] + 1]
             IN <<payload[i]>> \o FlattenSeq([k \in 1..n |-> Varint(payload[i + k])])
                  \o from[i + n + 1]
        ELSE IF payload[i] = ANIMATION_STATE
        THEN LET j == CHOOSE j \in (i + 1)..(Len(payload) - 2) :
                        /\ EndsAt(payload, j) \/ j = Len(payload) - 2
                        /\ \A b \in (i + 1)..(j - 1) : ~EndsAt(payload, b)
             IN Chars(SubSeq(payload, i, j + 2)) \o from[j + 3]
        ELSE <<>>
  IN from[2]

BatchBody(entities) ==
  Varint(Len(entities))
    \o FlattenSeq([k \in DOMAIN entities |->
         LET body == EntityBody(entities[k])
         IN Varint(entities[k][1]) \o Varint(Len(body)) \o body])

\* compress2 and uncompress: three bytes as one.
Deflate(data) ==
  [k \in 1..((Len(data) + 2) \div 3) |->
     Deserialise([i \in 1..3 |-> IF 3 * k - 3 + i \in DOMAIN data THEN data[3 * k - 3 + i] ELSE 0])]
Inflate(data, size) ==
  SubSeq(FlattenSeq([k \in DOMAIN data |-> Serialise(data[k], 3)]), 1, size)

\* Compression::compress: the size, lowest byte first, and the data; nothing when
\* that is not shorter.
Compress(data) ==
  LET compressed == Reverse(Serialise(Len(data), IntBytes)) \o Deflate(data)
  IN IF Len(data) < MinCompress \/ Len(compressed) >= Len(data) THEN <<>> ELSE compressed

\* Compression::decompress; uncompress fails when the size is too small.
Decompress(data) ==
  LET size == Deserialise(Reverse(SubSeq(data, 1, IntBytes)))
      rest == SubSeq(data, IntBytes + 1, Len(data))
  IN IF 3 * Len(rest) > size + 2 \/ size > 3 * Len(rest) THEN <<>> ELSE Inflate(rest, size)

\* PacketManager::packBatchedGameState.
PackBatch(id, entities) ==
  LET body == BatchBody(entities)
      compressed == Compress(body)
      sent == IF compressed # <<>> THEN compressed ELSE body
  IN [id |-> id, type |-> IF compressed # <<>> THEN "batch_compressed" ELSE "batch",
      length |-> Len(sent), body |-> sent]

\* The unpack functions, from position i to the entity's end; the loop is left at
\* a component none of them knows.
ReadEntity(data, i, end) ==
  LET from[at \in Nat] ==
        IF at >= end THEN <<>>
        ELSE IF data[at] \in Numeric
        THEN LET r == ReadVarints(data, at + 1, Width[data[at] + 1])
             IN <<data[at]>> \o r.values \o from[r.at]
        ELSE IF data[at] = ANIMATION_STATE
        THEN LET j == FirstOf({j \in (at + 1)..(Len(data) - 2) : EndsAt(data, j)}, Len(data) + 1)
             IN SubSeq(data, at, j - 1) \o EndOfString \o from[j + 3]
        ELSE <<>>
  IN from[i]

\* The batch loop of PacketManager::unpack.
ReadBatch(data) ==
  LET count == Decode(data, 1)
  IN FoldLeft(LAMBDA r, k :
       IF r.at > Len(data) THEN r
       ELSE LET id == Decode(data, r.at)
                size == Decode(data, r.at + id.read)
                start == r.at + id.read + size.read
            IN [at |-> start + size.value,
                read |-> Append(r.read, <<id.value>> \o ReadEntity(data, start, start + size.value))],
       [at |-> 1 + count.read, read |-> <<>>], Upto(count.value)).read

\* The client's parsers, at position i of an entity's payload: what each sets, and
\* where the next begins.  One with too little left takes nothing and sets nothing.
ParseNumbers(payload, i) ==
  LET c == payload[i]
      n == Width[c + 1]
  IN IF i + n > Len(payload) THEN [sets |-> <<>>, next |-> i + 1]
     ELSE [sets |-> <<<<c, [k \in 1..n |-> Dequantise(payload[i + k], Quantum[c + 1][k])]>>>>,
           next |-> i + n + 1]

ParseAnimationState(payload, i) ==
  LET j == FirstOf({j \in (i + 1)..Len(payload) : payload[j] \in {CR, NUL}}, Len(payload) + 1)
      crlf == j < Len(payload) /\ payload[j] = CR /\ payload[j + 1] = LF
  IN [sets |-> <<<<ANIMATION_STATE, SubSeq(payload, i + 1, j - 1)>>>>,
      next |-> IF j > Len(payload) THEN j ELSE IF crlf THEN j + 2 ELSE j + 1]

\* The components of one entity's payload, in turn; one nobody knows is passed over.
Components(payload) ==
  LET from[i \in 2..(Len(payload) + 1)] ==
        IF i > Len(payload) THEN <<>>
        ELSE LET r == IF payload[i] \in Numeric THEN ParseNumbers(payload, i)
                      ELSE IF payload[i] = ANIMATION_STATE THEN ParseAnimationState(payload, i)
                      ELSE [sets |-> <<>>, next |-> i + 1]
             IN r.sets \o from[r.next]
  IN from[2]

-----------------------------------------------------------------------------
(* The receiving PacketManager: the registers unpack leaves behind.         *)

NoPacket == [id |-> 0, type |-> "none", payload |-> <<>>, batched |-> <<>>]

Set(pm, packet, payload) ==
  [pm EXCEPT !.id = packet.id, !.type = packet.type, !.payload = payload]

\* Mutant of Unpacked: the characters of a chat message follow the old payload.
UnpackedAppending(pm, p) ==
  CASE p.length = 0 -> Set(pm, p, pm.payload)
    [] p.length # 0 /\ p.type \in Chat -> Set(pm, p, pm.payload \o p.body)
    [] p.type \in {"batch", "batch_compressed"} ->
         [Set(pm, p, <<>>) EXCEPT
            !.type = "batch",
            !.batched = ReadBatch(IF p.type = "batch" THEN p.body ELSE Decompress(p.body))]
    [] OTHER -> Set(pm, p, Parse(p.type, p.body))

\* PacketManager::unpack returns true.
Accepts(p) ==
  /\ Len(p.body) = p.length
  /\ \/ p.length = 0
     \/ p.type \in Chat \cup {"batch"}
     \/ p.type = "batch_compressed" /\ Decompress(p.body) # <<>>
     \/ p.type \in Types \ Chat /\ Parses(p.type, p.body)

\* What it leaves then; an empty packet leaves the payload of the one before.
Unpacked(pm, p) ==
  CASE p.length = 0 -> Set(pm, p, pm.payload)
    [] p.length # 0 /\ p.type \in Chat -> Set(pm, p, p.body)
    [] p.type \in {"batch", "batch_compressed"} ->
         [Set(pm, p, <<>>) EXCEPT
            !.type = "batch",
            !.batched = ReadBatch(IF p.type = "batch" THEN p.body ELSE Decompress(p.body))]
    [] OTHER -> Set(pm, p, Parse(p.type, p.body))
=============================================================================
