----------------------------- MODULE TakeStream -----------------------------
(***************************************************************************)
(* The body of the take stream, as Client.take() reads it: the server's    *)
(* jobs and heartbeats as newline-delimited JSON or as length-prefixed     *)
(* MessagePack, cut into chunks anywhere, even inside a character or a     *)
(* length prefix, and the generators that yield a job when its consumer    *)
(* asks for one.                                                           *)
(*                                                                         *)
(* A job is its number in the stream and takes up Size of its kind; what   *)
(* the characters say is left out, but not that they may have two bytes.   *)
(***************************************************************************)
EXTENDS Naturals, Sequences, FiniteSets, SequencesExt

CONSTANTS
  Kinds,     \* the kinds of jobs
  Size,      \* [Kinds -> the length of their payload]
  Base,      \* the values of a byte of the length prefix: 256
  MaxItems   \* bound: jobs and heartbeats of one stream

Heartbeat == "heartbeat"

ASSUME TakeStreamAssumption ==
  /\ Base \in Nat \ {0, 1} /\ MaxItems \in Nat /\ Heartbeat \notin Kinds
  /\ \A kind \in Kinds : Size[kind] \in Nat \ {0} /\ Size[kind] < Base * Base * Base * Base

VARIABLES
  items,        \* what the server sends, in order
  contentType,  \* the format it chose
  wire,         \* the bytes that have not arrived yet
  held,         \* the half of a character the TextDecoder keeps
  buffer,       \* what has arrived and is not parsed: characters, or bytes
  at,           \* where the generator is
  got           \* the jobs it has yielded

streamVars == <<items, contentType, wire, held, buffer, at, got>>

Char(i, k) == [job |-> i, char |-> k]
Newline == Char(0, 0)
Garbled == Char(0, 1)     \* the replacement character

\* A byte of a line: one of a single byte (0), the first (1) or the second (2)
\* of a character.
Byte(i, k, half) == [job |-> i, char |-> k, half |-> half]

-----------------------------------------------------------------------------
(* The server *)

\* A heartbeat is a line or a frame without a payload.
SizeOf(i) == IF items[i] = Heartbeat THEN 0 ELSE Size[items[i]]
PayloadOf(i) == [k \in 1..SizeOf(i) |-> Char(i, k)]

\* The bytes of item i as a line; every character of a job has two.
Line(i) ==
  [b \in 1..2 * SizeOf(i) |-> Byte(i, (b + 1) \div 2, 2 - (b % 2))] \o <<Byte(0, 0, 0)>>

\* A length as four bytes, the most significant first.
LengthPrefix(n) ==
  LET n1 == n \div Base
      n2 == n1 \div Base
      n3 == n2 \div Base
  IN  <<n3 % Base, n2 % Base, n1 % Base, n % Base>>

\* The bytes of item i as a frame.
Frame(i) == LengthPrefix(SizeOf(i)) \o PayloadOf(i)

Item(i) == IF contentType = "msgpack" THEN Frame(i) ELSE Line(i)

\* The bytes of the last k items.
Tails ==
  LET tail[k \in 0..Len(items)] ==
        IF k = 0 THEN <<>> ELSE Item(Len(items) + 1 - k) \o tail[k - 1]
  IN  tail

Wire == Tails[Len(items)]

StreamInit ==
  /\ items \in BoundedSeq(Kinds \cup {Heartbeat}, MaxItems)
  /\ contentType \in {"msgpack", "ndjson"}
  /\ wire = Wire
  /\ held = <<>> /\ buffer = <<>> /\ got = <<>>
  /\ at = "waiting"

-----------------------------------------------------------------------------
(* iterateNdjson *)

IsHalf(b) == b.half = 1
Cut(bytes) == bytes # <<>> /\ IsHalf(Last(bytes))

\* The character that ends with byte n: its first half must come before.
CharAt(bytes, n) ==
  LET b == bytes[n]
  IN  IF b.half = 2 /\ (n = 1 \/ bytes[n - 1] # Byte(b.job, b.char, 1)) THEN Garbled
      ELSE Char(b.job, b.char)

\* The whole characters among the first n bytes.
Decoded(bytes) ==
  LET chars[n \in 0..Len(bytes)] ==
        IF n = 0 THEN <<>>
        ELSE IF IsHalf(bytes[n]) THEN chars[n - 1]
        ELSE Append(chars[n - 1], CharAt(bytes, n))
  IN  chars

\* Mutant: decode() without { stream: true } forgets the half it has seen.
DecodeEach(bytes) ==
  [held |-> <<>>, chars |-> Decoded(bytes)[Len(bytes)] \o (IF Cut(bytes) THEN <<Garbled>> ELSE <<>>)]

\* decoder.decode(chunk, { stream: true }): the whole characters, and the first
\* half of one that the chunk cuts.
Decode(bytes) ==
  [held |-> IF Cut(bytes) THEN <<Last(bytes)>> ELSE <<>>, chars |-> Decoded(bytes)[Len(bytes)]]

\* What a step of a parser finds at the head of the buffer: nothing that is
\* complete, a heartbeat, or a payload, and what is left behind it.
Nothing == [found |-> "nothing"]
Skip(rest) == [found |-> "heartbeat", rest |-> rest]
Payload(p, rest) == [found |-> "payload", payload |-> p, rest |-> rest]

ReadLine ==
  LET ends == {k \in 1..Len(buffer) : buffer[k] = Newline}
  IN  IF ends = {} THEN Nothing
      ELSE LET newlineIdx == Min(ends)
               line == SubSeq(buffer, 1, newlineIdx - 1)
               rest == SubSeq(buffer, newlineIdx + 1, Len(buffer))
           IN  IF line = <<>> THEN Skip(rest) ELSE Payload(line, rest)

-----------------------------------------------------------------------------
(* iterateMsgpackStream *)

\* Mutant: readUInt32LE
FrameLenLittleEndian == ((buffer[4] * Base + buffer[3]) * Base + buffer[2]) * Base + buffer[1]

\* buffer.readUInt32BE(0)
FrameLen == ((buffer[1] * Base + buffer[2]) * Base + buffer[3]) * Base + buffer[4]

ReadFrame ==
  IF Len(buffer) < 4 THEN Nothing
  ELSE IF FrameLen = 0 THEN Skip(SubSeq(buffer, 5, Len(buffer)))
  ELSE IF Len(buffer) < 4 + FrameLen THEN Nothing
  ELSE Payload(SubSeq(buffer, 5, 4 + FrameLen), SubSeq(buffer, 5 + FrameLen, Len(buffer)))

-----------------------------------------------------------------------------
(* The generator *)

\* The content type of the answer, not the one asked for, picks the parser.
Read == IF contentType = "msgpack" THEN ReadFrame ELSE ReadLine

\* JSON.parse or msgpackDecode: what is not the payload of one job throws.
Parses(payload) ==
  \E i \in DOMAIN items : items[i] # Heartbeat /\ payload = PayloadOf(i)

\* A chunk arrives.
Chunk(n) ==
  /\ at = "waiting" /\ n \in 1..Len(wire)
  /\ LET bytes == SubSeq(wire, 1, n)
         text == Decode(held \o bytes)
     IN IF contentType = "msgpack"
        THEN buffer' = buffer \o bytes /\ UNCHANGED held
        ELSE buffer' = buffer \o text.chars /\ held' = text.held
  /\ wire' = SubSeq(wire, n + 1, Len(wire))
  /\ at' = "parsing"
  /\ UNCHANGED <<items, contentType, got>>

\* One turn of the inner while loop.
Parse ==
  /\ at = "parsing"
  /\ LET r == Read IN
       \/ /\ r.found = "nothing" /\ at' = "waiting" /\ UNCHANGED <<buffer, got>>
       \/ /\ r.found = "heartbeat" /\ buffer' = r.rest /\ UNCHANGED <<at, got>>
       \/ /\ r.found = "payload" /\ buffer' = r.rest
          /\ IF Parses(r.payload)
             THEN at' = "yielded" /\ got' = Append(got, Head(r.payload).job)
             ELSE at' = "threw" /\ UNCHANGED got
  /\ UNCHANGED <<items, contentType, wire, held>>

\* Mutant: one job for every chunk, an if where the code has a while.
ResumeWaits ==
  /\ at = "yielded" /\ at' = "waiting"
  /\ UNCHANGED <<items, contentType, wire, held, buffer, got>>

\* The consumer asks for the next job, or has had enough.
Resume ==
  /\ at = "yielded" /\ at' = "parsing"
  /\ UNCHANGED <<items, contentType, wire, held, buffer, got>>

Leave ==
  /\ at = "yielded" /\ at' = "closed"
  /\ UNCHANGED <<items, contentType, wire, held, buffer, got>>

\* The body ends, fails or is aborted, at any byte: what is left in the buffer
\* is dropped.
BodyEnds ==
  /\ at = "waiting" /\ at' = "closed"
  /\ UNCHANGED <<items, contentType, wire, held, buffer, got>>

StreamNext == (\E n \in 1..Len(wire) : Chunk(n)) \/ Parse \/ Resume \/ Leave \/ BodyEnds

StreamSpec == StreamInit /\ [][StreamNext]_streamVars

-----------------------------------------------------------------------------
(* Properties *)

\* The numbers of the jobs among the first n items.
JobsAmong ==
  LET jobs[n \in 0..Len(items)] ==
        IF n = 0 THEN <<>>
        ELSE IF items[n] = Heartbeat THEN jobs[n - 1] ELSE Append(jobs[n - 1], n)
  IN  jobs

\* Wherever the body is cut, the generator yields the jobs the server sent, each
\* once and in order, and never takes half a payload, or two, for one
\* (iterateNdjson, iterateMsgpackStream).
InOrder == at # "threw" /\ IsPrefix(got, JobsAmong[Len(items)])

\* Items whose last byte has arrived.
Arrived == {n \in DOMAIN items : Len(wire) <= Len(Tails[Len(items) - n])}

\* No job is held back: while the generator waits for bytes, or once the body
\* has ended on it, it has yielded every job that is there in full, the last of
\* a chunk too, so a job the server counts as handed out never sits in a buffer
\* until the next one comes (iterateNdjson, iterateMsgpackStream).
NothingHeldBack ==
  at = "waiting" => Len(got) = Cardinality({i \in Arrived : items[i] # Heartbeat})

=============================================================================
