------------------------------- MODULE Codec -------------------------------
(***************************************************************************)
(* Protobuf messages over a connection: Codec::encode into a Buffer that   *)
(* is sent, the reading callbacks that fill the receiver's Buffer with     *)
(* whatever pieces arrive, Codec::decode with its BufferInputStream, and   *)
(* the Dispatcher.  A frame is the length of what follows it, the length   *)
(* of the name, the name and the serialized message.                       *)
(*                                                                         *)
(* The sender waits for nothing, so that frames may lie behind each other. *)
(* The receiver is the program of testCodec.cpp: it calls decode until     *)
(* that gives an answer, and goes no further with the buffer.              *)
(***************************************************************************)
EXTENDS BufferOps, Integers

CONSTANTS
    IntSize,       \* sizeof(int32_t)
    Names,         \* names of message types, sequences of bytes
    Generated,     \* those that the generated pool knows
    Bodies,        \* serialized messages, sequences of bytes
    MaxMessages    \* bound: how many messages are sent

Byte == 0..255

Messages == [name : Names, body : Bodies]

\* How many values k bytes have.
Power[k \in Nat] == IF k = 0 THEN 1 ELSE 256 * Power[k - 1]

\* What follows the length of a frame.
PackLength(m) == Len(m.name) + Len(m.body) + IntSize

\* The length is not negative as an integer of IntSize bytes.
ASSUME CodecAssumption ==
    /\ IntSize \in Nat \ {0} /\ MaxMessages \in Nat
    /\ Names \subseteq Seq(Byte) /\ Bodies \subseteq Seq(Byte)
    /\ Generated \subseteq Names /\ <<>> \notin Names
    /\ \A m \in Messages : 2 * PackLength(m) < Power[IntSize]

VARIABLES
    wire,        \* the bytes on their way to the receiver
    buffer,      \* buffer_ of the receiving connection
    callbacks,   \* callbackMap: the names with a callback of their own
    ret,         \* what decode has made of the buffer: "none" if it is to be called,
                 \* "unable", "ok", "err", or "abort" by an assertion
    sent,        \* history: the messages that were sent
    dispatched   \* history: the message given to the dispatcher, and the callback it has chosen

codecVars == <<wire, buffer, callbacks, ret, sent, dispatched>>

CodecInit ==
    /\ wire = <<>>
    /\ buffer = Empty
    /\ callbacks = {}
    /\ ret = "none"
    /\ sent = <<>>
    /\ dispatched = <<>>

-----------------------------------------------------------------------------
(* Integers in a Buffer: the most significant byte comes first. *)

IntBytes(v) ==
    LET high[k \in 0..IntSize] == IF k = 0 THEN v ELSE high[k - 1] \div 256
    IN  [i \in 1..IntSize |-> high[IntSize - i] % 256]

IntOf(bytes) ==
    LET value[k \in 0..Len(bytes)] == IF k = 0 THEN 0 ELSE 256 * value[k - 1] + bytes[k]
    IN  value[Len(bytes)]

\* toString(n); beyond the readable bytes its assertion fails.
Peek(b, n) == SubSeq(Contents(b), 1, Min({n, Len(Contents(b))}))

PeekInt(b) == IntOf(Peek(b, IntSize))

\* Codec::encode
Encode(b, m) ==
    LET appendInt(c, v) == BufAppend(c, IntBytes(v))
        result == m.name \o m.body
    IN  BufAppend(appendInt(appendInt(b, Len(result) + IntSize), Len(m.name)), result)

\* What send(Buffer&) writes for each message, encoded into a new Buffer: the blocks of all().
Frames == [m \in Messages |-> All(Encode(Empty, m))]

-----------------------------------------------------------------------------
(* BufferInputStream *)

\* The block that all() lists first.
FirstBlock(b) == Min({i \in b.first..b.last : b.blocks[i].data # <<>>})

\* Next: it gives the whole block, moves firstWithData_ on and leaves the block as it is.  v is the
\* buffer, what was read, and bytes_: if the block holds more than was left, that is less than 0
\* here and a large number there, so that Next is called until its assertion finds no bytes.
NextBlock(v) ==
    LET data == v.buffer.blocks[FirstBlock(v.buffer)].data
    IN  IF v.left = 0 \/ v.buffer.readable = 0 THEN v
        ELSE [buffer |-> [v.buffer EXCEPT !.first = @ + 1, !.readable = @ - Len(data)],
              data |-> v.data \o data,
              left |-> v.left - Len(data)]

\* The parser calls it as long as it gives something: for each block at most.
ReadBlocks(b, bytes) ==
    LET after[k \in 0..Len(b.blocks)] ==
            IF k = 0 THEN [buffer |-> b, data |-> <<>>, left |-> bytes] ELSE NextBlock(after[k - 1])
    IN  after[Len(b.blocks)]

\* ParseFromZeroCopyStream, from a stream that was read to its end: its results.  If the bytes end
\* before bytes_ is 0, the assertion of Next fails, unless the parser has met an error before.
Parsed(stream) ==
    IF stream.left # 0 THEN {"err", "abort"}
    ELSE IF stream.data \in Bodies THEN {"ok"} ELSE {"err"}

-----------------------------------------------------------------------------
(* Codec::decode *)

\* Fault: the length does not count itself.
FaultyUnable(b) == PeekInt(b) > b.readable

\* CODEC_UNABLE
Unable(b) == PeekInt(b) + IntSize > b.readable

\* The frame at the front of b: the results that decode may have, the buffer behind it, and the
\* message; a type that is not known is CODEC_ERR with the body left in the buffer.
Decoded(b) ==
    LET packLen == PeekInt(b)
        afterLen == Discard(b, IntSize)
        nameLen == PeekInt(afterLen)
        afterNameLen == Discard(afterLen, IntSize)
        name == Peek(afterNameLen, nameLen)
        afterName == Discard(afterNameLen, Len(name))
        stream == ReadBlocks(afterName, packLen - Len(name) - IntSize)
    IN  IF name \notin Generated THEN [results |-> {"err"}, buffer |-> afterName]
        ELSE [results |-> Parsed(stream), buffer |-> stream.buffer,
              message |-> [name |-> name, body |-> stream.data]]

-----------------------------------------------------------------------------
(* The sender, the connection and the receiver *)

Send(m) ==
    /\ Len(sent) < MaxMessages
    /\ wire' = wire \o Frames[m]
    /\ sent' = Append(sent, m)
    /\ UNCHANGED <<buffer, callbacks, ret, dispatched>>

\* registerMessageCallback: all unknown names have one key, which no message has.
Register(name) ==
    /\ callbacks' = callbacks \cup {name}
    /\ UNCHANGED <<wire, buffer, ret, sent, dispatched>>

\* No answer yet: the receiver reads on.
Undecided == ret \in {"none", "unable"}

\* allocCallback and readCallback: libuv reads n bytes, or none, into the room that is offered.
Read(n) ==
    LET room == NextSpace(buffer)
    IN  /\ Undecided
        /\ n <= Writeable(room.blocks[Offered(room)])
        /\ wire' = SubSeq(wire, n + 1, Len(wire))
        /\ buffer' = Extend(room, SubSeq(wire, 1, n))
        /\ ret' = "none"
        /\ UNCHANGED <<callbacks, sent, dispatched>>

\* Dispatcher::onMessage
OnMessage(m) ==
    dispatched' = Append(dispatched, [message |-> m,
                                      to |-> IF m.name \in callbacks THEN m.name ELSE <<>>])

\* There is no length to peek at: the assertion of toString() fails.
NoLength ==
    /\ buffer.readable < IntSize
    /\ ret' = "abort"
    /\ UNCHANGED <<buffer, dispatched>>

\* Fault: the length is read and not only peeked at.
FaultyNotWhole ==
    /\ buffer.readable >= IntSize /\ Unable(buffer)
    /\ buffer' = Discard(buffer, IntSize)
    /\ ret' = "unable"
    /\ UNCHANGED dispatched

\* The frame is not whole.
NotWhole ==
    /\ buffer.readable >= IntSize /\ Unable(buffer)
    /\ ret' = "unable"
    /\ UNCHANGED <<buffer, dispatched>>

\* A whole frame is taken out, and its message given to the dispatcher in the same thread.
TakeFrame ==
    /\ buffer.readable >= IntSize /\ ~Unable(buffer)
    /\ ret' \in Decoded(buffer).results
    /\ buffer' = Decoded(buffer).buffer
    /\ IF ret' = "ok" THEN OnMessage(Decoded(buffer).message) ELSE UNCHANGED dispatched

\* The receiver calls decode.
Decode ==
    /\ ret = "none"
    /\ NoLength \/ NotWhole \/ TakeFrame
    /\ UNCHANGED <<wire, callbacks, sent>>

CodecNext ==
    \/ \E m \in Messages : Send(m)
    \/ \E name \in Names : Register(name)
    \/ \E n \in 0..Len(wire) : Read(n)
    \/ Decode

CodecSpec == CodecInit /\ [][CodecNext]_codecVars

-----------------------------------------------------------------------------
(* Properties *)

\* The bytes of the frames of messages.
FramesOf(messages) == FlattenSeq([i \in 1..Len(messages) |-> Frames[messages[i]]])

\* Nothing is claimed of a buffer that decode has taken a frame from: the blocks that the stream has
\* read are still in it.
CodecTypeOK ==
    /\ wire \in Seq(Byte)
    /\ Undecided => buffer \in Values(Byte) /\ WellFormed(buffer)
    /\ callbacks \subseteq Names
    /\ ret \in {"none", "unable", "ok", "err", "abort"}
    /\ sent \in Seq(Messages)
    /\ dispatched \in Seq([message : Messages, to : Names \cup {<<>>}])

\* Until decode has an answer, however often it was called, nothing is lost or out of order: the
\* receiver's buffer, in whatever blocks, and the wire together hold the frames that were sent.
NothingIsLost == Undecided => Contents(buffer) \o wire = FramesOf(sent)

CodecIInv == CodecTypeOK /\ NothingIsLost /\ (Undecided => dispatched = <<>>)

\* How many bytes the first frame has.
FirstFrame == Len(Frames[sent[1]])

\* The first message goes to the callback of its own type, if there is one.
FirstIsDispatched ==
    dispatched' = <<[message |-> sent[1],
                     to |-> IF sent[1].name \in callbacks THEN sent[1].name ELSE <<>>]>>

\* Whatever pieces the frames have arrived in and whatever blocks they have come to lie in, decode
\* is unable just while the first frame is not whole; then it gives the dispatcher the first message
\* as it was sent, if its type is known, and nothing of the frames behind it; it fails only for a
\* type that is not known or with bytes of another frame behind the first, and aborts only in that
\* case or without a length to read.
Answered ==
    /\ ret' = "unable" => sent # <<>> /\ buffer.readable < FirstFrame
    /\ ret' = "ok" => /\ sent # <<>> /\ buffer.readable >= FirstFrame
                      /\ sent[1].name \in Generated /\ FirstIsDispatched
    /\ ret' = "err" => /\ sent # <<>> /\ buffer.readable >= FirstFrame
                       /\ sent[1].name \in Generated => buffer.readable > FirstFrame
    /\ ret' = "abort" => \/ buffer.readable < IntSize
                         \/ sent # <<>> /\ buffer.readable > FirstFrame
DecodeIsRight == [][Decode => Answered]_codecVars
=============================================================================
