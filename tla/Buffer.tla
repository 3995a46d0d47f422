------------------------------- MODULE Buffer -------------------------------
(***************************************************************************)
(* Buffers, each a list of blocks, under every sequence of the operations  *)
(* of the class.  A buffer belongs to one thread at a time, so that        *)
(* operations are not interleaved.  An operation on a buffer whose         *)
(* iterators are those of another list is undefined: the model goes on     *)
(* only with those that set the iterators anew.                            *)
(***************************************************************************)
EXTENDS BufferOps

CONSTANTS
    Buffers,      \* the Buffer objects
    Bytes,        \* the bytes; 0 among them ends a string
    MaxWrite,     \* bound: the longest string written at once
    MaxBytes,     \* bound: the bytes all buffers hold together
    EmptySwaps    \* whether a buffer that has no block is swapped, moved or assigned from

ASSUME BuffersAssumption ==
    0 \in Bytes /\ MaxWrite \in Nat /\ MaxBytes \in Nat /\ EmptySwaps \in BOOLEAN

VARIABLES
    buf,       \* buf[b]: the value of buffer b
    offered,   \* offered[b]: next() has offered room and nothing was done since
    text       \* text[b]: history, the string that the same operations make

vars == <<buf, offered, text>>

Strings == BoundedSeq(Bytes, MaxWrite)

Text == INSTANCE ByteString

Usable(b) == buf[b].own

\* n bytes more are within the bound.
HasRoom(n) == FoldFunction(LAMBDA v, sum : v.readable + sum, 0, buf) + n <= MaxBytes

\* An operation on b alone.
Become(b, value) ==
    buf' = [buf EXCEPT ![b] = value] /\ offered' = [offered EXCEPT ![b] = FALSE]

Init ==
    /\ buf = [b \in Buffers |-> Empty]
    /\ offered = [b \in Buffers |-> FALSE]
    /\ Text!Init

-----------------------------------------------------------------------------
DoAppend(b, s) ==
    Usable(b) /\ HasRoom(Len(s)) /\ Become(b, BufAppend(buf[b], s)) /\ Text!Write(b, s)

DoPrepend(b, s) ==
    Usable(b) /\ HasRoom(Len(s)) /\ Become(b, Prepend(buf[b], s)) /\ Text!WriteInFront(b, s)

\* discard, and retrieveAsString, which reads the bytes first.
DoDiscard(b, n) ==
    Usable(b) /\ n <= buf[b].readable /\ Become(b, Discard(buf[b], n)) /\ Text!Read(b, n)

DoRetrieveCStyleString(b) ==
    /\ Usable(b)
    /\ \E i \in 1..Len(Contents(buf[b])) : Contents(buf[b])[i] = 0
    /\ Become(b, RetrieveCStyleString(buf[b]))
    /\ Text!ReadCString(b)

DiscardAll(b) == Become(b, Empty) /\ Text!Clear(b)

DoNext(b) ==
    /\ Usable(b)
    /\ buf' = [buf EXCEPT ![b] = NextSpace(@)]
    /\ offered' = [offered EXCEPT ![b] = TRUE]
    /\ UNCHANGED text

\* The bytes were written to the offered room before.
DoExtend(b, s) ==
    /\ offered[b] /\ HasRoom(Len(s))
    /\ Len(s) <= Writeable(buf[b].blocks[Offered(buf[b])])
    /\ Become(b, Extend(buf[b], s))
    /\ Text!Write(b, s)

\* What can be taken back is in the last block.
DoUnwrite(b, n) ==
    /\ Usable(b) /\ buf[b].last # End(buf[b])
    /\ n <= Len(buf[b].blocks[buf[b].last].data)
    /\ Become(b, Unwrite(buf[b], n))
    /\ Text!TakeBack(b, n)

\* BufferOutputStream: Next extends the buffer by all the room there is, BackUp takes back what
\* s did not need.
StreamWrite(b, s) ==
    LET space == NextSpace(buf[b])
        room == Writeable(space.blocks[Offered(space)])
        filled == Extend(space, s \o [i \in 1..(room - Len(s)) |-> 0])
    IN  /\ Usable(b) /\ HasRoom(Len(s)) /\ Len(s) <= room
        /\ Become(b, Unwrite(filled, room - Len(s)))
        /\ Text!Write(b, s)

-----------------------------------------------------------------------------
(* Operations on two buffers *)

Taken(c) == Usable(c) /\ (EmptySwaps \/ buf[c].blocks # <<>>)

Swap(b, c) ==
    /\ b # c /\ Taken(b) /\ Taken(c)
    /\ buf' = [buf EXCEPT ![b] = Given(buf[c]), ![c] = Given(buf[b])]
    /\ offered' = [offered EXCEPT ![b] = FALSE, ![c] = FALSE]
    /\ Text!Exchange(b, c)

\* b is constructed as a copy of c.
CopyConstruct(b, c) ==
    b # c /\ Usable(c) /\ HasRoom(buf[c].readable) /\ Become(b, Copy(buf[c])) /\ Text!Assign(b, c)

\* b is assigned c: it swaps with a copy.
AssignFrom(b, c) == Taken(c) /\ HasRoom(buf[c].readable) /\ Become(b, Given(Copy(buf[c]))) /\ Text!Assign(b, c)

\* b is constructed from c, which is moved.
MoveConstruct(b, c) ==
    /\ b # c /\ Taken(c)
    /\ buf' = [buf EXCEPT ![b] = Given(buf[c]), ![c] = Empty]
    /\ offered' = [offered EXCEPT ![b] = FALSE, ![c] = FALSE]
    /\ Text!MoveFrom(b, c)

OfOne(b) ==
    \/ \E s \in Strings : DoAppend(b, s) \/ DoPrepend(b, s) \/ DoExtend(b, s) \/ StreamWrite(b, s)
    \/ \E n \in 0..MaxBytes : DoDiscard(b, n) \/ DoUnwrite(b, n)
    \/ DoRetrieveCStyleString(b)
    \/ DiscardAll(b)
    \/ DoNext(b)

OfTwo(b, c) == Swap(b, c) \/ CopyConstruct(b, c) \/ AssignFrom(b, c) \/ MoveConstruct(b, c)

Next == \E b \in Buffers : OfOne(b) \/ \E c \in Buffers : OfTwo(b, c)

Spec == Init /\ [][Next]_vars
-----------------------------------------------------------------------------
TypeOK ==
    /\ buf \in [Buffers -> Values(Bytes)]
    /\ offered \in [Buffers -> BOOLEAN]
    /\ text \in [Buffers -> Seq(Bytes)]

\* A buffer that is usable holds its string in well-formed blocks, and any other has no block; what
\* next() has offered is a block of the list.
Shape ==
    \A b \in Buffers :
        /\ IF Usable(b) THEN WellFormed(buf[b]) /\ Contents(buf[b]) = text[b]
           ELSE EmptySwaps /\ buf[b].blocks = <<>>
        /\ offered[b] => HasOffer(buf[b])

\* Whatever the layout of the blocks, a buffer holds the string that its operations make: no byte is
\* lost, doubled, out of order, or shared with another buffer.  toString() and all() agree on it, and
\* readableBytes_ is its length, or toString() would run off the list.  It stays usable, unless a
\* buffer with no block was swapped.
SameAsString ==
    \A b \in Buffers :
        /\ EmptySwaps \/ Usable(b)
        /\ Usable(b) => /\ Contents(buf[b]) = text[b] /\ All(buf[b]) = text[b]
                        /\ buf[b].readable = Len(text[b])

\* A buffer that lives for long does not gather blocks: at most the first, the one that is written
\* next and the one behind it are empty.
FewEmptyBlocks ==
    \A b \in Buffers :
        Cardinality({i \in 1..Len(buf[b].blocks) : buf[b].blocks[i].data = <<>>}) <= 3

IInv == TypeOK /\ Shape /\ FewEmptyBlocks
=============================================================================
