----------------------------- MODULE BufferOps -----------------------------
(***************************************************************************)
(* The operations of Buffer on its value: a list of blocks and two         *)
(* iterators.  An iterator is an index, that of end() is one more than the *)
(* length of the list.  A block is its capacity, its read position and the *)
(* bytes from there to its write position; no operation ever gives a sense *)
(* to the other bytes.  capacity_ is left out: nothing reads it.           *)
(***************************************************************************)
EXTENDS Naturals, Sequences, SequencesExt, FiniteSetsExt

CONSTANT MinSize   \* MIN_BUFFER_SIZE

ASSUME BufferAssumption == MinSize \in Nat \ {0}

-----------------------------------------------------------------------------
(* DataBlock *)

\* realSize after k turns of the loop.
RealSize[k \in Nat] == IF k = 0 THEN MinSize ELSE 2 * RealSize[k - 1]

\* The smallest capacity that holds n bytes.
CapacityFor(n) == RealSize[Min({k \in 0..n : RealSize[k] >= n})]

WritePosition(blk) == blk.read + Len(blk.data)
Writeable(blk) == blk.cap - WritePosition(blk)
TotalSpace(blk) == blk.cap - Len(blk.data)

\* setReadPosition and setWritePosition: an empty block starts again, unless it is at its end.
Settle(blk) == IF blk.data = <<>> /\ blk.read # blk.cap THEN [blk EXCEPT !.read = 0] ELSE blk

Realign(blk) == [blk EXCEPT !.read = 0]

Write(blk, s) == Settle([blk EXCEPT !.data = @ \o s])

WriteInFront(blk, s) == Settle([blk EXCEPT !.read = @ - Len(s), !.data = s \o @])

Drop(blk, n) ==
    IF n = 0 THEN blk
    ELSE Settle([blk EXCEPT !.read = @ + n, !.data = SubSeq(@, n + 1, Len(@))])

\* The last n bytes are no longer there.
TakeBack(blk, n) == Settle([blk EXCEPT !.data = SubSeq(@, 1, Len(@) - n)])

-----------------------------------------------------------------------------
(* Buffer *)

\* own: the iterators are those of its own list.
Empty == [blocks |-> <<>>, first |-> 1, last |-> 1, readable |-> 0, own |-> TRUE]

End(b) == Len(b.blocks) + 1

\* The bytes of the blocks from i to j.
BytesOf(b, i, j) == FlattenSeq([k \in 1..(j - i + 1) |-> b.blocks[i + k - 1].data])

\* toString()
Contents(b) == BytesOf(b, b.first, Len(b.blocks))

\* What all() gives and send() writes to the socket: it stops at lastWithData_.
All(b) == BytesOf(b, b.first, Min({b.last, Len(b.blocks)}))

\* emplace_back: end() moves on, and an iterator that is end() with it.
PushBack(b, n) ==
    [b EXCEPT !.blocks = Append(@, [cap |-> CapacityFor(n), read |-> 0, data |-> <<>>]),
              !.first = IF b.blocks # <<>> /\ @ = End(b) THEN @ + 1 ELSE @]

\* emplace_front with s at the end of the new block.
PushFront(b, s) ==
    LET blk == [cap |-> CapacityFor(Len(s)), read |-> CapacityFor(Len(s)) - Len(s), data |-> s]
    IN  [b EXCEPT !.blocks = <<blk>> \o @, !.first = 1,
                  !.last = IF b.first = End(b) THEN 1 ELSE @ + 1, !.readable = @ + Len(s)]

\* The block that takes n more bytes, realigned if there is no room behind the others.
RoomFor(blk, n) == IF Writeable(blk) >= n THEN blk ELSE Realign(blk)

\* One call of append, which leaves the rest to another: v is the buffer, what is to be
\* appended, and whether nothing is left to do.
AppendCall(v) ==
    LET b == IF v.buffer.last = End(v.buffer) THEN PushBack(v.buffer, Len(v.rest)) ELSE v.buffer
        blk == b.blocks[b.last]
        n == Writeable(blk)
    IN  IF v.done THEN v
        ELSE IF TotalSpace(blk) >= Len(v.rest)
        THEN [buffer |-> [b EXCEPT !.blocks[b.last] = Write(RoomFor(blk, Len(v.rest)), v.rest),
                                   !.readable = @ + Len(v.rest)],
              rest |-> <<>>, done |-> TRUE]
        ELSE [buffer |-> [b EXCEPT !.blocks[b.last] = IF n > 0 THEN Write(@, SubSeq(v.rest, 1, n)) ELSE @,
                                   !.readable = @ + n, !.last = @ + 1],
              rest |-> SubSeq(v.rest, n + 1, Len(v.rest)), done |-> FALSE]

\* append: a call for each block from lastWithData_ on, and one for a new block.
BufAppend(buffer, s) ==
    LET calls == Len(buffer.blocks) - buffer.last + 2
        after[k \in 0..calls] == IF k = 0 THEN [buffer |-> buffer, rest |-> s, done |-> FALSE]
                                 ELSE AppendCall(after[k - 1])
    IN  after[calls].buffer

\* s is put in front of the data of the first block.
FillFront(b, s) ==
    [b EXCEPT !.blocks[b.first] = WriteInFront(@, s), !.readable = @ + Len(s)]

\* prepend: what the first block has no room for goes to a new one.
Prepend(b, s) ==
    IF b.first = End(b) THEN PushFront(b, s)
    ELSE LET room == Min({b.blocks[b.first].read, Len(s)})
             rest == Len(s) - room
             filled == IF room = 0 THEN b ELSE FillFront(b, SubSeq(s, rest + 1, Len(s)))
         IN  IF rest = 0 THEN filled ELSE PushFront(filled, SubSeq(s, 1, rest))

\* Fault: no block is erased.
FaultyErasedNone(b) == 0

\* How many blocks discard erases: the empty ones at the front, up to lastWithData_.
Erased(b) == Max({k \in 0..(b.last - 1) : \A j \in 1..k : b.blocks[j].data = <<>>})

\* How many of the first n bytes are in block j.
TakenFrom(b, n, j) ==
    IF j < b.first THEN 0
    ELSE Min({Len(b.blocks[j].data), Max({0, n - Len(BytesOf(b, b.first, j - 1))})})

DropBytes(b, n) ==
    [b EXCEPT !.blocks = [j \in 1..Len(@) |-> Drop(@[j], TakenFrom(b, n, j))], !.readable = @ - n]

EraseFront(b) ==
    [b EXCEPT !.blocks = SubSeq(@, Erased(b) + 1, Len(@)), !.first = 1, !.last = @ - Erased(b)]

\* discard
Discard(b, n) == EraseFront(DropBytes(b, n))

\* retrieveCStyleString: byte by byte, up to the first that is 0.
RetrieveCStyleString(b) ==
    LET n == Min({i \in 1..Len(Contents(b)) : Contents(b)[i] = 0})
        after[k \in 0..n] == IF k = 0 THEN b ELSE Discard(after[k - 1], 1)
    IN  after[n]

\* The block next() offers: that of lastWithData_, or the one behind it if it is full.
Offered(b) == IF Writeable(b.blocks[b.last]) = 0 THEN b.last + 1 ELSE b.last

\* next(): makes room behind the data.
NextSpace(b) ==
    IF b.last = End(b) \/ Offered(b) = End(b) THEN PushBack(b, 0)
    ELSE IF Offered(b) = b.last /\ b.blocks[b.last].read >= b.blocks[b.last].cap \div 2
    THEN [b EXCEPT !.blocks[b.last] = Realign(@)]
    ELSE b

\* Fault: lastWithData_ stays where it is.
FaultyExtend(b, s) ==
    [b EXCEPT !.blocks[Offered(b)] = Write(@, s), !.readable = @ + Len(s)]

\* extend: s was written to the block that next() offered.
Extend(b, s) ==
    [b EXCEPT !.last = Offered(b), !.blocks[Offered(b)] = Write(@, s), !.readable = @ + Len(s)]

\* unwrite
Unwrite(b, n) ==
    [b EXCEPT !.blocks[b.last] = TakeBack(@, n), !.readable = @ - n]

\* The copy constructor, which walks the copied list from its front and the other from
\* firstWithData_.
Copy(b) ==
    [b EXCEPT !.first = 1, !.own = TRUE,
              !.last = IF b.last \in b.first..Len(b.blocks) THEN b.last - b.first + 1 ELSE End(b)]

\* What swap makes of the value it gives to another buffer: an iterator that is end() stays that
\* of the list it comes from.
Given(b) == [b EXCEPT !.own = b.first # End(b) /\ b.last # End(b)]

-----------------------------------------------------------------------------
(* What every operation preserves, for bytes of S *)

\* A block's positions lie within it, and if it is empty at its start or at its end.
Blocks(S) ==
    {blk \in [cap : Nat \ {0}, read : Nat, data : Seq(S)] :
        WritePosition(blk) <= blk.cap /\ (blk.data = <<>> => blk.read \in {0, blk.cap})}

Values(S) == [blocks : Seq(Blocks(S)), first : Nat, last : Nat, readable : Nat, own : BOOLEAN]

\* The iterators are those of the list, and end() only if it has no block.
IteratorsInList(b) ==
    b.own /\ b.first = 1 /\ IF b.blocks = <<>> THEN b.last = 1 ELSE b.last \in 1..Len(b.blocks)

\* Only the first block has been read from, no block before lastWithData_ is empty but the first,
\* if it was read to its end, and there is at most one behind it, with no data.
DataInOrder(b) ==
    /\ \A i \in 2..Len(b.blocks) : b.blocks[i].read = 0
    /\ 1 < b.last => b.blocks[1].data # <<>> \/ b.blocks[1].read # 0
    /\ \A i \in 2..(b.last - 1) : b.blocks[i].data # <<>>
    /\ Len(b.blocks) <= b.last + 1
    /\ \A i \in (b.last + 1)..Len(b.blocks) : b.blocks[i].data = <<>>

WellFormed(b) == IteratorsInList(b) /\ DataInOrder(b) /\ b.readable = Len(Contents(b))

\* What next() has offered is a block of the list.
HasOffer(b) == b.blocks # <<>> /\ Offered(b) \in 1..Len(b.blocks)
=============================================================================
