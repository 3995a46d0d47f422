----------------------------- MODULE ByteString -----------------------------
(***************************************************************************)
(* What Buffer promises: each buffer is one string of bytes, written at    *)
(* either end and read from the front, and two buffers share nothing.      *)
(* Module Buffer runs it in step with the blocks.                          *)
(***************************************************************************)
EXTENDS Naturals, Sequences

CONSTANT Buffers

VARIABLE text   \* text[b]: the bytes of buffer b

Init == text = [b \in Buffers |-> <<>>]

Write(b, s) == text' = [text EXCEPT ![b] = @ \o s]

WriteInFront(b, s) == text' = [text EXCEPT ![b] = s \o @]

\* Reading n bytes takes them off the front.
Read(b, n) == text' = [text EXCEPT ![b] = SubSeq(@, n + 1, Len(@))]

\* Reading a string takes the bytes up to the first 0 and that one.
ReadCString(b) ==
    \E n \in 1..Len(text[b]) :
        /\ text[b][n] = 0
        /\ \A i \in 1..(n - 1) : text[b][i] # 0
        /\ Read(b, n)

\* Taking back what was written last.
TakeBack(b, n) == text' = [text EXCEPT ![b] = SubSeq(@, 1, Len(@) - n)]

Clear(b) == text' = [text EXCEPT ![b] = <<>>]

Exchange(b, c) == text' = [text EXCEPT ![b] = text[c], ![c] = text[b]]

Assign(b, c) == text' = [text EXCEPT ![b] = text[c]]

MoveFrom(b, c) == text' = [text EXCEPT ![b] = text[c], ![c] = <<>>]
=============================================================================
