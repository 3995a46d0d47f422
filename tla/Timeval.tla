------------------------------ MODULE Timeval ------------------------------
(***************************************************************************)
(* Timeval, a time in microseconds, and what EventLoop makes of one for a  *)
(* timer of libuv.  A millisecond is Milli microseconds.                   *)
(***************************************************************************)
EXTENDS Naturals

CONSTANT Milli

ASSUME MilliAssumption == Milli \in Nat \ {0}

\* operator+ and operator+=
Plus(s, t) == s + t

\* The assertion of operator- and operator-=.
AtLeast(s, t) == s >= t

Minus(s, t) == s - t

Millisecond(t) == t \div Milli

\* Fault: the delay is taken for microseconds.
FaultyDue(now, delay) == Plus(now, delay)

\* When a timer of runAfter(delay) that is called at now is due.
Due(now, delay) == Plus(now, delay * Milli)

\* timerRunImpl reads the clock again, at later, and starts the timer with whole milliseconds.
Timeout(now, later, delay) == Millisecond(Minus(Due(now, delay), later))
=============================================================================
