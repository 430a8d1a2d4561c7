----------------------------- MODULE RingQueue -----------------------------
(* What MpmcQueue<T, N> and SpscQueue<T, N> hold.                          *)
EXTENDS Integers

CONSTANTS
  Value,     \* T
  Nothing    \* no value: a slot never written, a client without one

ASSUME RingAssumption == Nothing \notin Value
=============================================================================
