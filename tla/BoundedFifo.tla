----------------------------- MODULE BoundedFifo -----------------------------
(***************************************************************************)
(* What a character queue promises: characters leave it in the order in    *)
(* which they entered, none is lost, none is invented.                     *)
(***************************************************************************)
EXTENDS Naturals, Sequences

CONSTANTS Char, Capacity

VARIABLE fifo

Init == fifo = << >>

Put == /\ Len(fifo) < Capacity
       /\ \E ch \in Char : fifo' = Append(fifo, ch)

Get == /\ fifo # << >>
       /\ fifo' = Tail(fifo)

Spec == Init /\ [][Put \/ Get]_fifo
=============================================================================
