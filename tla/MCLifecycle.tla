----------------------------- MODULE MCLifecycle ------------------------------
(* A small instance of Lifecycle for TLC.                                    *)
EXTENDS Lifecycle

CONSTANTS a, b, c

Low  == [lo |-> 5, hi |-> 7]
High == [lo |-> 20, hi |-> 22]
Two  == {Low, High}
===============================================================================
