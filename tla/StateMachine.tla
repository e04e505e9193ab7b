--------------------------- MODULE StateMachine ---------------------------
(***************************************************************************)
(* The replicated key/value state machine of 02-raft: a map from keys to   *)
(* Java ints, changed by SET, ADD and SUBTRACT.  ADD and SUBTRACT of a key *)
(* that was never set throw UnknownKeyException and change nothing.        *)
(* Integer arithmetic wraps at the width of an int, which is a parameter   *)
(* so that the boundary is within reach of a bounded check.                *)
(***************************************************************************)
EXTENDS Integers

CONSTANTS
    Key,        \* the keys clients use
    Absent,     \* what the map answers for a key that was never set
    Modulus     \* 2^32 in the program: how many values an int has

ASSUME ModulusAssumption == Modulus \in Nat /\ Modulus >= 2 /\ Modulus % 2 = 0

ASSUME AbsentAssumption == Absent \notin Int

JavaInt == -(Modulus \div 2) .. ((Modulus \div 2) - 1)

\* Two's-complement wrap-around of an int result.
Wrap(x) == ((x + (Modulus \div 2)) % Modulus) - (Modulus \div 2)

Command == [key : Key, action : {"SET", "ADD", "SUBTRACT"}, value : JavaInt]

NoValues == [k \in Key |-> Absent]

\* What update() adds to the current value: the operand, or its wrapped
\* negation for SUBTRACT (the negation of the smallest int is itself).
Delta(c) == IF c.action = "ADD" THEN c.value ELSE Wrap(-c.value)

Knows(vals, c) == c.action = "SET" \/ vals[c.key] # Absent

\* The value apply() returns for a command the state knows the key of.
Result(vals, c) ==
    IF c.action = "SET" THEN c.value ELSE Wrap(vals[c.key] + Delta(c))

\* apply(): the new map, and whether it returned normally and with what.
Apply(vals, c) ==
    IF Knows(vals, c)
    THEN [values |-> [vals EXCEPT ![c.key] = Result(vals, c)],
          ok |-> TRUE, value |-> Result(vals, c)]
    ELSE [values |-> vals, ok |-> FALSE, value |-> 0]
===========================================================================
