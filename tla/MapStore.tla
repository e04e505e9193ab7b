------------------------------ MODULE MapStore ------------------------------
(***************************************************************************)
(* What 01-btree promises to its callers: a map.  A put takes effect at    *)
(* once, in full or not at all; a get is answered from the map as it was   *)
(* at one moment between the call and the answer, whatever puts are under  *)
(* way; a process that ends keeps every put that has returned.             *)
(***************************************************************************)
EXTENDS Integers

CONSTANTS
    Reader,         \* threads that call get()
    Key, Value

VARIABLES
    map,            \* the value of each key that has one
    putting,        \* the put under way: {}, or one key with its value
    gets            \* the get of each reader

vars == <<map, putting, gets>>

\* A get that is not there, one that was asked, one that has its answer,
\* which is the set of the value, or empty.
NoGet == [step |-> "none"]
Asked(key) == [step |-> "asked", key |-> key]
Found(key, answer) == [step |-> "found", key |-> key, answer |-> answer]

Lookup(m, key) == IF key \in DOMAIN m THEN {m[key]} ELSE {}

\* The map after the puts of a set of at most one.
After(m, puts) ==
    [key \in DOMAIN m \cup {e.key : e \in puts} |->
        IF \E e \in puts : e.key = key
        THEN (CHOOSE e \in puts : e.key = key).val ELSE m[key]]

Init ==
    /\ map = <<>>
    /\ putting = {}
    /\ gets = [r \in Reader |-> NoGet]

BeginPut(key, val) ==
    /\ putting = {} /\ putting' = {[key |-> key, val |-> val]}
    /\ UNCHANGED <<map, gets>>

EndPut ==
    /\ putting # {} /\ putting' = {}
    /\ map' = After(map, putting)
    /\ UNCHANGED gets

\* A put that cannot be carried out changes nothing.
FailPut ==
    /\ putting # {} /\ putting' = {}
    /\ UNCHANGED <<map, gets>>

BeginGet(r) ==
    /\ gets[r] = NoGet
    /\ \E key \in Key : gets' = [gets EXCEPT ![r] = Asked(key)]
    /\ UNCHANGED <<map, putting>>

FindKey(r) ==
    /\ gets[r].step = "asked"
    /\ gets' = [gets EXCEPT ![r] = Found(@.key, Lookup(map, @.key))]
    /\ UNCHANGED <<map, putting>>

\* A get returns, or nothing more is promised about it.
EndGet(r) ==
    /\ gets[r] # NoGet
    /\ gets' = [gets EXCEPT ![r] = NoGet]
    /\ UNCHANGED <<map, putting>>

\* The process ends: its gets are gone, a put under way may or may not have
\* taken effect.
Restart ==
    /\ map' \in {map, After(map, putting)}
    /\ putting' = {}
    /\ gets' = [r \in Reader |-> NoGet]

Next ==
    \/ \E key \in Key, val \in Value : BeginPut(key, val)
    \/ EndPut \/ FailPut
    \/ \E r \in Reader : BeginGet(r) \/ FindKey(r) \/ EndGet(r)
    \/ Restart

Spec == Init /\ [][Next]_vars
=============================================================================
