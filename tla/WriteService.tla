---------------------------- MODULE WriteService ----------------------------
(***************************************************************************)
(* What a host may rely on of write() and write_sequence(), as their       *)
(* documentation puts it (_client.py, _writes.py): writes go out one at a  *)
(* time and in order, a setting may be left out in favour of a newer one   *)
(* and then has the newer one's outcome, and no other write is.  How the   *)
(* queue brings that about is not said here.                               *)
(***************************************************************************)
EXTENDS Naturals, Sequences

CONSTANT Writes

VARIABLES
    order,      \* the place of each write among those begun, 0 before that
    keys,       \* the keys it writes, in order
    setting,    \* whether a newer write to its key may stand in for it
    landed,     \* how many of its values the device has taken
    outcome     \* what it returned, "none" before that

vars == <<order, keys, setting, landed, outcome>>

Begun == {w \in Writes : order[w] # 0}

Taken(w) == landed[w] = Len(keys[w])

\* `v` is a newer setting of the key that `w` sets.
Newer(v, w) == setting[v] /\ setting[w] /\ keys[v] = keys[w] /\ order[v] > order[w]

\* Exactly w's entry of the function `f` changes.
OnlyFor(w, f, g) == g = [f EXCEPT ![w] = g[w]]

Init ==
    /\ order = [w \in Writes |-> 0]
    /\ keys = [w \in Writes |-> << >>]
    /\ setting = [w \in Writes |-> FALSE]
    /\ landed = [w \in Writes |-> 0]
    /\ outcome = [w \in Writes |-> "none"]

Begin(w) ==
    /\ w \notin Begun
    /\ OnlyFor(w, order, order') /\ order'[w] > 0
    /\ \A v \in Begun : order'[w] > order[v]
    /\ OnlyFor(w, keys, keys') /\ keys'[w] # << >>
    /\ OnlyFor(w, setting, setting')
    /\ UNCHANGED <<landed, outcome>>

\* The device takes the next value of `w`: no write begun later has any with it.
Take(w) ==
    /\ w \in Begun
    /\ outcome[w] = "none"
    /\ ~Taken(w)
    /\ \A v \in Begun : order[v] > order[w] => landed[v] = 0
    /\ landed' = [landed EXCEPT ![w] = @ + 1]
    /\ UNCHANGED <<order, keys, setting, outcome>>

Return(w) ==
    /\ outcome[w] = "none"
    /\ OnlyFor(w, outcome, outcome') /\ outcome'[w] # "none"
    /\ w \notin Begun => outcome'[w] = "cancelled"
    /\ outcome'[w] = "ok" => Taken(w) \/ \E v \in Begun : Newer(v, w) /\ Taken(v)
    /\ UNCHANGED <<order, keys, setting, landed>>

Next == \E w \in Writes : Begin(w) \/ Take(w) \/ Return(w)

Spec == Init /\ [][Next]_vars
=============================================================================
