------------------------------- MODULE HopKV -------------------------------
(***************************************************************************)
(* What a Hop store promises its clients (the Hop interface, src/hop.go):  *)
(* a map from keys to a version and a value in which every operation takes *)
(* effect atomically.  Create adds a key at version Lowest, Remove deletes *)
(* it, and a successful Set, TestSet or Atomic advances the version by one *)
(* and installs a value; versions wrap from Highest back to Lowest.  A     *)
(* missing key is version Any (0) with the nil value, as the store         *)
(* reports it.                                                             *)
(***************************************************************************)
EXTENDS Naturals

CONSTANTS Keys, Vals, Nil, Highest

Any    == 0
Lowest == 1

Absent == [ver |-> Any, val |-> Nil]

VARIABLE kv

TypeOK == kv \in [Keys -> [ver: Lowest .. Highest, val: Vals] \cup {Absent}]

\* The version after v: one more, and back to Lowest after Highest
NextVersion(v) == IF v = Highest THEN Lowest ELSE v + 1

Init == kv = [k \in Keys |-> Absent]

Create(k, x) ==
    /\ kv[k] = Absent
    /\ kv' = [kv EXCEPT ![k] = [ver |-> Lowest, val |-> x]]

Remove(k) ==
    /\ kv[k] # Absent
    /\ kv' = [kv EXCEPT ![k] = Absent]

\* A successful Set, TestSet or Atomic
Update(k, x) ==
    /\ kv[k] # Absent
    /\ kv' = [kv EXCEPT ![k] = [ver |-> NextVersion(kv[k].ver), val |-> x]]

Next == \E k \in Keys, x \in Vals : Create(k, x) \/ Remove(k) \/ Update(k, x)

Spec == Init /\ [][Next]_kv
=============================================================================
