------------------------------ MODULE MCCache ------------------------------
(* Instance of Cache for TLC: two client threads, two keys and two values  *)
(* of different sizes, with caps small enough that updateEntry evicts.     *)
EXTENDS Cache

CONSTANTS t1, t2, k1, k2, v1, v2

MCThreads1 == {t1}
MCThreads2 == {t1, t2}
MCKeys == {k1, k2}
MCVals == {v1, v2}
\* len(key) is 1; v1 is one byte long and v2 two
MCValSize == [v \in MCVals |-> IF v = v1 THEN 1 ELSE 2]
\* every cached key plus an entry being inserted, plus one orphan
MCCEnts == 1 .. 4
====
