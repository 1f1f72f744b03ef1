------------------------------- MODULE Cache -------------------------------
(***************************************************************************)
(* CHop, the write-through LRU cache of src/chop/cache.go, in front of a   *)
(* backing Hop store.                                                      *)
(*                                                                         *)
(* The CHop struct is the variable `c`: the map c.entries, the pointers    *)
(* c.lru and c.mru, the byte count c.memsz, and the CEntry objects `ce`    *)
(* (elements of CEnts) with their key, version, value and lru/mru links.   *)
(* getEntry, updateEntry and removeEntry each run under c's mutex and are  *)
(* one step here; the backend call between them runs outside the lock.     *)
(* The backend is the abstract store HopKV: each of its calls takes effect *)
(* atomically (module EntryStore checks the leaf store against it).        *)
(* A CEntry that no root or reachable CEntry points to is reclaimed, as    *)
(* Go's collector would.  Domain mode (#/cache/ and #/chop/ keys) is not   *)
(* modelled: D2 is not configured (c.dhop == nil).                         *)
(***************************************************************************)
EXTENDS Integers, FiniteSetsExt

CONSTANTS
    Threads,      \* concurrent client calls
    Keys,         \* client keys
    Vals,         \* client values (byte strings, abstracted)
    Nil,          \* the nil []byte
    ValSize,      \* len(v) for v \in Vals
    KeyLen,       \* len(key), the same for all keys
    MaxElem,      \* c.maxelem
    MaxMem,       \* c.maxmem
    CEnts,        \* CEntry objects, positive integers
    Highest,      \* backend versions wrap after Highest
    MaxOps        \* bound: calls each thread makes

Any    == 0
Lowest == 1
Newest == Highest + 1

NoEnt == 0                      \* a nil *CEntry
NoKey == "nokey"                \* key of a CEntry not yet allocated

ASSUME CEnts \subseteq Nat \ {0} /\ Nil \notin Vals /\ KeyLen > 0

VARIABLES
    store,        \* the backing Hop's key -> [ver, val]
    c,            \* the CHop struct and its CEntry objects
    pc,           \* thread program counter
    req,          \* the call a thread is executing
    res,          \* what the backend returned to it
    ret,          \* what the call returned
    nops,         \* calls made by each thread
    seen,         \* the last version each thread saw for each key
    gone          \* the keys the backend has ever removed

vars == <<store, c, pc, req, res, ret, nops, seen, gone>>

\* The backing Hop, as the interface promises it
Backend == INSTANCE HopKV WITH kv <- store

\* updateEntry's approximation of the memory a cached value uses
Size(k, v) == KeyLen + (IF v = Nil THEN 0 ELSE ValSize[v])

Ptr == CEnts \cup {NoEnt}
FreeEnt == [key |-> NoKey, version |-> 0, value |-> Nil, lru |-> NoEnt, mru |-> NoEnt]
CEntries == [key: Keys \cup {NoKey}, version: 0 .. Highest, value: Vals \cup {Nil},
             lru: Ptr, mru: Ptr]

Requests ==
       [kind: {"get"}, key: Keys, ver: {Any, Newest}]
  \cup [kind: {"create", "set"}, key: Keys, val: Vals]
  \cup [kind: {"remove"}, key: Keys]
  \cup [kind: {"testset"}, key: Keys, old: Vals, val: Vals]
  \cup [kind: {"atomic"}, key: Keys, out: Vals \cup {"unchanged"}, ret: Vals]
NoRequest == [kind |-> "none"]
Reply(v, x, err) == [ver |-> v, val |-> x, err |-> err]
Errors == {"ok", "Eexist", "Enoent"}

PCs == {"idle", "lookup", "forward", "update", "evict", "spin"}

-----------------------------------------------------------------------------
(* The cache's data structure, translated from src/chop/cache.go *)

\* The CEntries reachable from the map and the list ends, through links
RECURSIVE Reach(_, _)
Reach(cc, S) ==
    LET N == (S \cup {cc.ce[x].lru : x \in S} \cup {cc.ce[x].mru : x \in S}) \ {NoEnt}
    IN  IF N = S THEN S ELSE Reach(cc, N)
Roots(cc) == ({cc.entries[k] : k \in Keys} \cup {cc.lru, cc.mru}) \ {NoEnt}
Collect(cc) ==
    LET live == Reach(cc, Roots(cc))
    IN  [cc EXCEPT !.ce = [x \in CEnts |-> IF x \in live THEN cc.ce[x] ELSE FreeEnt]]
NewCEntry(cc) == Min(CEnts \ Reach(cc, Roots(cc)))

TypeOK ==
    /\ store \in [Keys -> [ver: Lowest .. Highest, val: Vals] \cup {Backend!Absent}]
    /\ c.entries \in [Keys -> Ptr]
    /\ c.lru \in Ptr /\ c.mru \in Ptr
    /\ c.memsz \in Int
    /\ c.ce \in [CEnts -> CEntries]
    /\ \A x \in Reach(c, Roots(c)) : c.ce[x].key \in Keys
    /\ pc \in [Threads -> PCs]
    /\ req \in [Threads -> Requests \cup {NoRequest}]
    /\ res \in [Threads -> [ver: 0 .. Highest, val: Vals \cup {Nil}, err: Errors]]
    /\ ret \in [Threads -> [ver: 0 .. Highest, val: Vals \cup {Nil}, err: Errors]]
    /\ nops \in [Threads -> 0 .. MaxOps]
    /\ seen \in [Threads -> [Keys -> 0 .. Highest]]
    /\ gone \subseteq Keys

CachedKeys(cc) == {k \in Keys : cc.entries[k] # NoEnt}

\* uint64 `c.memsz + sz > c.maxmem`, where a negative memsz stands for a
\* count that wrapped below zero
OverMem(m, sz) == m + sz < 0 \/ m + sz > MaxMem

\* lruremove: unlink e from the LRU list
LruRemove(cc, e) ==
    LET ce0 == cc.ce
        ce1 == IF ce0[e].lru # NoEnt THEN [ce0 EXCEPT ![ce0[e].lru].mru = ce0[e].mru] ELSE ce0
        lru1 == IF ce0[e].lru # NoEnt THEN cc.lru ELSE ce0[e].mru
        ce2 == IF ce1[e].mru # NoEnt THEN [ce1 EXCEPT ![ce1[e].mru].lru = ce1[e].lru] ELSE ce1
        mru1 == IF ce1[e].mru # NoEnt THEN cc.mru ELSE ce1[e].lru
    IN  [cc EXCEPT !.lru = lru1, !.mru = mru1,
                   !.ce = [ce2 EXCEPT ![e].lru = NoEnt, ![e].mru = NoEnt]]

\* removeLRU: drop the entry at the LRU end (a no-op when c.lru is nil)
RemoveLRU(cc) ==
    LET le == cc.lru
        x  == cc.ce[le]
        ce1 == IF x.mru # NoEnt THEN [cc.ce EXCEPT ![x.mru].lru = NoEnt] ELSE cc.ce
    IN  IF le = NoEnt THEN cc
        ELSE [cc EXCEPT !.entries[x.key] = NoEnt,
                        !.lru = x.mru,
                        !.mru = IF cc.mru = le THEN NoEnt ELSE cc.mru,
                        !.memsz = @ - Size(x.key, x.value),
                        !.ce = [ce1 EXCEPT ![le].lru = NoEnt, ![le].mru = NoEnt]]

\* updateEntry's loop `for c.memsz + sz > c.maxmem { c.removeLRU() }`,
\* followed until it ends or until removeLRU can no longer change anything
RECURSIVE EvictMem(_, _)
EvictMem(cc, sz) ==
    IF OverMem(cc.memsz, sz) /\ cc.lru # NoEnt THEN EvictMem(RemoveLRU(cc), sz) ELSE cc

\* getEntry: on a hit, move the entry to the MRU end
GetEntry(cc, k) ==
    LET e  == cc.entries[k]
        c1 == LruRemove(cc, e)
        ce2 == [c1.ce EXCEPT ![e].lru = c1.mru]
        ce3 == IF c1.mru # NoEnt THEN [ce2 EXCEPT ![c1.mru].mru = e] ELSE ce2
    IN  IF e = NoEnt THEN cc ELSE [c1 EXCEPT !.ce = ce3, !.mru = e]

\* updateEntry up to the end of its eviction loop
Evicted(cc, k, v) ==
    LET e0 == cc.entries[k]
        c1 == IF e0 = NoEnt THEN cc
              ELSE LruRemove([cc EXCEPT !.memsz = @ - Size(k, cc.ce[e0].value)], e0)
        n  == IF e0 = NoEnt THEN 1 ELSE 0
        c2 == IF Cardinality(CachedKeys(c1)) + n > MaxElem THEN RemoveLRU(c1) ELSE c1
    IN  EvictMem(c2, Size(k, v))

\* updateEntry never leaves its eviction loop
UpdateSpins(cc, k, v) == OverMem(Evicted(cc, k, v).memsz, Size(k, v))

\* (a mutant of UpdateEntry: a new CEntry never gets its key)
UpdateEntryNoKey(cc, k, ver, v) ==
    LET e0 == cc.entries[k]
        c3 == Evicted(cc, k, v)
        e  == IF e0 = NoEnt THEN NewCEntry(cc) ELSE e0
        c4 == IF e0 = NoEnt THEN [c3 EXCEPT !.entries[k] = e, !.ce[e] = FreeEnt] ELSE c3
        ce5 == [c4.ce EXCEPT ![e].version = ver, ![e].value = v, ![e].lru = c4.mru]
        ce6 == IF c4.mru # NoEnt THEN [ce5 EXCEPT ![c4.mru].mru = e] ELSE ce5
    IN  [c4 EXCEPT !.ce = ce6, !.lru = IF c4.lru = NoEnt THEN e ELSE c4.lru,
                   !.mru = e, !.memsz = @ + Size(k, v)]

\* updateEntry: cache (ver, v) for k as the MRU entry
UpdateEntry(cc, k, ver, v) ==
    LET e0 == cc.entries[k]
        c3 == Evicted(cc, k, v)
        e  == IF e0 = NoEnt THEN NewCEntry(cc) ELSE e0
        c4 == IF e0 = NoEnt
              THEN [c3 EXCEPT !.entries[k] = e, !.ce[e] = [FreeEnt EXCEPT !.key = k]]
              ELSE c3
        ce5 == [c4.ce EXCEPT ![e].version = ver, ![e].value = v, ![e].lru = c4.mru]
        ce6 == IF c4.mru # NoEnt THEN [ce5 EXCEPT ![c4.mru].mru = e] ELSE ce5
    IN  [c4 EXCEPT !.ce = ce6,
                   !.lru = IF c4.lru = NoEnt THEN e ELSE c4.lru,
                   !.mru = e,
                   !.memsz = @ + Size(k, v)]

\* removeEntry
RemoveEntry(cc, k) ==
    LET e == cc.entries[k]
        c1 == LruRemove([cc EXCEPT !.entries[k] = NoEnt], e)
    IN  IF e = NoEnt THEN cc
        ELSE [c1 EXCEPT !.memsz = @ - Size(cc.ce[e].key, cc.ce[e].value)]

-----------------------------------------------------------------------------
(* Client calls.  Each is CHop's method: at most one step under c's mutex  *)
(* before the backend call (Get's getEntry), the backend call, and at most *)
(* one step under the mutex after it (updateEntry or removeEntry).         *)

\* A thread looping forever in updateEntry holds c's mutex for good.
MutexFree == \A u \in Threads : pc[u] # "spin"

Init ==
    /\ store = [k \in Keys |-> Backend!Absent]
    /\ c = [entries |-> [k \in Keys |-> NoEnt], lru |-> NoEnt, mru |-> NoEnt,
            memsz |-> 0, ce |-> [x \in CEnts |-> FreeEnt]]
    /\ pc = [t \in Threads |-> "idle"]
    /\ req = [t \in Threads |-> NoRequest]
    /\ res = [t \in Threads |-> Reply(0, Nil, "ok")]
    /\ ret = [t \in Threads |-> Reply(0, Nil, "ok")]
    /\ nops = [t \in Threads |-> 0]
    /\ seen = [t \in Threads |-> [k \in Keys |-> 0]]
    /\ gone = {}

Call(t) ==
    /\ pc[t] = "idle"
    /\ nops[t] < MaxOps
    /\ \E r \in Requests :
         /\ req' = [req EXCEPT ![t] = r]
         /\ pc' = [pc EXCEPT ![t] = IF r.kind = "get" THEN "lookup" ELSE "forward"]
    /\ nops' = [nops EXCEPT ![t] = @ + 1]
    /\ UNCHANGED <<store, c, res, ret, gone>>

\* CHop.Get up to the forward: getEntry, then serve a hit with
\* version == Any or a cached version above the one asked for
Lookup(t) ==
    LET k == req[t].key
        x == c.ce[c.entries[k]]
        hit == c.entries[k] # NoEnt /\ x.version # 0
               /\ (req[t].ver = Any \/ x.version > req[t].ver)
    IN  /\ pc[t] = "lookup"
        /\ MutexFree
        /\ c' = GetEntry(c, k)
        /\ IF hit
           THEN /\ ret' = [ret EXCEPT ![t] = Reply(x.version, x.value, "ok")]
                /\ pc' = [pc EXCEPT ![t] = "idle"]
           ELSE /\ pc' = [pc EXCEPT ![t] = "forward"]
                /\ UNCHANGED ret
        /\ UNCHANGED <<store, req, res, nops, gone>>

\* The backend call returned `reply`; the call goes on to the cache step
\* `next` or, when that is "idle", returns the reply.
Returned(t, reply, next) ==
    /\ res' = [res EXCEPT ![t] = reply]
    /\ pc' = [pc EXCEPT ![t] = next]
    /\ ret' = IF next = "idle" THEN [ret EXCEPT ![t] = reply] ELSE ret
    /\ gone' = IF store'[req[t].key] = Backend!Absent THEN gone \cup {req[t].key} ELSE gone
    /\ UNCHANGED <<c, req, nops>>

Present(k) == store[k] # Backend!Absent
Bumped(k) == Backend!NextVersion(store[k].ver)

ForwardGet(t) ==
    LET k == req[t].key IN
    /\ req[t].kind = "get"
    /\ UNCHANGED store
    /\ Returned(t, Reply(store[k].ver, store[k].val, "ok"),
                IF store[k].ver # 0 THEN "update" ELSE "idle")

ForwardCreate(t) ==
    LET k == req[t].key IN
    /\ req[t].kind = "create"
    /\ IF ~Present(k)
       THEN /\ Backend!Create(k, req[t].val)
            /\ Returned(t, Reply(Lowest, Nil, "ok"), "update")
       ELSE /\ UNCHANGED store
            /\ Returned(t, Reply(0, Nil, "Eexist"), "idle")

ForwardSet(t) ==
    LET k == req[t].key IN
    /\ req[t].kind = "set"
    /\ IF Present(k)
       THEN /\ Backend!Update(k, req[t].val)
            /\ Returned(t, Reply(Bumped(k), Nil, "ok"), "update")
       ELSE /\ UNCHANGED store
            /\ Returned(t, Reply(0, Nil, "ok"), "idle")

\* SEntry.TestSet with oldversion Any: the value must match; a mismatch
\* returns version 0
ForwardTestSet(t) ==
    LET k == req[t].key IN
    /\ req[t].kind = "testset"
    /\ IF Present(k) /\ store[k].val = req[t].old
       THEN /\ Backend!Update(k, req[t].val)
            /\ Returned(t, Reply(Bumped(k), req[t].val, "ok"), "update")
       ELSE /\ UNCHANGED store
            /\ Returned(t, Reply(0, Nil, "ok"), "idle")

\* SEntry.Atomic: the op yields a new value `out`, or leaves the value as
\* it is; vals[0] is then the value unchanged ("unchanged") or, for a Replace
\* whose pattern and replacement have the same length, the substituted
\* value `ret`, which is returned but never stored (module AtomicOps)
ForwardAtomic(t) ==
    LET k == req[t].key
        out == req[t].out
    IN  /\ req[t].kind = "atomic"
        /\ \/ /\ Present(k) /\ out \in Vals
              /\ Backend!Update(k, out)
              /\ Returned(t, Reply(Bumped(k), out, "ok"), "update")
           \/ /\ Present(k) /\ out = "unchanged"
              /\ UNCHANGED store
              /\ \/ Returned(t, Reply(store[k].ver, store[k].val, "ok"), "update")
                 \/ Returned(t, Reply(store[k].ver, req[t].ret, "ok"), "update")
           \/ /\ ~Present(k)
              /\ UNCHANGED store
              /\ Returned(t, Reply(0, Nil, "ok"), "idle")

ForwardRemove(t) ==
    LET k == req[t].key IN
    /\ req[t].kind = "remove"
    /\ IF Present(k)
       THEN /\ Backend!Remove(k)
            /\ Returned(t, Reply(0, Nil, "ok"), "evict")
       ELSE /\ UNCHANGED store
            /\ Returned(t, Reply(0, Nil, "Enoent"), "idle")

Forward(t) ==
    /\ pc[t] = "forward"
    /\ \/ ForwardGet(t) \/ ForwardCreate(t) \/ ForwardSet(t)
       \/ ForwardTestSet(t) \/ ForwardAtomic(t) \/ ForwardRemove(t)

\* The value each method hands to updateEntry: Create and Set cache the
\* value they wrote, Get and TestSet the value returned, Atomic vals[0]
CachedValue(r, rs) == IF r.kind \in {"create", "set"} THEN r.val ELSE rs.val

\* updateEntry under c's mutex; if its eviction loop cannot end, the thread
\* spins there with the mutex held
Update(t) ==
    LET k == req[t].key
        v == CachedValue(req[t], res[t])
    IN  /\ pc[t] = "update"
        /\ MutexFree
        /\ IF UpdateSpins(c, k, v)
           THEN /\ c' = Collect(Evicted(c, k, v))
                /\ pc' = [pc EXCEPT ![t] = "spin"]
                /\ UNCHANGED ret
           ELSE /\ c' = Collect(UpdateEntry(c, k, res[t].ver, v))
                /\ pc' = [pc EXCEPT ![t] = "idle"]
                /\ ret' = [ret EXCEPT ![t] = res[t]]
        /\ UNCHANGED <<store, req, res, nops, gone>>

\* CHop.Remove after a successful backend Remove: removeEntry
Evict(t) ==
    /\ pc[t] = "evict"
    /\ MutexFree
    /\ c' = Collect(RemoveEntry(c, req[t].key))
    /\ pc' = [pc EXCEPT ![t] = "idle"]
    /\ ret' = [ret EXCEPT ![t] = res[t]]
    /\ UNCHANGED <<store, req, res, nops, gone>>

Run(t) == Lookup(t) \/ Forward(t) \/ Update(t) \/ Evict(t)

\* What a returning call shows its client (a ghost, not in the code)
Track(t) ==
    seen' = IF pc[t] # "idle" /\ pc'[t] = "idle" /\ ret'[t].ver # 0
            THEN [seen EXCEPT ![t][req[t].key] = ret'[t].ver]
            ELSE seen

Next == \E t \in Threads : (Call(t) \/ Run(t)) /\ Track(t)

\* Go schedules every runnable goroutine; clients need not call.
Spec == Init /\ [][Next]_vars /\ \A t \in Threads : WF_vars(Run(t) /\ Track(t))

-----------------------------------------------------------------------------
(* Properties *)

CachedBytes(cc) == MapThenSumSet(LAMBDA k : Size(k, cc.ce[cc.entries[k]].value),
                                 CachedKeys(cc))

\* Spec 5, invariant 7: after any sequence of operations the cached keys
\* and values fit in c.maxmem bytes and there are at most c.maxelem of them.
\* updateEntry relies on the LRU list that getEntry and removeLRU maintain.
CacheWithinCaps ==
    /\ CachedBytes(c) <= MaxMem
    /\ Cardinality(CachedKeys(c)) <= MaxElem

\* Spec 8, invariant 2: the versions one client observes for a key never
\* decrease (no wrap happens within the bounds, and keys that were removed
\* and created again are left out).  CHop.Get updates the cache after the
\* backend answered, outside c's mutex, so an older answer can land last.
ReadsNeverGoBack ==
    [][\A t \in Threads :
         pc[t] # "idle" /\ pc'[t] = "idle" /\ ret'[t].ver # 0 /\ req[t].key \notin gone'
            => ret'[t].ver >= seen[t][req[t].key]]_vars

====
