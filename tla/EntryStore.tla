---------------------------- MODULE EntryStore ----------------------------
(***************************************************************************)
(* The in-memory versioned store: KHop (src/khop.go), the map of entries   *)
(* with per-entry versions, placeholder entries and condition-variable     *)
(* waiting, and SHop (src/shop/shop.go), which stores client values in     *)
(* SEntry objects and announces key churn through the #/keys entry.        *)
(*                                                                         *)
(* Every Entry object is an element of Ents.  The map h.entries is         *)
(* `entries`; the fields Version, Value and ops of the objects are         *)
(* `version`, `value` and `ops`.  Each client call runs in a thread whose  *)
(* program counter is `pc`; one action is one region in which the code     *)
(* holds a lock (or one lock-free step), so every interleaving of the      *)
(* code's critical sections is an interleaving of the model.  An Entry no  *)
(* longer reachable from the map or a thread is reclaimed and reused, as   *)
(* Go's collector would.                                                   *)
(***************************************************************************)
EXTENDS Integers, FiniteSets

CONSTANTS
    Threads,      \* concurrent client calls (server goroutines)
    Keys,         \* client keys (none starts with "#/")
    Vals,         \* client values (non-nil byte strings, abstracted)
    Nil,          \* the nil []byte
    Ents,         \* Entry objects, a set of positive integers
    Highest,      \* hop.Highest, scaled down: the version after which it wraps
    MaxOps,       \* bound: calls each thread makes
    GetVersions,  \* version arguments of Get
    OldVersions   \* oldversion arguments of TestSet

\* hop.go version constants, scaled so that their order is kept
Any        == 0
Lowest     == 1
Newest     == Highest + 1
Removed    == Highest + 2
PastNewest == Highest + 3

NoEntry == 0                 \* a nil *Entry
OpsNil    == -1              \* Entry.ops == nil
OpsSEntry == -2              \* Entry.ops is the entry's *SEntry

ASSUME Highest >= 3 /\ Ents \subseteq Nat \ {0} /\ Nil \notin Vals

Versions == 0 .. PastNewest + 1

VARIABLES
    entries,      \* h.entries: key -> Entry (NoEntry if absent)
    version,      \* Entry.Version
    value,        \* Entry.Value
    ops,          \* Entry.ops: OpsNil, OpsSEntry, or the Entry a placeholder was replaced by
    keysVersion,  \* Version of the #/keys entry (s.keysEntry)
    pc,           \* thread program counter
    req,          \* the call a thread is executing
    e,            \* the thread's local variable e
    oe,           \* AddEntry's local oe: the placeholder being replaced
    oldver,       \* the thread's local variable oldver
    target,       \* KHop.Get's local `version` after the switch
    ret,          \* the result the call returns
    nops,         \* calls made by each thread
    panicked      \* a goroutine panicked: the server process is gone

vars == <<entries, version, value, ops, keysVersion, pc, req, e, oe, oldver,
          target, ret, nops, panicked>>

Kinds == {"create", "remove", "get", "set", "testset", "atomic"}

\* Atomic's effect on the value is decided by src/shop/shop.go's byte-level
\* operations (module AtomicOps); here it is one of: a new value, no match
\* (Remove/Replace that find nothing), or an error (bad parameters).
AtomicOutcomes == Vals \cup {"nomatch", "error"}

Requests ==
       [kind: {"create"}, key: Keys, val: Vals \cup {Nil}]
  \cup [kind: {"remove"}, key: Keys]
  \cup [kind: {"get"}, key: Keys, ver: GetVersions]
  \cup [kind: {"set"}, key: Keys, val: Vals]
  \cup [kind: {"testset"}, key: Keys, ver: OldVersions, old: Vals \cup {Nil}, val: Vals]
  \cup [kind: {"atomic"}, key: Keys, out: AtomicOutcomes]

Errors == {"ok", "Eperm", "Eexist", "Enoent", "Enil", "Einval"}
Result(v, x, err) == [ver |-> v, val |-> x, err |-> err]
NoResult == Result(0, Nil, "ok")
NoRequest == [kind |-> "none"]

PCs == {"idle", "c_add", "c_handoff", "c_bcast", "keys_mod", "r_map", "r_mark",
        "g_lookup", "g_insert", "g_lock", "g_wait", "g_relock", "g_sget",
        "w_lookup", "w_ops", "w_apply", "w_notify"}

TypeOK ==
    /\ entries \in [Keys -> Ents \cup {NoEntry}]
    /\ version \in [Ents -> Versions]
    /\ value \in [Ents -> Vals \cup {Nil}]
    /\ ops \in [Ents -> {OpsNil, OpsSEntry} \cup Ents]
    /\ keysVersion \in Versions
    /\ pc \in [Threads -> PCs]
    /\ req \in [Threads -> Requests \cup {NoRequest}]
    /\ e \in [Threads -> Ents \cup {NoEntry}]
    /\ oe \in [Threads -> Ents \cup {NoEntry}]
    /\ oldver \in [Threads -> Versions]
    /\ target \in [Threads -> Versions]
    /\ ret \in [Threads -> [ver: Versions, val: Vals \cup {Nil}, err: Errors]]
    /\ nops \in [Threads -> 0 .. MaxOps]
    /\ panicked \in BOOLEAN

-----------------------------------------------------------------------------
(* Helpers translated from src/khop.go *)

\* Entry.IncreaseVersion: Version++, wrapping to Lowest at Highest
IncreaseVersion(v) == IF v + 1 >= Highest THEN Lowest ELSE v + 1

\* An Entry object is live while the map, a thread or a placeholder's ops
\* refers to it; the others are free for `new(Entry)`.
Referenced ==
    LET direct == {entries[k] : k \in Keys} \cup {e[t] : t \in Threads}
                  \cup {oe[t] : t \in Threads}
    IN  (direct \cup {ops[x] : x \in direct \cap Ents}) \cap Ents
Free == Ents \ Referenced
NewEntry == CHOOSE x \in Free : \A y \in Free : x <= y

\* Entry.Broadcast: every thread in e.Wait() on x becomes runnable
Broadcast(x, p) ==
    [u \in Threads |-> IF p[u] = "g_wait" /\ e[u] = x THEN "g_relock" ELSE p[u]]

\* The switch on version at the top of KHop.Get
GetTarget(v, cur) ==
    CASE v = PastNewest        -> cur + 1
      [] v \in {Newest, Any}   -> cur
      [] OTHER                 -> v

\* KHop.Get's loop condition `ver != Removed && ver < version`
MustWait(cur, tgt) == cur # Removed /\ cur < tgt

Live == {entries[k] : k \in Keys} \ {NoEntry}

\* The call returns r; its locals go out of scope.
Return(t, r) ==
    /\ ret' = [ret EXCEPT ![t] = r]
    /\ pc' = [pc EXCEPT ![t] = "idle"]
    /\ e' = [e EXCEPT ![t] = NoEntry]

-----------------------------------------------------------------------------
Init ==
    /\ entries = [k \in Keys |-> NoEntry]
    /\ version = [x \in Ents |-> 0]
    /\ value = [x \in Ents |-> Nil]
    /\ ops = [x \in Ents |-> OpsNil]
    /\ keysVersion = Lowest
    /\ pc = [t \in Threads |-> "idle"]
    /\ req = [t \in Threads |-> NoRequest]
    /\ e = [t \in Threads |-> NoEntry]
    /\ oe = [t \in Threads |-> NoEntry]
    /\ oldver = [t \in Threads |-> 0]
    /\ target = [t \in Threads |-> 0]
    /\ ret = [t \in Threads |-> NoResult]
    /\ nops = [t \in Threads |-> 0]
    /\ panicked = FALSE

\* A thread issues its next call.
Call(t) ==
    /\ pc[t] = "idle" /\ nops[t] < MaxOps
    /\ \E r \in Requests :
        /\ req' = [req EXCEPT ![t] = r]
        /\ pc' = [pc EXCEPT ![t] =
               CASE r.kind = "create" -> "c_add"
                 [] r.kind = "remove" -> "r_map"
                 [] r.kind = "get"    -> "g_lookup"
                 [] OTHER             -> "w_lookup"]
    /\ nops' = [nops EXCEPT ![t] = @ + 1]
    /\ ret' = [ret EXCEPT ![t] = NoResult]
    /\ UNCHANGED <<entries, version, value, ops, keysVersion, e, oe, oldver,
                   target, panicked>>

-----------------------------------------------------------------------------
(* SHop.Create and KHop.AddEntry *)

\* A slip the refinement must catch: AddEntry without the Version test
ReplaceableAlways(o) == TRUE

\* AddEntry, under h.Lock: `!ok || oe.Version == 0`, a missing key or a
\* placeholder, is replaced by the new Entry.
Replaceable(o) == o = NoEntry \/ version[o] = 0

\* SHop.Create's checks, then AddEntry's region under h.Lock: the new Entry
\* replaces a missing key or a placeholder (Version 0); a real entry makes
\* the call fail with Eexist.
CreateAdd(t) ==
    LET r == req[t]  k == r.key  x == NewEntry  o == entries[k] IN
    /\ pc[t] = "c_add"
    /\ IF r.val = Nil
       THEN /\ Return(t, Result(0, Nil, "Enil"))
            /\ UNCHANGED <<entries, version, value, ops, oe>>
       ELSE IF ~Replaceable(o)
       THEN /\ Return(t, Result(0, Nil, "Eexist"))
            /\ UNCHANGED <<entries, version, value, ops, oe>>
       ELSE /\ Free # {}
            /\ entries' = [entries EXCEPT ![k] = x]
            /\ version' = [version EXCEPT ![x] = Lowest]
            /\ value' = [value EXCEPT ![x] = r.val]
            /\ ops' = [ops EXCEPT ![x] = OpsSEntry]
            /\ e' = [e EXCEPT ![t] = x]
            /\ oe' = [oe EXCEPT ![t] = o]
            /\ ret' = [ret EXCEPT ![t] = Result(Lowest, Nil, "ok")]
            /\ pc' = [pc EXCEPT ![t] = IF o = NoEntry THEN "keys_mod" ELSE "c_handoff"]
    /\ UNCHANGED <<keysVersion, req, oldver, target, nops, panicked>>

\* oe.Lock(); oe.ops = e; oe.Unlock(): the placeholder now leads to the entry
CreateHandoff(t) ==
    /\ pc[t] = "c_handoff"
    /\ ops' = [ops EXCEPT ![oe[t]] = e[t]]
    /\ pc' = [pc EXCEPT ![t] = "c_bcast"]
    /\ UNCHANGED <<entries, version, value, keysVersion, req, e, oe, oldver,
                   target, ret, nops, panicked>>

\* oe.Broadcast(): the Gets waiting for the key to be created wake up
CreateBroadcast(t) ==
    /\ pc[t] = "c_bcast"
    /\ pc' = [Broadcast(oe[t], pc) EXCEPT ![t] = "keys_mod"]
    /\ oe' = [oe EXCEPT ![t] = NoEntry]
    /\ UNCHANGED <<entries, version, value, ops, keysVersion, req, e, oldver,
                   target, ret, nops, panicked>>

\* SHop.keysModified: the #/keys (and, alike, #/keynum) entry gets a new
\* version; then the call returns the result decided before.
KeysModified(t) ==
    /\ pc[t] = "keys_mod"
    /\ keysVersion' = IncreaseVersion(keysVersion)
    /\ Return(t, ret[t])
    /\ UNCHANGED <<entries, version, value, ops, req, oe, oldver, target, nops,
                   panicked>>

-----------------------------------------------------------------------------
(* SHop.Remove and KHop.RemoveEntry *)

\* SHop.Remove: `if err != nil { s.keysModified() }`
RemoveAnnounces(err) == err # "ok"

\* RemoveEntry under h.Lock: a real entry leaves the map, a placeholder
\* stays.  SHop.Remove runs keysModified when RemoveEntry reports an error.
RemoveMap(t) ==
    LET k == req[t].key  x == entries[k] IN
    /\ pc[t] = "r_map"
    /\ IF x = NoEntry
       THEN /\ ret' = [ret EXCEPT ![t] = Result(0, Nil, "Enoent")]
            /\ pc' = [pc EXCEPT ![t] = IF RemoveAnnounces("Enoent") THEN "keys_mod" ELSE "idle"]
            /\ UNCHANGED <<entries, e>>
       ELSE /\ entries' = IF version[x] # 0 THEN [entries EXCEPT ![k] = NoEntry]
                                            ELSE entries
            /\ e' = [e EXCEPT ![t] = x]
            /\ pc' = [pc EXCEPT ![t] = "r_mark"]
            /\ UNCHANGED ret
    /\ UNCHANGED <<version, value, ops, keysVersion, req, oe, oldver, target,
                   nops, panicked>>

\* RemoveEntry under e.Lock: a real entry is marked Removed, loses its ops
\* and wakes its waiters; a placeholder makes the call fail with Enoent.
RemoveMark(t) ==
    LET x == e[t] IN
    /\ pc[t] = "r_mark"
    /\ IF version[x] # 0
       THEN /\ version' = [version EXCEPT ![x] = Removed]
            /\ ops' = [ops EXCEPT ![x] = OpsNil]
            /\ ret' = [ret EXCEPT ![t] = Result(0, Nil, "ok")]
            /\ pc' = [Broadcast(x, pc) EXCEPT ![t] =
                         IF RemoveAnnounces("ok") THEN "keys_mod" ELSE "idle"]
            /\ e' = [e EXCEPT ![t] = NoEntry]
       ELSE /\ ret' = [ret EXCEPT ![t] = Result(0, Nil, "Enoent")]
            /\ pc' = [pc EXCEPT ![t] = IF RemoveAnnounces("Enoent") THEN "keys_mod" ELSE "idle"]
            /\ e' = [e EXCEPT ![t] = NoEntry]
            /\ UNCHANGED <<version, ops>>
    /\ UNCHANGED <<entries, value, keysVersion, req, oe, oldver, target, nops,
                   panicked>>

-----------------------------------------------------------------------------
(* KHop.Get *)

\* What Get does once the wait loop has ended, still under e.RLock: read
\* Version, Value and ops, release the lock, and either report a removed
\* entry as absent or hand over to the entry's GetterHop (SEntry.Get).
GetExit(t, x) ==
    IF version[x] = Removed
    THEN Return(t, NoResult)
    ELSE IF ops[x] = OpsSEntry
    THEN /\ pc' = [pc EXCEPT ![t] = "g_sget"]
         /\ e' = [e EXCEPT ![t] = x]
         /\ UNCHANGED ret
    ELSE IF ops[x] = OpsNil
    THEN Return(t, Result(version[x], value[x], "ok"))
    ELSE Return(t, Result(0, Nil, "Eperm"))

\* h.RLock(); e := h.entries[key]: a missing key with Any or Newest returns
\* at once, with another version it needs a placeholder.
GetLookup(t) ==
    LET r == req[t]  x == entries[r.key] IN
    /\ pc[t] = "g_lookup"
    /\ IF x = NoEntry
       THEN IF r.ver \in {Any, Newest}
            THEN Return(t, NoResult)
            ELSE /\ pc' = [pc EXCEPT ![t] = "g_insert"]
                 /\ UNCHANGED <<ret, e>>
       ELSE /\ e' = [e EXCEPT ![t] = x]
            /\ pc' = [pc EXCEPT ![t] = "g_lock"]
            /\ UNCHANGED ret
    /\ UNCHANGED <<entries, version, value, ops, keysVersion, req, oe, oldver,
                   target, nops, panicked>>

\* Under h.Lock: insert a placeholder Entry (Version 0, ops nil) to wait
\* on, unless the key appeared meanwhile (goto again).
GetInsert(t) ==
    LET k == req[t].key  x == NewEntry IN
    /\ pc[t] = "g_insert"
    /\ IF entries[k] # NoEntry
       THEN /\ pc' = [pc EXCEPT ![t] = "g_lookup"]
            /\ UNCHANGED <<entries, version, value, ops, e>>
       ELSE /\ Free # {}
            /\ entries' = [entries EXCEPT ![k] = x]
            /\ version' = [version EXCEPT ![x] = 0]
            /\ value' = [value EXCEPT ![x] = Nil]
            /\ ops' = [ops EXCEPT ![x] = OpsNil]
            /\ e' = [e EXCEPT ![t] = x]
            /\ pc' = [pc EXCEPT ![t] = "g_lock"]
    /\ UNCHANGED <<keysVersion, req, oe, oldver, target, ret, nops,
                   panicked>>

\* e.RLock(), moving from a replaced placeholder to its entry; compute the
\* version to wait for; then e.Wait() (g_wait) or leave the loop.
GetLock(t) ==
    LET x0 == e[t]
        x  == IF version[x0] = 0 /\ ops[x0] \in Ents THEN ops[x0] ELSE x0
        tg == GetTarget(req[t].ver, version[x])
    IN
    /\ pc[t] = "g_lock"
    /\ oldver' = [oldver EXCEPT ![t] = version[x]]
    /\ target' = [target EXCEPT ![t] = tg]
    /\ IF MustWait(version[x], tg)
       THEN /\ e' = [e EXCEPT ![t] = x]
            /\ pc' = [pc EXCEPT ![t] = "g_wait"]
            /\ UNCHANGED ret
       ELSE GetExit(t, x)
    /\ UNCHANGED <<entries, version, value, ops, keysVersion, req, oe, nops,
                   panicked>>

\* Woken from e.Wait(), e.RLock() is held again.  If the first version seen
\* was 0 the code takes e.ops.(*Entry); that assertion panics unless e is a
\* placeholder that was replaced.  Then re-test the loop condition.
GetRelock(t) ==
    LET x0 == e[t]
        x  == IF oldver[t] = 0 THEN ops[x0] ELSE x0
    IN
    /\ pc[t] = "g_relock"
    /\ IF oldver[t] = 0 /\ ops[x0] \notin Ents
       THEN /\ panicked' = TRUE
            /\ UNCHANGED <<pc, e, ret>>
       ELSE /\ IF MustWait(version[x], target[t])
               THEN /\ pc' = [pc EXCEPT ![t] = "g_wait"]
                    /\ e' = [e EXCEPT ![t] = x]
                    /\ UNCHANGED ret
               ELSE GetExit(t, x)
            /\ UNCHANGED panicked
    /\ UNCHANGED <<entries, version, value, ops, keysVersion, req, oe, oldver,
                   target, nops>>

\* SEntry.Get: under e.RLock, return the entry's current Version and Value
SEntryGet(t) ==
    LET x == e[t] IN
    /\ pc[t] = "g_sget"
    /\ Return(t, Result(version[x], value[x], "ok"))
    /\ UNCHANGED <<entries, version, value, ops, keysVersion, req, oe, oldver,
                   target, nops, panicked>>

-----------------------------------------------------------------------------
(* KHop.Set, KHop.TestSet and KHop.Atomic with SEntry's operations *)

\* Under h.RLock: a missing key or a placeholder returns (0, nil, nil).
WriteLookup(t) ==
    LET x == entries[req[t].key] IN
    /\ pc[t] = "w_lookup"
    /\ IF x = NoEntry \/ version[x] = 0
       THEN Return(t, NoResult)
       ELSE /\ e' = [e EXCEPT ![t] = x]
            /\ pc' = [pc EXCEPT ![t] = "w_ops"]
            /\ UNCHANGED ret
    /\ UNCHANGED <<entries, version, value, ops, keysVersion, req, oe, oldver,
                   target, nops, panicked>>

\* Under e.RLock: remember oldver and take e.ops as a SetterHop; the ops of
\* a removed entry are nil and the call fails with Eperm.
WriteOps(t) ==
    LET x == e[t] IN
    /\ pc[t] = "w_ops"
    /\ oldver' = [oldver EXCEPT ![t] = version[x]]
    /\ IF ops[x] # OpsSEntry
       THEN Return(t, Result(0, Nil, "Eperm"))
       ELSE /\ pc' = [pc EXCEPT ![t] = "w_apply"]
            /\ UNCHANGED <<ret, e>>
    /\ UNCHANGED <<entries, version, value, ops, keysVersion, req, oe, target,
                   nops, panicked>>

\* SEntry.TestSet under e.Lock (SEntry.Set is TestSet(key, Any, nil, value)):
\* an invalid oldversion is an error; a version or value mismatch returns
\* (0, nil); otherwise the version is increased and the value stored.
TestSetResult(r, x) ==
    LET ov  == IF r.kind = "set" \/ r.ver = Any THEN version[x] ELSE r.ver
        old == IF r.kind = "set" THEN Nil ELSE r.old
    IN  CASE r.kind = "testset" /\ r.ver # Any /\ (r.ver < Lowest \/ r.ver > Highest)
                 -> Result(0, Nil, "Einval")
          [] ov # version[x] \/ (old # Nil /\ old # value[x])
                 -> Result(0, Nil, "ok")
          [] OTHER -> Result(IncreaseVersion(version[x]), r.val, "ok")

\* A slip the type invariant must catch: a no-match returning the operation
\* instead of the entry's value
AtomicResultRaw(r, x) ==
    CASE r.out = "error"   -> Result(0, Nil, "Einval")
      [] r.out = "nomatch" -> Result(version[x], r.out, "ok")
      [] OTHER             -> Result(IncreaseVersion(version[x]), r.out, "ok")

\* SEntry.Atomic under e.Lock: an error returns version 0; no match leaves
\* version and value alone; a new value increases the version.
AtomicResult(r, x) ==
    CASE r.out = "error"   -> Result(0, Nil, "Einval")
      [] r.out = "nomatch" -> Result(version[x], value[x], "ok")
      [] OTHER             -> Result(IncreaseVersion(version[x]), r.out, "ok")

\* The SEntry call: the entry changes iff the result carries a new version.
WriteApply(t) ==
    LET r == req[t]  x == e[t]
        res == IF r.kind = "atomic" THEN AtomicResult(r, x) ELSE TestSetResult(r, x)
        changed == res.err = "ok" /\ res.ver # 0 /\ res.ver # version[x]
    IN
    /\ pc[t] = "w_apply"
    /\ version' = IF changed THEN [version EXCEPT ![x] = res.ver] ELSE version
    /\ value' = IF changed THEN [value EXCEPT ![x] = res.val] ELSE value
    /\ IF res.err # "ok"
       THEN Return(t, res)
       ELSE /\ ret' = [ret EXCEPT ![t] = res]
            /\ pc' = [pc EXCEPT ![t] = "w_notify"]
            /\ UNCHANGED e
    /\ UNCHANGED <<entries, ops, keysVersion, req, oe, oldver, target, nops,
                   panicked>>

\* Back in KHop: `if err == nil && ver != oldver { e.Modified() }`
WriteNotify(t) ==
    /\ pc[t] = "w_notify"
    /\ pc' = [IF ret[t].ver # oldver[t] THEN Broadcast(e[t], pc) ELSE pc
               EXCEPT ![t] = "idle"]
    /\ e' = [e EXCEPT ![t] = NoEntry]
    /\ UNCHANGED <<entries, version, value, ops, keysVersion, req, oe, oldver,
                   target, ret, nops, panicked>>

-----------------------------------------------------------------------------
\* The steps of a call in progress
Run(t) ==
    \/ CreateAdd(t) \/ CreateHandoff(t) \/ CreateBroadcast(t) \/ KeysModified(t)
    \/ RemoveMap(t) \/ RemoveMark(t)
    \/ GetLookup(t) \/ GetInsert(t) \/ GetLock(t) \/ GetRelock(t) \/ SEntryGet(t)
    \/ WriteLookup(t) \/ WriteOps(t) \/ WriteApply(t) \/ WriteNotify(t)

\* A panicking goroutine takes the whole server process down.
Next == ~panicked /\ \E t \in Threads : Call(t) \/ Run(t)

\* Go eventually schedules every runnable goroutine; clients are not
\* obliged to make calls.
Fairness == \A t \in Threads : WF_vars(~panicked /\ Run(t))

Spec == Init /\ [][Next]_vars /\ Fairness

-----------------------------------------------------------------------------
(* Properties *)

\* The store as its clients see it: the map's real entries
AbsKV ==
    [k \in Keys |-> IF entries[k] = NoEntry \/ version[entries[k]] = 0
                    THEN [ver |-> Any, val |-> Nil]
                    ELSE [ver |-> version[entries[k]], val |-> value[entries[k]]]]

KV == INSTANCE HopKV WITH kv <- AbsKV

\* Every step of every interleaving of Create, Remove, Get, Set, TestSet and
\* Atomic changes the client-visible map as one atomic operation of the Hop
\* interface would: AddEntry never replaces a real entry, RemoveEntry drops
\* only real ones, and each SEntry update advances the version by one.
StoreRefinement == KV!Spec

\* KHop.Get never panics: its `e.ops.(*Entry)` assertion after e.Wait()
\* only meets replaced placeholders.
NoPanic == ~panicked

\* An entry that RemoveEntry marked Removed stays Removed while anyone can
\* still reach it: a Set, TestSet or Atomic that looked the entry up before
\* the removal must not bring it back (SEntry's update of a Removed entry).
RemovedIsFinal ==
    [][\A x \in Referenced : version[x] = Removed => version'[x] = Removed]_vars

\* KHop.Get reports a removed entry as absent: no Get returns the internal
\* Removed tombstone as a version.
GetNeverReturnsRemoved ==
    \A t \in Threads : pc[t] = "idle" /\ req[t].kind = "get" => ret[t].ver # Removed

=============================================================================
