------------------------------ MODULE KCStore ------------------------------
(***************************************************************************)
(* The Kyoto Cabinet store, KCHop (src/kchop/kchop.go).  The cabinet, `db`, *)
(* keeps for every key an 8-byte version header and the value.  kcdbadd,   *)
(* kcdbremove and kcdbget are atomic, and so is TestSet's compare-and-set:  *)
(* the C visitor tsetvisit runs under the cabinet's record lock            *)
(* (kcdbaccept).  Beside the cabinet, h.entries keeps entry objects for    *)
(* the keys a Get waits on, and for "#/keys", whose entry lives for good   *)
(* and whose version keysModified bumps after every write.  An entry has   *)
(* a version, a value, maxver (the highest version a waiter wants) and a   *)
(* RWMutex whose read side is its condition variable's lock.               *)
(*                                                                         *)
(* Each call runs in a thread whose program counter is `kpc`; one action   *)
(* is one region under h's lock, one cabinet call, or one step on an       *)
(* entry's lock or condition variable.  The "#/keynum" entry is bumped     *)
(* with "#/keys" in keysModified and behaves the same; it is left out.     *)
(***************************************************************************)
EXTENDS Integers, FiniteSets

CONSTANTS
    Threads,      \* concurrent client calls
    Keys,         \* client keys (none starts with "#/")
    Vals,         \* client values (non-nil byte strings, abstracted)
    Nil,          \* the nil []byte
    KEnts,        \* entry objects for client keys, positive integers
    Highest,      \* hop.Highest, scaled down
    MaxOps,       \* bound: calls each thread makes
    KCCalls       \* the calls clients make

\* hop.go's version constants, scaled so that their order is kept
Any        == 0
Lowest     == 1
Newest     == Highest + 1
Removed    == Highest + 2
PastNewest == Highest + 3
Versions   == 0 .. PastNewest + 1

KeysKey == "#/keys"           \* the key whose value lists the keys
KeysEnt == 0                  \* h.keysEntry
NoEntry == -1                 \* a nil *entry
AllEnts == KEnts \cup {KeysEnt}

ASSUME Highest >= 3 /\ KEnts \subseteq Nat \ {0} /\ Nil \notin Vals

\* What a cabinet record holds; kcdbget finds nothing for a missing key
Absent == [ver |-> 0, val |-> Nil]
DbVals == {Absent} \cup [ver : Lowest .. Highest, val : Vals]

\* tsetvisit's fail path copies the record's first vsiz-8 bytes, the
\* version header included, as the current value
Header(v) == [hdr |-> v]

Requests ==
       [kind : {"create"}, key : Keys \cup {KeysKey}, val : Vals \cup {Nil}]
  \cup [kind : {"remove"}, key : Keys]
  \cup [kind : {"get"}, key : Keys \cup {KeysKey}, ver : Versions]
  \cup [kind : {"set"}, key : Keys, val : Vals \cup {Nil}]
  \cup [kind : {"testset"}, key : Keys, ver : Versions, old : Vals \cup {Nil}, val : Vals \cup {Nil}]
  \cup [kind : {"atomic"}, key : Keys]

ASSUME KCCalls \subseteq Requests

KCErrors == {"ok", "Eperm", "Enil", "Enoent", "Edup", "Enorec", "Enotimpl"}
KCRets == [ver : Versions, val : Vals \cup {Nil} \cup {Header(v) : v \in Versions},
           err : KCErrors]
Result(v, x, err) == [ver |-> v, val |-> x, err |-> err]
NoResult == Result(0, Nil, "ok")
NoRequest == [kind |-> "none"]

VARIABLES
    kdb,         \* the cabinet: key -> Absent or [ver, val]
    kentries,    \* h.entries: key -> entry (NoEntry if absent)
    kversion,    \* entry.version
    kvalue,      \* entry.value
    kmaxver,     \* entry.maxver
    kwriter,     \* the thread holding the entry's write lock ({} if none)
    kreaders,    \* the threads holding the entry's read lock
    kpc,         \* thread program counter
    kreq,        \* the call a thread is executing
    ke,          \* the thread's local e
    ktarget,     \* Get's local `version` after the PastNewest adjustment
    kbump,       \* TestSet: whether `e.version < ver` held under e.Lock
    kret,        \* the result the call returns
    knops,       \* calls made by each thread
    kinstalled   \* history: every <<key, version, value>> the cabinet has held

kcvars == <<kdb, kentries, kversion, kvalue, kmaxver, kwriter, kreaders, kpc,
            kreq, ke, ktarget, kbump, kret, knops, kinstalled>>

KPCs == {"idle", "c_add", "c_map", "c_bcast", "r_del", "r_map", "r_wake",
         "g_read", "g_lock", "g_rlock", "g_enq", "g_wait", "g_relock", "g_del",
         "ts_visit", "ts_map", "ts_lock", "ts_set", "keys_mod"}

KCTypeOK ==
    /\ kdb \in [Keys -> DbVals]
    /\ kentries \in [Keys \cup {KeysKey} -> AllEnts \cup {NoEntry}]
    /\ kentries[KeysKey] = KeysEnt
    /\ kversion \in [AllEnts -> Versions]
    /\ kvalue \in [AllEnts -> Vals \cup {Nil}]
    /\ kmaxver \in [AllEnts -> Versions]
    /\ kwriter \in [AllEnts -> SUBSET Threads]
    /\ \A x \in AllEnts : Cardinality(kwriter[x]) <= 1
                          /\ (kwriter[x] # {} => kreaders[x] = {})
    /\ kreaders \in [AllEnts -> SUBSET Threads]
    /\ kpc \in [Threads -> KPCs]
    /\ kreq \in [Threads -> Requests \cup {NoRequest}]
    /\ ke \in [Threads -> AllEnts \cup {NoEntry}]
    /\ ktarget \in [Threads -> Versions]
    /\ kbump \in [Threads -> BOOLEAN]
    /\ kret \in [Threads -> KCRets]
    /\ knops \in [Threads -> 0 .. MaxOps]
    /\ kinstalled \subseteq Keys \X (Lowest .. Highest) \X Vals

-----------------------------------------------------------------------------
(* Helpers translated from src/kchop/kchop.go *)

\* entry.IncreaseVersion: version++, wrapping to Lowest at Highest
IncreaseVersion(v) == IF v + 1 >= Highest THEN Lowest ELSE v + 1

\* tsetvisit's ver++, which wraps to 1 only past 0x7FFFFFFFFFFFFFFE
VisitIncrease(v) == IF v + 1 > Highest THEN 1 ELSE v + 1

\* An entry is live while the map or a thread refers to it; the others are
\* free for new(entry): version 0, a nil value, maxver 0.
KReferenced == ({kentries[k] : k \in Keys} \cup {ke[t] : t \in Threads}) \cap KEnts
KFree == KEnts \ KReferenced
KNewEntry == CHOOSE x \in KFree : \A y \in KFree : x <= y

\* e.Broadcast(): every thread in e.Wait() on x becomes runnable
KBroadcast(x, p) ==
    [u \in Threads |-> IF p[u] = "g_wait" /\ ke[u] = x THEN "g_relock" ELSE p[u]]

\* The call returns r, the other threads' counters being p
KReturnWith(t, r, p) ==
    /\ kret' = [kret EXCEPT ![t] = r]
    /\ kpc' = [p EXCEPT ![t] = "idle"]
    /\ ke' = [ke EXCEPT ![t] = NoEntry]

KReturn(t, r) == KReturnWith(t, r, kpc)

\* A cabinet write of a key, and its record in the history
KPut(k, d) ==
    /\ kdb' = [kdb EXCEPT ![k] = d]
    /\ kinstalled' = kinstalled \cup (IF d = Absent THEN {} ELSE {<<k, d.ver, d.val>>})

\* getvalue: "#/keys" gives keysEntry.version (read without its lock) and
\* the list of keys, which no property looks at; a client key gives what
\* kcdbget finds, version 0 and nil for a missing one
GetValue(k) ==
    IF k = KeysKey THEN [ver |-> kversion[KeysEnt], val |-> Nil] ELSE kdb[k]

-----------------------------------------------------------------------------
\* NewKCHop: an empty cabinet; h.entries holds only keysEntry
KCInit ==
    /\ kdb = [k \in Keys |-> Absent]
    /\ kentries = [k \in Keys \cup {KeysKey} |-> IF k = KeysKey THEN KeysEnt ELSE NoEntry]
    /\ kversion = [x \in AllEnts |-> 0]
    /\ kvalue = [x \in AllEnts |-> Nil]
    /\ kmaxver = [x \in AllEnts |-> 0]
    /\ kwriter = [x \in AllEnts |-> {}]
    /\ kreaders = [x \in AllEnts |-> {}]
    /\ kpc = [t \in Threads |-> "idle"]
    /\ kreq = [t \in Threads |-> NoRequest]
    /\ ke = [t \in Threads |-> NoEntry]
    /\ ktarget = [t \in Threads |-> 0]
    /\ kbump = [t \in Threads |-> FALSE]
    /\ kret = [t \in Threads |-> NoResult]
    /\ knops = [t \in Threads |-> 0]
    /\ kinstalled = {}

\* A thread issues its next call; KCHop.Atomic fails at once.
KCCall(t) ==
    /\ kpc[t] = "idle" /\ knops[t] < MaxOps
    /\ \E r \in KCCalls :
        /\ kreq' = [kreq EXCEPT ![t] = r]
        /\ kpc' = [kpc EXCEPT ![t] =
               CASE r.kind = "create" -> "c_add"
                 [] r.kind = "remove" -> "r_del"
                 [] r.kind = "get"    -> "g_read"
                 [] r.kind = "atomic" -> "idle"
                 [] OTHER             -> "ts_visit"]
        /\ kret' = [kret EXCEPT ![t] =
               IF r.kind = "atomic" THEN Result(0, Nil, "Enotimpl") ELSE NoResult]
    /\ knops' = [knops EXCEPT ![t] = @ + 1]
    /\ UNCHANGED <<kdb, kentries, kversion, kvalue, kmaxver, kwriter, kreaders,
                   ke, ktarget, kbump, kinstalled>>

\* keysModified: keysEntry.Lock(), IncreaseVersion, Unlock, Broadcast (the
\* same again for keynumEntry); then the write returns what it decided
KeysModified(t) ==
    /\ kpc[t] = "keys_mod"
    /\ kwriter[KeysEnt] = {} /\ kreaders[KeysEnt] = {}
    /\ kversion' = [kversion EXCEPT ![KeysEnt] = IncreaseVersion(@)]
    /\ KReturnWith(t, kret[t], KBroadcast(KeysEnt, kpc))
    /\ UNCHANGED <<kdb, kentries, kvalue, kmaxver, kwriter, kreaders, kreq,
                   ktarget, kbump, knops, kinstalled>>

-----------------------------------------------------------------------------
(* KCHop.Create *)

\* The "#/" and nil-value checks, then kcdbadd of version Lowest and the
\* value, which fails when the key has a record
KCCreateAdd(t) ==
    LET r == kreq[t] IN
    /\ kpc[t] = "c_add"
    /\ CASE r.key = KeysKey -> KReturn(t, Result(0, Nil, "Eperm")) /\ UNCHANGED <<kdb, kinstalled>>
         [] r.val = Nil -> KReturn(t, Result(0, Nil, "Enil")) /\ UNCHANGED <<kdb, kinstalled>>
         [] kdb[r.key] # Absent -> KReturn(t, Result(0, Nil, "Edup")) /\ UNCHANGED <<kdb, kinstalled>>
         [] OTHER -> /\ KPut(r.key, [ver |-> Lowest, val |-> r.val])
                     /\ kret' = [kret EXCEPT ![t] = Result(Lowest, Nil, "ok")]
                     /\ kpc' = [kpc EXCEPT ![t] = "c_map"]
                     /\ UNCHANGED ke
    /\ UNCHANGED <<kentries, kversion, kvalue, kmaxver, kwriter, kreaders, kreq,
                   ktarget, kbump, knops>>

\* Under h.Lock: the key's entry, if any, leaves the map; its version is
\* left as it was
KCCreateMap(t) ==
    LET o == kentries[kreq[t].key] IN
    /\ kpc[t] = "c_map"
    /\ kentries' = [kentries EXCEPT ![kreq[t].key] = NoEntry]
    /\ ke' = [ke EXCEPT ![t] = o]
    /\ kpc' = [kpc EXCEPT ![t] = IF o = NoEntry THEN "keys_mod" ELSE "c_bcast"]
    /\ UNCHANGED <<kdb, kversion, kvalue, kmaxver, kwriter, kreaders, kreq,
                   ktarget, kbump, kret, knops, kinstalled>>

\* e.Broadcast(), after h.Unlock: the waiters re-check the entry's version
KCCreateBcast(t) ==
    /\ kpc[t] = "c_bcast"
    /\ kpc' = [KBroadcast(ke[t], kpc) EXCEPT ![t] = "keys_mod"]
    /\ UNCHANGED <<kdb, kentries, kversion, kvalue, kmaxver, kwriter, kreaders,
                   kreq, ke, ktarget, kbump, kret, knops, kinstalled>>

-----------------------------------------------------------------------------
(* KCHop.Remove *)

\* kcdbremove, which fails for a missing key
KCRemoveDel(t) ==
    LET k == kreq[t].key IN
    /\ kpc[t] = "r_del"
    /\ IF kdb[k] = Absent
       THEN /\ KReturn(t, Result(0, Nil, "Enorec"))
            /\ UNCHANGED <<kdb, kinstalled>>
       ELSE /\ KPut(k, Absent)
            /\ kpc' = [kpc EXCEPT ![t] = "r_map"]
            /\ UNCHANGED <<kret, ke>>
    /\ UNCHANGED <<kentries, kversion, kvalue, kmaxver, kwriter, kreaders, kreq,
                   ktarget, kbump, knops>>

\* Under h.Lock: the key's entry, if any, leaves the map
KCRemoveMap(t) ==
    LET o == kentries[kreq[t].key] IN
    /\ kpc[t] = "r_map"
    /\ kentries' = [kentries EXCEPT ![kreq[t].key] = NoEntry]
    /\ ke' = [ke EXCEPT ![t] = o]
    /\ kpc' = [kpc EXCEPT ![t] = IF o = NoEntry THEN "keys_mod" ELSE "r_wake"]
    /\ UNCHANGED <<kdb, kversion, kvalue, kmaxver, kwriter, kreaders, kreq,
                   ktarget, kbump, kret, knops, kinstalled>>

\* e.version = hop.Removed, written without the entry's lock, and
\* e.Broadcast()
KCRemoveWake(t) ==
    /\ kpc[t] = "r_wake"
    /\ kversion' = [kversion EXCEPT ![ke[t]] = Removed]
    /\ kpc' = [KBroadcast(ke[t], kpc) EXCEPT ![t] = "keys_mod"]
    /\ UNCHANGED <<kdb, kentries, kvalue, kmaxver, kwriter, kreaders, kreq, ke,
                   ktarget, kbump, kret, knops, kinstalled>>

-----------------------------------------------------------------------------
(* KCHop.Get *)

\* KCHop.Get's loop condition `ver != hop.Removed && ver < version`
MustWait(cur, tgt) == cur # Removed /\ cur < tgt

\* getvalue, then the early return: Any and Newest, and a version the key
\* already has, are answered at once (a missing key as version 0 and nil);
\* PastNewest becomes the version after the current one.
KCGetRead(t) ==
    LET r == kreq[t]  d == GetValue(r.key) IN
    /\ kpc[t] = "g_read"
    /\ ktarget' = [ktarget EXCEPT ![t] = IF r.ver = PastNewest THEN d.ver + 1 ELSE r.ver]
    /\ IF r.ver \in {Any, Newest} \/ r.ver <= d.ver
       THEN KReturn(t, Result(d.ver, d.val, "ok"))
       ELSE /\ kpc' = [kpc EXCEPT ![t] = "g_lock"]
            /\ UNCHANGED <<kret, ke>>
    /\ UNCHANGED <<kdb, kentries, kversion, kvalue, kmaxver, kwriter, kreaders,
                   kreq, kbump, knops, kinstalled>>

\* Under h.Lock: the key's entry, or a new one with maxver = version and
\* what getvalue reads now, put in the map; an existing entry's maxver is
\* raised to the version waited for.
KCGetLock(t) ==
    LET k == kreq[t].key  o == kentries[k]  v == ktarget[t] IN
    /\ kpc[t] = "g_lock"
    /\ o = NoEntry => KFree # {}
    /\ \E x \in {IF o = NoEntry THEN KNewEntry ELSE o} :
        /\ IF o = NoEntry
           THEN /\ kentries' = [kentries EXCEPT ![k] = x]
                /\ kmaxver' = [kmaxver EXCEPT ![x] = v]
                /\ kversion' = [kversion EXCEPT ![x] = GetValue(k).ver]
                /\ kvalue' = [kvalue EXCEPT ![x] = GetValue(k).val]
           ELSE /\ kmaxver' = [kmaxver EXCEPT ![x] = IF @ < v THEN v ELSE @]
                /\ UNCHANGED <<kentries, kversion, kvalue>>
        /\ ke' = [ke EXCEPT ![t] = x]
    /\ kpc' = [kpc EXCEPT ![t] = "g_rlock"]
    /\ UNCHANGED <<kdb, kwriter, kreaders, kreq, ktarget, kbump, kret, knops,
                   kinstalled>>

\* A slip KCGetReturnsInstalled must catch: the wait as an `if`, the version
\* tested once before e.Wait() and not again on waking
KCGetRLockOnce(t) ==
    LET x == ke[t]  cur == kversion[x] IN
    /\ kpc[t] \in {"g_rlock", "g_relock"}
    /\ kwriter[x] = {}
    /\ IF kpc[t] = "g_rlock" /\ MustWait(cur, ktarget[t])
       THEN /\ kreaders' = [kreaders EXCEPT ![x] = @ \cup {t}]
            /\ kpc' = [kpc EXCEPT ![t] = "g_enq"]
            /\ UNCHANGED kret
       ELSE /\ kret' = [kret EXCEPT ![t] = Result(cur, kvalue[x], "ok")]
            /\ kpc' = [kpc EXCEPT ![t] = "g_del"]
            /\ UNCHANGED kreaders
    /\ UNCHANGED <<kdb, kentries, kversion, kvalue, kmaxver, kwriter, kreq, ke,
                   ktarget, kbump, knops, kinstalled>>

\* e.RLock() (again, on waking from e.Wait()) and the loop test: below the
\* version wanted, and not Removed, the thread waits with the read lock
\* held; otherwise it reads version and value and unlocks.  The raise of
\* maxver under the read lock finds it raised already by h.Lock's region.
KCGetRLock(t) ==
    LET x == ke[t]  cur == kversion[x] IN
    /\ kpc[t] \in {"g_rlock", "g_relock"}
    /\ kwriter[x] = {}
    /\ IF MustWait(cur, ktarget[t])
       THEN /\ kreaders' = [kreaders EXCEPT ![x] = @ \cup {t}]
            /\ kpc' = [kpc EXCEPT ![t] = "g_enq"]
            /\ UNCHANGED kret
       ELSE /\ kret' = [kret EXCEPT ![t] = Result(cur, kvalue[x], "ok")]
            /\ kpc' = [kpc EXCEPT ![t] = "g_del"]
            /\ UNCHANGED kreaders
    /\ UNCHANGED <<kdb, kentries, kversion, kvalue, kmaxver, kwriter, kreq, ke,
                   ktarget, kbump, knops, kinstalled>>

KCGetWait(t) ==
    /\ kpc[t] = "g_enq"
    /\ kreaders' = [kreaders EXCEPT ![ke[t]] = @ \ {t}]
    /\ kpc' = [kpc EXCEPT ![t] = "g_wait"]
    /\ UNCHANGED <<kdb, kentries, kversion, kvalue, kmaxver, kwriter, kreq, ke,
                   ktarget, kbump, kret, knops, kinstalled>>

\* Under h.Lock: when no waiter wants more than this one did, the key is
\* deleted from the map, whichever entry it maps to now; keysEntry stays.
\* Removed is returned as version 0 and nil.
KCGetDelete(t) ==
    LET k == kreq[t].key  x == ke[t]  r == kret[t] IN
    /\ kpc[t] = "g_del"
    /\ kentries' = IF kmaxver[x] = ktarget[t] /\ x # KeysEnt
                   THEN [kentries EXCEPT ![k] = NoEntry] ELSE kentries
    /\ KReturn(t, IF r.ver = Removed THEN Result(0, Nil, "ok") ELSE r)
    /\ UNCHANGED <<kdb, kversion, kvalue, kmaxver, kwriter, kreaders, kreq,
                   ktarget, kbump, knops, kinstalled>>

-----------------------------------------------------------------------------
(* KCHop.TestSet; Set is TestSet(key, Any, nil, value) *)

\* A nil value is Enil; then kcdbaccept with tsetvisit, one atomic step on
\* the record: a missing key is Enoent; oldversion Any takes the record's
\* version; a different value or version fails and returns the record's
\* version and its first bytes, header included, without keysModified;
\* otherwise the version after the record's and the new value are written.
KCTestSetVisit(t) ==
    LET r == kreq[t]  d == kdb[r.key]
        oldver == IF r.kind = "set" \/ r.ver = Any THEN d.ver ELSE r.ver
        oldval == IF r.kind = "set" THEN Nil ELSE r.old
        fail == (oldval # Nil /\ oldval # d.val) \/ oldver # d.ver
        nv == VisitIncrease(d.ver) IN
    /\ kpc[t] = "ts_visit"
    /\ CASE r.val = Nil -> KReturn(t, Result(0, Nil, "Enil")) /\ UNCHANGED <<kdb, kinstalled>>
         [] d = Absent -> KReturn(t, Result(0, Nil, "Enoent")) /\ UNCHANGED <<kdb, kinstalled>>
         [] fail -> KReturn(t, Result(d.ver, Header(d.ver), "ok")) /\ UNCHANGED <<kdb, kinstalled>>
         [] OTHER -> /\ KPut(r.key, [ver |-> nv, val |-> r.val])
                     /\ kret' = [kret EXCEPT ![t] = Result(nv, r.val, "ok")]
                     /\ kpc' = [kpc EXCEPT ![t] = "ts_map"]
                     /\ UNCHANGED ke
    /\ UNCHANGED <<kentries, kversion, kvalue, kmaxver, kwriter, kreaders, kreq,
                   ktarget, kbump, knops>>

\* A slip KCNoLeak must catch: TestSet making an entry for a key nobody
\* waits on, as LDHop's TestSet does
KCTestSetMapInsert(t) ==
    LET k == kreq[t].key  o == kentries[k] IN
    /\ kpc[t] = "ts_map"
    /\ o = NoEntry => KFree # {}
    /\ \E x \in {IF o = NoEntry THEN KNewEntry ELSE o} :
        /\ kentries' = [kentries EXCEPT ![k] = x]
        /\ ke' = [ke EXCEPT ![t] = x]
    /\ kpc' = [kpc EXCEPT ![t] = "ts_lock"]
    /\ UNCHANGED <<kdb, kversion, kvalue, kmaxver, kwriter, kreaders,
                   kreq, ktarget, kbump, kret, knops, kinstalled>>

\* Under h.RLock: the key's entry, if somebody waits on it
KCTestSetMap(t) ==
    LET o == kentries[kreq[t].key] IN
    /\ kpc[t] = "ts_map"
    /\ ke' = [ke EXCEPT ![t] = o]
    /\ kpc' = [kpc EXCEPT ![t] = IF o = NoEntry THEN "keys_mod" ELSE "ts_lock"]
    /\ UNCHANGED <<kdb, kentries, kversion, kvalue, kmaxver, kwriter, kreaders,
                   kreq, ktarget, kbump, kret, knops, kinstalled>>

\* A slip KCTypeOK must catch: e.Lock() that does not wait for readers
KCTestSetLockShared(t) ==
    LET x == ke[t] IN
    /\ kpc[t] = "ts_lock"
    /\ kwriter[x] = {}
    /\ kwriter' = [kwriter EXCEPT ![x] = {t}]
    /\ kbump' = [kbump EXCEPT ![t] = kversion[x] < kret[t].ver]
    /\ kpc' = [kpc EXCEPT ![t] = "ts_set"]
    /\ UNCHANGED <<kdb, kentries, kversion, kvalue, kmaxver, kreaders, kreq, ke,
                   ktarget, kret, knops, kinstalled>>

\* e.Lock() and the test `e.version < ver`, which another TestSet that
\* wrote later may already have made false
KCTestSetLock(t) ==
    LET x == ke[t] IN
    /\ kpc[t] = "ts_lock"
    /\ kwriter[x] = {} /\ kreaders[x] = {}
    /\ kwriter' = [kwriter EXCEPT ![x] = {t}]
    /\ kbump' = [kbump EXCEPT ![t] = kversion[x] < kret[t].ver]
    /\ kpc' = [kpc EXCEPT ![t] = "ts_set"]
    /\ UNCHANGED <<kdb, kentries, kversion, kvalue, kmaxver, kreaders, kreq, ke,
                   ktarget, kret, knops, kinstalled>>

\* e.version = ver and e.value = val when the test held, e.Unlock() and
\* e.Broadcast()
KCTestSetSet(t) ==
    LET x == ke[t] IN
    /\ kpc[t] = "ts_set"
    /\ kversion' = IF kbump[t] THEN [kversion EXCEPT ![x] = kret[t].ver] ELSE kversion
    /\ kvalue' = IF kbump[t] THEN [kvalue EXCEPT ![x] = kret[t].val] ELSE kvalue
    /\ kwriter' = [kwriter EXCEPT ![x] = {}]
    /\ kpc' = [KBroadcast(x, kpc) EXCEPT ![t] = "keys_mod"]
    /\ UNCHANGED <<kdb, kentries, kmaxver, kreaders, kreq, ke, ktarget, kbump,
                   kret, knops, kinstalled>>

-----------------------------------------------------------------------------
KCCreate(t) == KCCreateAdd(t) \/ KCCreateMap(t) \/ KCCreateBcast(t)
KCRemove(t) == KCRemoveDel(t) \/ KCRemoveMap(t) \/ KCRemoveWake(t)
KCGet(t) == KCGetRead(t) \/ KCGetLock(t) \/ KCGetRLock(t) \/ KCGetWait(t) \/ KCGetDelete(t)
KCTestSet(t) == KCTestSetVisit(t) \/ KCTestSetMap(t) \/ KCTestSetLock(t) \/ KCTestSetSet(t)

KCRun(t) == KCCreate(t) \/ KCRemove(t) \/ KCGet(t) \/ KCTestSet(t) \/ KeysModified(t)

KCNext == \E t \in Threads : KCCall(t) \/ KCRun(t)

\* Go runs every runnable goroutine; issuing a call is the client's choice.
KCFairness == \A t \in Threads : WF_kcvars(KCRun(t))

KCSpec == KCInit /\ [][KCNext]_kcvars /\ KCFairness

-----------------------------------------------------------------------------
(* Properties *)

\* Invariant 4 of the Hop interface, for KCHop.Get: a Get leaves its wait
\* loop only with the version it waits for, a later one, or Removed; and a
\* Get of a client key that returns a version other than 0 returns a value
\* the cabinet held at that version.  Entries take their version and value
\* from getvalue or from a TestSet under the entry's write lock, a
\* TestSet's `e.version < ver` test may be overtaken by Remove's unlocked
\* write of Removed, and a woken Get must re-test the version, since
\* Create, Remove, TestSet and keysModified all broadcast.
KCGetReturnsInstalled ==
    \A t \in Threads :
        LET r == kreq[t]  w == kret[t] IN
        /\ kpc[t] = "g_del" => w.ver = Removed \/ w.ver >= ktarget[t]
        /\ kpc[t] = "idle" /\ r # NoRequest /\ r.kind = "get" /\ w.ver # 0 =>
            /\ r.key \in Keys => <<r.key, w.ver, w.val>> \in kinstalled
            /\ r.ver \notin {Any, Newest} => w.ver >= ktarget[t]

\* No entry outlives its waiters: once every call has returned, h.entries
\* holds no client key's entry.  A Get deletes the key's entry only when
\* its version is the entry's maxver, whichever entry the key then maps
\* to; Create and Remove delete it; TestSet never puts one in.
KCNoLeak ==
    (\A t \in Threads : kpc[t] = "idle") => \A k \in Keys : kentries[k] = NoEntry

====
