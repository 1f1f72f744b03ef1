------------------------------ MODULE LDStore ------------------------------
(***************************************************************************)
(* The LevelDB-backed store, LDHop (src/lvldbhop/ldhop.go).  The values    *)
(* live in the database, `db`, which keeps for every key the encoded       *)
(* version and value; each leveldb_put, _get and _delete is one atomic     *)
(* step.  Next to it, h.entries keeps in-memory entry objects for the keys *)
(* somebody waits on; an entry has a version, a value, maxver (the highest *)
(* version a waiter wants) and a RWMutex whose read side is the lock of    *)
(* its condition variable.  TestSet holds the entry's write lock around    *)
(* its read-compare-write of the database; Create and Remove take no entry *)
(* lock.                                                                   *)
(*                                                                         *)
(* The version constants, the client-call vocabulary and the bounds are    *)
(* those of EntryStore.  Each call runs in a thread whose program counter  *)
(* is `ldpc`; one action is one region under h's lock, one database call,  *)
(* or one step on an entry's lock or condition variable.                   *)
(***************************************************************************)
EXTENDS EntryStore

CONSTANT LDCalls   \* the calls clients of the LevelDB store make

ASSUME LDCalls \subseteq Requests

\* The database's content of a key: an encoded version and value; leveldb
\* gives nothing (vlen 0) for a missing key, which getvalue reports as
\* version 0 and a nil value.
Absent == [ver |-> 0, val |-> Nil]
DbVals == {Absent} \cup [ver : Lowest .. Highest, val : Vals]

LDErrors == Errors \cup {"Enotimpl"}

VARIABLES
    db,          \* the LevelDB database: key -> Absent or [ver, val]
    ldentries,   \* h.entries: key -> entry (NoEntry if absent)
    ldversion,   \* entry.version
    ldvalue,     \* entry.value
    maxver,      \* entry.maxver
    writer,      \* the thread holding the entry's write lock ({} if none)
    readers,     \* the threads holding the entry's read lock
    ldpc,        \* thread program counter
    ldreq,       \* the call a thread is executing
    lde,         \* the thread's local e
    ldtarget,    \* Get's local `version` after the PastNewest adjustment
    ldseen,      \* TestSet: what its getvalue read under the entry lock
    ldchanged,   \* TestSet's local `changed`
    ldret,       \* the result the call returns (ver, val, err)
    ldnops,      \* calls made by each thread
    installed    \* history: every <<key, version, value>> the db has held

ldvars == <<db, ldentries, ldversion, ldvalue, maxver, writer, readers, ldpc,
            ldreq, lde, ldtarget, ldseen, ldchanged, ldret, ldnops, installed>>

LDPCs == {"idle", "c_put", "c_map", "c_bcast", "r_del", "r_map", "r_wake",
          "g_read", "g_lock", "g_rlock", "g_enq", "g_wait", "g_relock", "g_del",
          "ts_map", "ts_lock", "ts_put", "ts_done", "ts_bcast"}

LDTypeOK ==
    /\ db \in [Keys -> DbVals]
    /\ ldentries \in [Keys -> Ents \cup {NoEntry}]
    /\ ldversion \in [Ents -> Versions]
    /\ ldvalue \in [Ents -> Vals \cup {Nil}]
    /\ maxver \in [Ents -> Versions]
    /\ writer \in [Ents -> SUBSET Threads]
    /\ \A x \in Ents : Cardinality(writer[x]) <= 1
    /\ readers \in [Ents -> SUBSET Threads]
    /\ ldpc \in [Threads -> LDPCs]
    /\ ldreq \in [Threads -> Requests \cup {NoRequest}]
    /\ lde \in [Threads -> Ents \cup {NoEntry}]
    /\ ldtarget \in [Threads -> Versions]
    /\ ldseen \in [Threads -> DbVals]
    /\ ldchanged \in [Threads -> BOOLEAN]
    /\ ldret \in [Threads -> [ver : Versions, val : Vals \cup {Nil}, err : LDErrors]]
    /\ ldnops \in [Threads -> 0 .. MaxOps]
    /\ installed \subseteq Keys \X (Lowest .. Highest) \X Vals

-----------------------------------------------------------------------------
(* Entry objects *)

\* An entry is live while the map or a thread refers to it; the others are
\* free for new(entry), which gives version 0, a nil value and maxver 0.
LDReferenced == ({ldentries[k] : k \in Keys} \cup {lde[t] : t \in Threads}) \cap Ents
LDFree == Ents \ LDReferenced
LDNewEntry == CHOOSE x \in LDFree : \A y \in LDFree : x <= y

\* e.Broadcast(): every thread in e.Wait() on x becomes runnable
LDBroadcast(x, p) ==
    [u \in Threads |-> IF p[u] = "g_wait" /\ lde[u] = x THEN "g_relock" ELSE p[u]]

\* The call returns r, the other threads' counters being p; its locals go
\* out of scope.
LDReturnWith(t, r, p) ==
    /\ ldret' = [ldret EXCEPT ![t] = r]
    /\ ldpc' = [p EXCEPT ![t] = "idle"]
    /\ lde' = [lde EXCEPT ![t] = NoEntry]

LDReturn(t, r) == LDReturnWith(t, r, ldpc)

\* The database write of a key, and its record in the history
Put(k, d) ==
    /\ db' = [db EXCEPT ![k] = d]
    /\ installed' = installed \cup (IF d = Absent THEN {} ELSE {<<k, d.ver, d.val>>})

-----------------------------------------------------------------------------
\* NewLDHop: an empty database and no entries of client keys
LDInit ==
    /\ db = [k \in Keys |-> Absent]
    /\ ldentries = [k \in Keys |-> NoEntry]
    /\ ldversion = [x \in Ents |-> 0]
    /\ ldvalue = [x \in Ents |-> Nil]
    /\ maxver = [x \in Ents |-> 0]
    /\ writer = [x \in Ents |-> {}]
    /\ readers = [x \in Ents |-> {}]
    /\ ldpc = [t \in Threads |-> "idle"]
    /\ ldreq = [t \in Threads |-> NoRequest]
    /\ lde = [t \in Threads |-> NoEntry]
    /\ ldtarget = [t \in Threads |-> 0]
    /\ ldseen = [t \in Threads |-> Absent]
    /\ ldchanged = [t \in Threads |-> FALSE]
    /\ ldret = [t \in Threads |-> NoResult]
    /\ ldnops = [t \in Threads |-> 0]
    /\ installed = {}

\* A thread issues its next call; LDHop.Atomic fails at once.
LDCall(t) ==
    /\ ldpc[t] = "idle" /\ ldnops[t] < MaxOps
    /\ \E r \in LDCalls :
        /\ ldreq' = [ldreq EXCEPT ![t] = r]
        /\ ldpc' = [ldpc EXCEPT ![t] =
               CASE r.kind = "create" -> "c_put"
                 [] r.kind = "remove" -> "r_del"
                 [] r.kind = "get"    -> "g_read"
                 [] r.kind = "atomic" -> "idle"
                 [] OTHER             -> "ts_map"]
        /\ ldret' = [ldret EXCEPT ![t] =
               IF r.kind = "atomic" THEN Result(0, Nil, "Enotimpl") ELSE NoResult]
    /\ ldnops' = [ldnops EXCEPT ![t] = @ + 1]
    /\ UNCHANGED <<db, ldentries, ldversion, ldvalue, maxver, writer, readers,
                   lde, ldtarget, ldseen, ldchanged, installed>>

-----------------------------------------------------------------------------
(* LDHop.Create *)

\* The nil-value check, then leveldb_put of version Lowest and the value;
\* the put does not look at what the key holds.
LDCreatePut(t) ==
    LET r == ldreq[t] IN
    /\ ldpc[t] = "c_put"
    /\ IF r.val = Nil
       THEN /\ LDReturn(t, Result(0, Nil, "Enil"))
            /\ UNCHANGED <<db, installed>>
       ELSE /\ Put(r.key, [ver |-> Lowest, val |-> r.val])
            /\ ldpc' = [ldpc EXCEPT ![t] = "c_map"]
            /\ UNCHANGED <<ldret, lde>>
    /\ UNCHANGED <<ldentries, ldversion, ldvalue, maxver, writer, readers, ldreq,
                   ldtarget, ldseen, ldchanged, ldnops>>

\* Under h.Lock: the key's entry, if any, leaves the map; its version is
\* left as it was.
LDCreateMap(t) ==
    LET k == ldreq[t].key  o == ldentries[k] IN
    /\ ldpc[t] = "c_map"
    /\ ldentries' = [ldentries EXCEPT ![k] = NoEntry]
    /\ IF o = NoEntry
       THEN LDReturn(t, Result(Lowest, Nil, "ok"))
       ELSE /\ lde' = [lde EXCEPT ![t] = o]
            /\ ldpc' = [ldpc EXCEPT ![t] = "c_bcast"]
            /\ UNCHANGED ldret
    /\ UNCHANGED <<db, ldversion, ldvalue, maxver, writer, readers, ldreq,
                   ldtarget, ldseen, ldchanged, ldnops, installed>>

\* e.Broadcast(), after h.Unlock: the waiters re-check the entry's version
LDCreateBcast(t) ==
    /\ ldpc[t] = "c_bcast"
    /\ LDReturnWith(t, Result(Lowest, Nil, "ok"), LDBroadcast(lde[t], ldpc))
    /\ UNCHANGED <<db, ldentries, ldversion, ldvalue, maxver, writer, readers,
                   ldreq, ldtarget, ldseen, ldchanged, ldnops, installed>>

-----------------------------------------------------------------------------
(* LDHop.Remove *)

\* leveldb_delete, which succeeds for a missing key too
LDRemoveDel(t) ==
    /\ ldpc[t] = "r_del"
    /\ Put(ldreq[t].key, Absent)
    /\ ldpc' = [ldpc EXCEPT ![t] = "r_map"]
    /\ UNCHANGED <<ldentries, ldversion, ldvalue, maxver, writer, readers, ldreq,
                   lde, ldtarget, ldseen, ldchanged, ldret, ldnops>>

\* Under h.Lock: the key's entry, if any, leaves the map
LDRemoveMap(t) ==
    LET k == ldreq[t].key  o == ldentries[k] IN
    /\ ldpc[t] = "r_map"
    /\ ldentries' = [ldentries EXCEPT ![k] = NoEntry]
    /\ IF o = NoEntry
       THEN LDReturn(t, Result(0, Nil, "ok"))
       ELSE /\ lde' = [lde EXCEPT ![t] = o]
            /\ ldpc' = [ldpc EXCEPT ![t] = "r_wake"]
            /\ UNCHANGED ldret
    /\ UNCHANGED <<db, ldversion, ldvalue, maxver, writer, readers, ldreq,
                   ldtarget, ldseen, ldchanged, ldnops, installed>>

\* e.version = hop.Removed, written without the entry's lock, and
\* e.Broadcast()
LDRemoveWake(t) ==
    LET x == lde[t] IN
    /\ ldpc[t] = "r_wake"
    /\ ldversion' = [ldversion EXCEPT ![x] = Removed]
    /\ LDReturnWith(t, Result(0, Nil, "ok"), LDBroadcast(x, ldpc))
    /\ UNCHANGED <<db, ldentries, ldvalue, maxver, writer, readers, ldreq,
                   ldtarget, ldseen, ldchanged, ldnops, installed>>

-----------------------------------------------------------------------------
(* LDHop.Get *)

\* getvalue, then the early return: Any and Newest, and a version the key
\* already has, are answered from the database at once (a missing key as
\* version 0 and nil); PastNewest becomes the version after the current.
LDGetRead(t) ==
    LET r == ldreq[t]  d == db[r.key] IN
    /\ ldpc[t] = "g_read"
    /\ IF r.ver \in {Any, Newest} \/ r.ver <= d.ver
       THEN /\ LDReturn(t, Result(d.ver, d.val, "ok"))
            /\ UNCHANGED ldtarget
       ELSE /\ ldtarget' = [ldtarget EXCEPT ![t] =
                   IF r.ver = PastNewest THEN d.ver + 1 ELSE r.ver]
            /\ ldpc' = [ldpc EXCEPT ![t] = "g_lock"]
            /\ UNCHANGED <<ldret, lde>>
    /\ UNCHANGED <<db, ldentries, ldversion, ldvalue, maxver, writer, readers,
                   ldreq, ldseen, ldchanged, ldnops, installed>>

\* Under h.Lock: the key's entry, or a new one holding what getvalue reads
\* now and maxver = version; an existing entry's maxver is raised to the
\* version waited for.
LDGetLock(t) ==
    LET k == ldreq[t].key  o == ldentries[k]  d == db[k]  v == ldtarget[t]
        x == IF o = NoEntry THEN LDNewEntry ELSE o IN
    /\ ldpc[t] = "g_lock"
    /\ o = NoEntry => LDFree # {}
    /\ IF o = NoEntry
       THEN /\ ldentries' = [ldentries EXCEPT ![k] = x]
            /\ maxver' = [maxver EXCEPT ![x] = v]
            /\ ldversion' = [ldversion EXCEPT ![x] = d.ver]
            /\ ldvalue' = [ldvalue EXCEPT ![x] = d.val]
       ELSE /\ maxver' = [maxver EXCEPT ![x] = IF @ < v THEN v ELSE @]
            /\ UNCHANGED <<ldentries, ldversion, ldvalue>>
    /\ lde' = [lde EXCEPT ![t] = x]
    /\ ldpc' = [ldpc EXCEPT ![t] = "g_rlock"]
    /\ UNCHANGED <<db, writer, readers, ldreq, ldtarget, ldseen, ldchanged,
                   ldret, ldnops, installed>>

\* e.RLock() (again, on waking from e.Wait()) and the loop test: a version
\* below the one wanted, and not Removed, keeps the thread waiting with the
\* read lock held; otherwise it reads version and value and unlocks.  The
\* write of maxver under the read lock changes nothing: h.Lock's region has
\* already raised it.
LDGetRLock(t) ==
    LET x == lde[t]  cur == ldversion[x] IN
    /\ ldpc[t] \in {"g_rlock", "g_relock"}
    /\ writer[x] = {}
    /\ IF MustWait(cur, ldtarget[t])
       THEN /\ readers' = [readers EXCEPT ![x] = @ \cup {t}]
            /\ ldpc' = [ldpc EXCEPT ![t] = "g_enq"]
            /\ UNCHANGED ldret
       ELSE /\ ldret' = [ldret EXCEPT ![t] = Result(cur, ldvalue[x], "ok")]
            /\ ldpc' = [ldpc EXCEPT ![t] = "g_del"]
            /\ UNCHANGED readers
    /\ UNCHANGED <<db, ldentries, ldversion, ldvalue, maxver, writer, ldreq, lde,
                   ldtarget, ldseen, ldchanged, ldnops, installed>>

\* e.Wait(): the thread joins the waiters and gives the read lock up
LDGetWait(t) ==
    LET x == lde[t] IN
    /\ ldpc[t] = "g_enq"
    /\ readers' = [readers EXCEPT ![x] = @ \ {t}]
    /\ ldpc' = [ldpc EXCEPT ![t] = "g_wait"]
    /\ UNCHANGED <<db, ldentries, ldversion, ldvalue, maxver, writer, ldreq, lde,
                   ldtarget, ldseen, ldchanged, ldret, ldnops, installed>>

\* Under h.Lock: when no waiter wants more than this one did, the key is
\* deleted from the map, whichever entry it now maps to.  Removed is
\* returned as version 0 and nil.
LDGetDelete(t) ==
    LET k == ldreq[t].key  x == lde[t]  r == ldret[t] IN
    /\ ldpc[t] = "g_del"
    /\ ldentries' = IF maxver[x] <= ldtarget[t]
                    THEN [ldentries EXCEPT ![k] = NoEntry] ELSE ldentries
    /\ LDReturn(t, IF r.ver = Removed THEN Result(0, Nil, "ok") ELSE r)
    /\ UNCHANGED <<db, ldversion, ldvalue, maxver, writer, readers, ldreq,
                   ldtarget, ldseen, ldchanged, ldnops, installed>>

-----------------------------------------------------------------------------
(* LDHop.TestSet; Set is TestSet(key, Any, nil, value) *)

\* Under h.Lock: the key's entry, or a new one (version 0, maxver 0) put
\* in the map
LDTestSetMap(t) ==
    LET k == ldreq[t].key  o == ldentries[k]
        x == IF o = NoEntry THEN LDNewEntry ELSE o IN
    /\ ldpc[t] = "ts_map"
    /\ o = NoEntry => LDFree # {}
    /\ IF o = NoEntry
       THEN /\ ldentries' = [ldentries EXCEPT ![k] = x]
            /\ maxver' = [maxver EXCEPT ![x] = 0]
            /\ ldversion' = [ldversion EXCEPT ![x] = 0]
            /\ ldvalue' = [ldvalue EXCEPT ![x] = Nil]
       ELSE UNCHANGED <<ldentries, maxver, ldversion, ldvalue>>
    /\ lde' = [lde EXCEPT ![t] = x]
    /\ ldpc' = [ldpc EXCEPT ![t] = "ts_lock"]
    /\ UNCHANGED <<db, writer, readers, ldreq, ldtarget, ldseen, ldchanged,
                   ldret, ldnops, installed>>

\* e.Lock(), getvalue into e.version and e.value, and the tests: Any takes
\* the current version (0 for a missing key); a version outside
\* Lowest..Highest fails; a different version or value leaves the key
\* alone; otherwise e.IncreaseVersion().
\* A slip the type invariant must catch: e.Lock() that does not exclude
LDTestSetLockShared(t) ==
    LET r == ldreq[t]  x == lde[t]  d == db[r.key]
        old == IF r.kind = "set" THEN Any ELSE r.ver
        oldval == IF r.kind = "set" THEN Nil ELSE r.old
        invalid == old # Any /\ (old < Lowest \/ old > Highest)
        match == ~invalid /\ old \in {Any, d.ver} /\ oldval \in {Nil, d.val}
        ver == IF match THEN IncreaseVersion(d.ver) ELSE d.ver IN
    /\ ldpc[t] = "ts_lock"
    /\ writer' = [writer EXCEPT ![x] = @ \cup {t}]
    /\ ldversion' = [ldversion EXCEPT ![x] = ver]
    /\ ldvalue' = [ldvalue EXCEPT ![x] = d.val]
    /\ ldseen' = [ldseen EXCEPT ![t] = d]
    /\ ldret' = [ldret EXCEPT ![t] = Result(ver, d.val, IF invalid THEN "Einval" ELSE "ok")]
    /\ ldchanged' = [ldchanged EXCEPT ![t] = FALSE]
    /\ ldpc' = [ldpc EXCEPT ![t] = IF match THEN "ts_put" ELSE "ts_done"]
    /\ UNCHANGED <<db, ldentries, maxver, readers, ldreq, lde, ldtarget, ldnops,
                   installed>>

LDTestSetLock(t) ==
    LET r == ldreq[t]  x == lde[t]  d == db[r.key]
        old == IF r.kind = "set" THEN Any ELSE r.ver
        oldval == IF r.kind = "set" THEN Nil ELSE r.old
        invalid == old # Any /\ (old < Lowest \/ old > Highest)
        match == ~invalid /\ old \in {Any, d.ver} /\ oldval \in {Nil, d.val}
        ver == IF match THEN IncreaseVersion(d.ver) ELSE d.ver IN
    /\ ldpc[t] = "ts_lock"
    /\ writer[x] = {} /\ readers[x] = {}
    /\ writer' = [writer EXCEPT ![x] = {t}]
    /\ ldversion' = [ldversion EXCEPT ![x] = ver]
    /\ ldvalue' = [ldvalue EXCEPT ![x] = d.val]
    /\ ldseen' = [ldseen EXCEPT ![t] = d]
    /\ ldret' = [ldret EXCEPT ![t] = Result(ver, d.val, IF invalid THEN "Einval" ELSE "ok")]
    /\ ldchanged' = [ldchanged EXCEPT ![t] = FALSE]
    /\ ldpc' = [ldpc EXCEPT ![t] = IF match THEN "ts_put" ELSE "ts_done"]
    /\ UNCHANGED <<db, ldentries, maxver, readers, ldreq, lde, ldtarget, ldnops,
                   installed>>

\* leveldb_put of the new version and value, then e.value = value
LDTestSetPut(t) ==
    LET r == ldreq[t]  x == lde[t] IN
    /\ ldpc[t] = "ts_put"
    /\ Put(r.key, [ver |-> ldret[t].ver, val |-> r.val])
    /\ ldvalue' = [ldvalue EXCEPT ![x] = r.val]
    /\ ldchanged' = [ldchanged EXCEPT ![t] = TRUE]
    /\ ldpc' = [ldpc EXCEPT ![t] = "ts_done"]
    /\ UNCHANGED <<ldentries, ldversion, maxver, writer, readers, ldreq, lde,
                   ldtarget, ldseen, ldret, ldnops>>

\* Slips the properties must catch: the repair without its version test,
\* and the early return without e.Unlock()
LDTestSetDoneAlwaysRepair(t) ==
    LET k == ldreq[t].key  x == lde[t]  r == ldret[t] IN
    /\ ldpc[t] = "ts_done"
    /\ ldentries' = IF maxver[x] <= r.ver
                    THEN [ldentries EXCEPT ![k] = NoEntry] ELSE ldentries
    /\ writer' = [writer EXCEPT ![x] = {}]
    /\ IF ~ldchanged[t]
       THEN /\ LDReturn(t, r)
            /\ UNCHANGED <<ldversion, ldvalue>>
       ELSE /\ IF TRUE
               THEN /\ ldversion' = [ldversion EXCEPT ![x] = r.ver]
                    /\ ldvalue' = [ldvalue EXCEPT ![x] = r.val]
               ELSE UNCHANGED <<ldversion, ldvalue>>
            /\ ldpc' = [ldpc EXCEPT ![t] = "ts_bcast"]
            /\ UNCHANGED <<ldret, lde>>
    /\ UNCHANGED <<db, maxver, readers, ldreq, ldtarget, ldseen, ldchanged,
                   ldnops, installed>>

LDTestSetDoneKeepLock(t) ==
    LET k == ldreq[t].key  x == lde[t]  r == ldret[t] IN
    /\ ldpc[t] = "ts_done"
    /\ ldentries' = IF maxver[x] <= r.ver
                    THEN [ldentries EXCEPT ![k] = NoEntry] ELSE ldentries
    /\ writer' = [writer EXCEPT ![x] = IF ldchanged[t] THEN {} ELSE @]
    /\ IF ~ldchanged[t]
       THEN /\ LDReturn(t, r)
            /\ UNCHANGED <<ldversion, ldvalue>>
       ELSE /\ IF ldversion[x] < r.ver
               THEN /\ ldversion' = [ldversion EXCEPT ![x] = r.ver]
                    /\ ldvalue' = [ldvalue EXCEPT ![x] = r.val]
               ELSE UNCHANGED <<ldversion, ldvalue>>
            /\ ldpc' = [ldpc EXCEPT ![t] = "ts_bcast"]
            /\ UNCHANGED <<ldret, lde>>
    /\ UNCHANGED <<db, maxver, readers, ldreq, ldtarget, ldseen, ldchanged,
                   ldnops, installed>>

\* done: under h.Lock the key is deleted from the map when no waiter wants
\* a later version; then, unchanged, e.Unlock() and return; changed, the
\* `e.version < ver` repair (with the value read before the change) and
\* e.Unlock().  The call returns the version and the value it read.
LDTestSetDone(t) ==
    LET k == ldreq[t].key  x == lde[t]  r == ldret[t] IN
    /\ ldpc[t] = "ts_done"
    /\ ldentries' = IF maxver[x] <= r.ver
                    THEN [ldentries EXCEPT ![k] = NoEntry] ELSE ldentries
    /\ writer' = [writer EXCEPT ![x] = {}]
    /\ IF ~ldchanged[t]
       THEN /\ LDReturn(t, r)
            /\ UNCHANGED <<ldversion, ldvalue>>
       ELSE /\ IF ldversion[x] < r.ver
               THEN /\ ldversion' = [ldversion EXCEPT ![x] = r.ver]
                    /\ ldvalue' = [ldvalue EXCEPT ![x] = r.val]
               ELSE UNCHANGED <<ldversion, ldvalue>>
            /\ ldpc' = [ldpc EXCEPT ![t] = "ts_bcast"]
            /\ UNCHANGED <<ldret, lde>>
    /\ UNCHANGED <<db, maxver, readers, ldreq, ldtarget, ldseen, ldchanged,
                   ldnops, installed>>

\* e.Broadcast(); keysModified bumps #/keys and #/keynum, which no Get of
\* this store reads (getKeys and getKeynum are not implemented)
LDTestSetBcast(t) ==
    /\ ldpc[t] = "ts_bcast"
    /\ LDReturnWith(t, ldret[t], LDBroadcast(lde[t], ldpc))
    /\ UNCHANGED <<db, ldentries, ldversion, ldvalue, maxver, writer, readers,
                   ldreq, ldtarget, ldseen, ldchanged, ldnops, installed>>

-----------------------------------------------------------------------------
LDCreate(t) == LDCreatePut(t) \/ LDCreateMap(t) \/ LDCreateBcast(t)
LDRemove(t) == LDRemoveDel(t) \/ LDRemoveMap(t) \/ LDRemoveWake(t)
LDGet(t) == LDGetRead(t) \/ LDGetLock(t) \/ LDGetRLock(t) \/ LDGetWait(t) \/ LDGetDelete(t)
LDTestSet(t) ==
    LDTestSetMap(t) \/ LDTestSetLock(t) \/ LDTestSetPut(t) \/ LDTestSetDone(t)
    \/ LDTestSetBcast(t)

LDRun(t) == LDCreate(t) \/ LDRemove(t) \/ LDGet(t) \/ LDTestSet(t)

LDNext == \E t \in Threads : LDCall(t) \/ LDRun(t)

\* Go runs every runnable goroutine: a thread that can take its next step
\* takes it.  Issuing a call is the client's choice and is not fair.
LDFairness == \A t \in Threads : WF_ldvars(LDRun(t))

LDSpec == LDInit /\ [][LDNext]_ldvars /\ LDFairness

-----------------------------------------------------------------------------
(* Properties *)

\* Invariant 4 of the Hop interface, for LDHop.Get: a Get that returns a
\* version w other than 0 returns a value the database held at version w,
\* and w is at least the version it asked for.  Entries get their version
\* and value from the database, TestSet advances an entry's version before
\* its put, and Remove writes Removed without the entry's lock; a reader
\* must never see a pair that mixes two of these.
GetReturnsInstalled ==
    \A t \in Threads :
        LET r == ldreq[t]  w == ldret[t] IN
        ldpc[t] = "idle" /\ r # NoRequest /\ r.kind = "get" /\ w.ver # 0 =>
            /\ <<r.key, w.ver, w.val>> \in installed
            /\ r.ver \notin {Any, Newest, PastNewest} => w.ver >= r.ver

\* Create, Remove, Set and TestSet never block for good: TestSet takes an
\* entry's write lock and, under it, h's lock, while Get takes them one at
\* a time and gives the read lock up in e.Wait().
WritesReturn ==
    \A t \in Threads :
        (ldpc[t] \notin {"idle", "g_read", "g_lock", "g_rlock", "g_enq", "g_wait",
                         "g_relock", "g_del"}) ~> (ldpc[t] = "idle")

\* The Hop interface's testset is atomic: between a TestSet's read of the
\* key under its entry lock and its leveldb_put, nobody else writes the
\* key.  The entry lock excludes only TestSets holding the same entry
\* object; Create and Remove take no entry lock, and a TestSet that found
\* the entry deleted from the map locks a new one.
PutOverWhatWasRead ==
    \A t \in Threads : ldpc[t] = "ts_put" => db[ldreq[t].key] = ldseen[t]

====
