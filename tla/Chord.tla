------------------------------- MODULE Chord -------------------------------
(***************************************************************************)
(* The Chord router of src/chord: servers that join a ring through a first *)
(* server and keep it up with stabilizeproc, the goroutine that runs       *)
(* stabilize and fixFinger in a loop.                                      *)
(*                                                                         *)
(* Each server's state is its finger table, predecessor and successor1,    *)
(* all pointers to Node objects, and the Node objects themselves: the      *)
(* nodecache maps an address to one, a Node has a ref count and a clnt     *)
(* connection that Connect opens at ref 1 and Disconnect closes at ref 0.  *)
(* A Node object is the handle <<addr, g>>: the g-th object the server     *)
(* made for addr; <<self, 0>> is &s.self, whose clnt is the local store.   *)
(*                                                                         *)
(* One call to a remote server (a #/chord/successor Get, a PredAndNotify   *)
(* Atomic) is one step: the remote handler runs in the caller's step,      *)
(* including the findSuccessor calls it forwards.  Where a handler blocks  *)
(* (sending on a full modchan) the caller waits in the "blocked" pc in     *)
(* its stead, holding the lock the handler holds.                          *)
(***************************************************************************)
EXTENDS Integers, FiniteSetsExt, Sequences

CONSTANTS
    ChNodes,      \* the servers' addresses
    ChFirst,      \* the server started with no node address
    ChId,         \* ChId[a]: s.keyhash.Hash(a)
    IdBits,       \* the ID width, and len(s.finger) (64 and 64 in the code)
    MaxGen,       \* the Node objects newNode may make per server and address
    ModChanCap,   \* cap(s.modchan): 4 in NewChord
    MaxCrash      \* the servers whose process may die

ASSUME ChFirst \in ChNodes /\ ChId \in [ChNodes -> 0 .. 2^IdBits - 1]

Ring == 2^IdBits
FingerIdx == 0 .. IdBits - 1
Handles == ChNodes \X (0 .. MaxGen)
NoNode == <<>>
SelfH(n) == <<n, 0>>
IdOf(h) == ChId[h[1]]

\* uint64 arithmetic on IDs: id - 1 and s.self.id + (1 << k) wrap around
Dec(x) == (x - 1) % Ring
Start(n, k) == (ChId[n] + 2^k) % Ring

\* between(n, low, high): n in the ring interval (low, high]
between(x, low, high) ==
    IF low > high THEN x > low \/ x <= high ELSE x > low /\ x <= high

\* uint(math.Log2(float64(d))): the floor of log2 d; log2 0 is -Inf, whose
\* conversion to uint gives 1 << 63 on amd64, past every finger
RECURSIVE FloorLog2(_)
FloorLog2(d) == IF d < 2 THEN 0 ELSE 1 + FloorLog2(d \div 2)
JoinI0(d) == IF d = 0 THEN IdBits ELSE FloorLog2(d)

VARIABLES
    node,         \* node[n]: server n's Chord fields and Node objects
    chan,         \* chan[n]: the values buffered in n's s.modchan
    held,         \* held[n]: a PredAndNotify handler holds n's lock, blocked
    spc,          \* spc[n]: where n's NewChord, then stabilizeproc, is
    loc,          \* loc[n]: that goroutine's local variables
    panicked      \* the servers whose process has panicked

chvars == <<node, chan, held, spc, loc, panicked>>

ChPCs == {"j_succ", "j_cycle", "j_finger", "j_done", "failed",
          "sp_wait", "sp_pred", "st_read", "st_gs", "st_un0", "st_un0r",
          "st_un1", "st_un1r", "st_commit", "ff", "ff_gs", "sp_next",
          "cc", "blocked", "crashed"}

Clnts == {"nil", "open", "closed", "local"}

\* A node string "<id> <addr> <oncycle>" as the fields it carries; the
\* empty string of a nil predecessor is NoAnswer
NoAnswer == <<>>

Table(n) ==
    [finger |-> [i \in FingerIdx |-> NoNode], pred |-> NoNode, succ1 |-> NoNode,
     cache |-> [a \in ChNodes |-> IF a = n THEN 0 ELSE -1],
     gen |-> [a \in ChNodes |-> 0],
     ref |-> [h \in Handles |-> IF h = SelfH(n) THEN 1 ELSE 0],
     clnt |-> [h \in Handles |-> IF h = SelfH(n) THEN "local" ELSE "nil"],
     oncyc |-> [h \in Handles |-> h = SelfH(n) /\ n = ChFirst]]

NoLocals ==
    [s0 |-> NoNode, s1 |-> NoNode, p |-> NoNode, nd |-> NoNode, n0 |-> NoNode,
     n1 |-> NoNode, oc |-> FALSE, mod |-> FALSE, nf |-> 1, rep |-> NoAnswer,
     on |-> ChFirst, ret |-> "sp_next", cret |-> "sp_next", hold |-> FALSE]

\* The type of every server's state.  A Node's ref is a count, never below
\* zero: each DisconnectLocked on it matches an earlier Connect, through
\* stabilize's replacements, fixFinger, PredAndNotify and checkClosed
\* after a crash, with two servers.  (The double release of join's shared
\* finger[0] and successor1 needs a third server and is not covered.)
ChTypeOK ==
    /\ \A n \in ChNodes :
         /\ node[n].finger \in [FingerIdx -> Handles \cup {NoNode}]
         /\ {node[n].pred, node[n].succ1} \subseteq Handles \cup {NoNode}
         /\ node[n].cache \in [ChNodes -> -1 .. MaxGen]
         /\ node[n].ref \in [Handles -> Nat]
         /\ node[n].clnt \in [Handles -> Clnts]
         /\ node[n].oncyc \in [Handles -> BOOLEAN]
    /\ chan \in [ChNodes -> 0 .. ModChanCap]
    /\ held \in [ChNodes -> BOOLEAN]
    /\ spc \in [ChNodes -> ChPCs]
    /\ panicked \subseteq ChNodes

ChInit ==
    /\ node = [n \in ChNodes |-> Table(n)]
    /\ chan = [n \in ChNodes |-> 0]
    /\ held = [n \in ChNodes |-> FALSE]
    /\ spc = [n \in ChNodes |-> IF n = ChFirst THEN "sp_wait" ELSE "j_succ"]
    /\ loc = [n \in ChNodes |-> NoLocals]
    /\ panicked = {}

-----------------------------------------------------------------------------
(* Node objects: newNode, Connect and Disconnect on a server's table t *)

\* A server's process listens until it panics, or NewChord fails and main
\* returns
Up(a) == a \notin panicked /\ spc[a] \notin {"failed", "crashed"}

\* A server whose process died: it answers nothing, and its peers' open
\* connections to it hang until their receive goroutine sees the error
Crashed(a) == spc[a] = "crashed"

\* newNode(spec): the Node nodecache has for addr a, else a new one; an
\* oncycle "true" in spec is copied to it
NewNodeH(t, a) == <<a, IF t.cache[a] >= 0 THEN t.cache[a] ELSE t.gen[a] + 1>>
CanNewNode(t, a) == t.cache[a] >= 0 \/ t.gen[a] < MaxGen
NewNode(t, a, f) ==
    LET h == NewNodeH(t, a)
    IN  [t EXCEPT !.cache[a] = h[2], !.gen[a] = IF h[2] > @ THEN h[2] ELSE @,
                  !.oncyc[h] = @ \/ f]

\* Connect that counts the first ref but never stores the new clnt
ConnectNoOpen(t, h, up) ==
    IF t.ref[h] # 0 THEN [t EXCEPT !.ref[h] = @ + 1]
    ELSE IF up THEN [t EXCEPT !.ref[h] = 1, !.cache[h[1]] = h[2]]
    ELSE [t EXCEPT !.clnt[h] = "nil"]

\* Connect that forgets the ref++ on a Node already connected
ConnectNoRef(t, h, up) ==
    IF t.ref[h] # 0 THEN t
    ELSE IF up THEN [t EXCEPT !.ref[h] = 1, !.clnt[h] = "open", !.cache[h[1]] = h[2]]
    ELSE [t EXCEPT !.clnt[h] = "nil"]

\* Connect and ConnectLocked: ref++, and at ref 1 hopclnt.Connect, whose
\* failure leaves clnt nil and undoes the ref++; the error is the failed
\* connect, or Edisconnect for a clnt already closed
Connect(t, h, up) ==
    IF t.ref[h] # 0 THEN [t EXCEPT !.ref[h] = @ + 1]
    ELSE IF up THEN [t EXCEPT !.ref[h] = 1, !.clnt[h] = "open", !.cache[h[1]] = h[2]]
    ELSE [t EXCEPT !.clnt[h] = "nil"]
ConnectErr(t, h, up) == IF t.ref[h] = 0 THEN ~up ELSE t.clnt[h] = "closed"

\* DisconnectLocked: nothing for a nil Node; ref--, and at 0 delete
\* nodecache[addr] and clnt.(rmt.RemoteHop).Close(), a failed type
\* assertion (a panic) when clnt is nil or the local store
Disconnect(t, h) ==
    IF h = NoNode THEN t
    ELSE IF t.ref[h] = 1 THEN [t EXCEPT !.ref[h] = 0, !.cache[h[1]] = -1, !.clnt[h] = "closed"]
    ELSE [t EXCEPT !.ref[h] = @ - 1]
DisconnectPanics(t, h) == h # NoNode /\ t.ref[h] = 1 /\ t.clnt[h] \in {"nil", "local"}

\* k DisconnectLocked calls on a Node whose clnt is closed
DisconnectK(t, h, k) ==
    IF k > 0 /\ t.ref[h] >= 1 /\ t.ref[h] - k <= 0
    THEN [t EXCEPT !.ref[h] = @ - k, !.cache[h[1]] = -1]
    ELSE [t EXCEPT !.ref[h] = @ - k]

\* tryFindSuccessor, with s's lock held: the first finger past finger[0]
\* that is not &s.self, else the predecessor, becomes finger[0]
TryFindSuccessor(x, t) ==
    LET cand == {i \in 1 .. IdBits - 1 : t.finger[i] \notin {NoNode, SelfH(x)}}
    IN  IF cand # {}
        THEN LET h == t.finger[Min(cand)]
             IN  Connect([t EXCEPT !.finger[0] = h], h, Up(h[1]))
        ELSE IF t.pred # NoNode
        THEN Connect([t EXCEPT !.finger[0] = t.pred], t.pred, Up(t.pred[1]))
        ELSE t

\* checkClosed(h) of server x once h's clnt is closed, up to the Unlock:
\* h leaves the predecessor and the fingers, each with a DisconnectLocked,
\* and an empty finger[0] is refilled (successor1 is left as it is)
CheckClosed(x, t, h) ==
    LET t1 == IF t.pred = h THEN Disconnect([t EXCEPT !.pred = NoNode], h) ELSE t
        k == Cardinality({i \in FingerIdx : t1.finger[i] = h})
        t2 == [DisconnectK(t1, h, k) EXCEPT
                 !.finger = [i \in FingerIdx |-> IF t1.finger[i] = h THEN NoNode ELSE t1.finger[i]]]
    IN  IF t2.finger[0] = NoNode THEN TryFindSuccessor(x, t2) ELSE t2
-----------------------------------------------------------------------------
(* The remote side of a call: findSuccessor and PredEntry.Atomic *)

\* findLocalSuccessor(id) of server m, under m's RLock: &s.self when id is
\* between the predecessor and m, or when m knows no successor; finger[0]
\* when id is between m and it; else the highest finger between m and
\* id - 1, not exact
FindLocal(m, id) ==
    LET t == node[m]
        hits == {i \in FingerIdx : t.finger[i] # NoNode /\
                                   between(IdOf(t.finger[i]), ChId[m], Dec(id))}
    IN  CASE t.pred # NoNode /\ between(id, IdOf(t.pred), ChId[m]) ->
                 [nd |-> SelfH(m), exact |-> TRUE]
          [] t.finger[0] = NoNode -> [nd |-> SelfH(m), exact |-> TRUE]
          [] between(id, ChId[m], IdOf(t.finger[0])) -> [nd |-> t.finger[0], exact |-> TRUE]
          [] hits # {} -> [nd |-> t.finger[Max(hits)], exact |-> FALSE]
          [] OTHER -> [nd |-> SelfH(m), exact |-> TRUE]

\* SuccEntry.Get of #/chord/successor:id on server m: findSuccessor, which
\* forwards a non-exact answer with getSuccessor(lnd.clnt, id).  The result
\* says how it ends ("ok" with the node string's addr a and oncycle f,
\* "err" where server at could not reach fh, "panic" at a nil clnt), the
\* servers it forwarded through (via) and every server it read (seen).
RECURSIVE FindSuccessor(_, _, _)
FindSuccessor(m, id, d) ==
    LET r == FindLocal(m, id)
        c == node[m].clnt[r.nd]
        end(res, a, f, fh) == [res |-> res, a |-> a, f |-> f, at |-> m, fh |-> fh,
                               via |-> <<>>, seen |-> {m}]
    IN  IF r.exact THEN end("ok", r.nd[1], node[m].oncyc[r.nd], NoNode)
        ELSE IF c = "open" /\ Crashed(r.nd[1]) THEN end("wait", m, FALSE, NoNode)
        ELSE IF c = "open" /\ d > 0
        THEN LET s == FindSuccessor(r.nd[1], id, d - 1)
             IN  [s EXCEPT !.via = <<m>> \o @, !.seen = @ \cup {m}]
        ELSE IF c = "open" THEN end("deep", m, FALSE, NoNode)
        ELSE IF c = "nil" THEN end("panic", m, FALSE, NoNode)
        ELSE end("err", m, FALSE, r.nd)

\* On the way back each forwarding server m runs newNode on the answer and
\* answers nd.String() of its own Node, whose oncycle may already be true
RECURSIVE Unwind(_, _, _, _)
Unwind(nd, via, a, f) ==
    IF via = <<>> THEN [node |-> nd, f |-> f]
    ELSE LET x == via[Len(via)]
             t == NewNode(nd[x], a, f)
         IN  Unwind([nd EXCEPT ![x] = t], SubSeq(via, 1, Len(via) - 1), a,
                    t.oncyc[NewNodeH(nd[x], a)])

\* getSuccessor(clnt, id) of server n, where clnt is in state c and
\* connects to server m, given m's lookup l and its unwinding u: res "ok"
\* with n's Node nd for the answer, "err", or "panic" of server at; node
\* is the tables after the call, send the server whose checkClosed then
\* sends on its modchan (a set of at most one)
GetSuccOf(n, c, m, l, u) ==
    LET closes == l.res = "err" /\ node[l.at].clnt[l.fh] = "closed"
    IN  CASE c = "open" /\ Crashed(m) ->
                 [res |-> "err", at |-> n, node |-> node, nd |-> NoNode, send |-> {}, ready |-> FALSE]
          [] c = "nil" -> [res |-> "panic", at |-> n, node |-> node, nd |-> NoNode,
                           send |-> {}, ready |-> TRUE]
          [] c # "open" -> [res |-> "err", at |-> n, node |-> node, nd |-> NoNode,
                            send |-> {}, ready |-> TRUE]
          [] l.res = "ok" ->
               [res |-> "ok", at |-> n, nd |-> NewNodeH(u.node[n], l.a),
                node |-> [u.node EXCEPT ![n] = NewNode(@, l.a, u.f)], send |-> {},
                ready |-> /\ \A x \in l.seen \cup {n} : ~held[x]
                          /\ \A x \in {n} \cup {l.via[i] : i \in 1 .. Len(l.via)} :
                                CanNewNode(node[x], l.a)]
          [] OTHER ->
               [res |-> l.res, at |-> l.at, nd |-> NoNode,
                node |-> IF closes
                         THEN [node EXCEPT ![l.at] = CheckClosed(l.at, @, l.fh)]
                         ELSE node,
                send |-> IF closes THEN {l.at} ELSE {},
                ready |-> l.res \notin {"deep", "wait"} /\ \A x \in l.seen : ~held[x]]
\* The lookup l and the unwinding u are each computed once, as values
GetSucc(n, c, m, id) ==
    CHOOSE o \in UNION {{GetSuccOf(n, c, m, l, u) : u \in {Unwind(node, l.via, l.a, l.f)}} :
                        l \in {FindSuccessor(m, id, Cardinality(ChNodes))}} : TRUE

\* PredEntry.Atomic(PredAndNotify) on server m, called by server n with
\* n's self.String(): under m's lock, n becomes the predecessor if there is
\* none or n is between it and m, and finger[0] if m has none; each with a
\* ConnectLocked whose error returns at once.  The answer is the old
\* predecessor's string; send says that ringModified runs, still locked.
\* Its first half, on m's table t0 after newNode: the predecessor
PnPred(n, m, t0, nd) ==
    LET pred == t0.pred
        take == pred = NoNode \/ between(ChId[n], IdOf(pred), ChId[m])
        e1 == take /\ ConnectErr(t0, nd, Up(n))
        t1 == IF take THEN Connect(t0, nd, Up(n)) ELSE t0
    IN  [table |-> IF take /\ ~e1 THEN [Disconnect(t1, pred) EXCEPT !.pred = nd] ELSE t1,
         err |-> e1, take |-> take, pred |-> pred,
         panic |-> take /\ ~e1 /\ DisconnectPanics(t1, pred)]
\* Its second half, on the table t2 the first left: finger[0]
PnFinger(n, t2, nd, e1) ==
    LET need == ~e1 /\ t2.finger[0] = NoNode
        e2 == need /\ ConnectErr(t2, nd, Up(n))
        t3 == IF need THEN Connect(t2, nd, Up(n)) ELSE t2
    IN  [table |-> IF need /\ ~e2 THEN [t3 EXCEPT !.finger[0] = nd] ELSE t3,
         err |-> e2, need |-> need]
\* The answer of the two halves p and f
PnAnswer(n, m, p, f) ==
    [table |-> f.table, err |-> p.err \/ f.err, panic |-> p.panic,
     send |-> ~(p.err \/ f.err) /\ (p.take \/ f.need),
     rep |-> IF p.pred = NoNode THEN NoAnswer ELSE <<p.pred[1], f.table.oncyc[p.pred]>>,
     ready |-> ~held[m] /\ ~Crashed(m) /\ CanNewNode(node[m], n)]
\* Each stage's table is computed once, as a value
PredAndNotify(n, m) ==
    LET nd == NewNodeH(node[m], n)
    IN  CHOOSE r \in UNION {{PnAnswer(n, m, p, f) : f \in {PnFinger(n, p.table, nd, p.err)}} :
                            p \in {PnPred(n, m, NewNode(node[m], n, node[n].oncyc[SelfH(n)]), nd)}} :
            TRUE
-----------------------------------------------------------------------------
(* Steps of server n's goroutine *)

\* Go on at pc next with locals l
Proceed(n, l, next) ==
    /\ spc' = [spc EXCEPT ![n] = next]
    /\ loc' = [loc EXCEPT ![n] = l]
    /\ UNCHANGED <<chan, held>>

\* ringModified() on server x's modchan, then pc next; on a full channel
\* the send blocks, still holding x's lock when hold
SendThen(n, l, x, next, hold) ==
    IF chan[x] < ModChanCap
    THEN /\ chan' = [chan EXCEPT ![x] = @ + 1]
         /\ spc' = [spc EXCEPT ![n] = next]
         /\ loc' = [loc EXCEPT ![n] = l]
         /\ UNCHANGED held
    ELSE /\ spc' = [spc EXCEPT ![n] = "blocked"]
         /\ loc' = [loc EXCEPT ![n] = [l EXCEPT !.on = x, !.ret = next, !.hold = hold]]
         /\ held' = [held EXCEPT ![x] = hold]
         /\ UNCHANGED chan

\* The process of server x panics; the model stops there
Panic(x) ==
    /\ panicked' = panicked \cup {x}
    /\ UNCHANGED <<node, chan, held, spc, loc>>

\* The end of a getSuccessor that failed: the forwarding server's
\* checkClosed, whose send may block, then pc next
GetFailed(n, o, l, next) ==
    /\ node' = o.node
    /\ UNCHANGED panicked
    /\ IF o.send = {} THEN Proceed(n, l, next)
       ELSE SendThen(n, l, CHOOSE x \in o.send : TRUE, next, FALSE)

\* A blocked send completes once the channel has room
Blocked(n) ==
    /\ spc[n] = "blocked"
    /\ LET x == loc[n].on
       IN  /\ chan[x] < ModChanCap
           /\ chan' = [chan EXCEPT ![x] = @ + 1]
           /\ held' = IF loc[n].hold THEN [held EXCEPT ![x] = FALSE] ELSE held
           /\ spc' = [spc EXCEPT ![n] = loc[n].ret]
           /\ loc' = [loc EXCEPT ![n].hold = FALSE]
           /\ UNCHANGED <<node, panicked>>

\* checkClosed(nd): nothing unless nd's clnt is a closed connection; else
\* under the lock, then ringModified on n's own modchan
CheckClosedStep(n) ==
    /\ spc[n] = "cc"
    /\ LET h == loc[n].nd
       IN  /\ IF node[n].clnt[h] # "closed"
              THEN Proceed(n, loc[n], loc[n].cret) /\ UNCHANGED <<node, panicked>>
              ELSE /\ ~held[n]
                   /\ node' = [node EXCEPT ![n] = CheckClosed(n, @, h)]
                   /\ UNCHANGED panicked
                   /\ SendThen(n, loc[n], n, loc[n].cret, FALSE)
-----------------------------------------------------------------------------
(* NewChord and join, for a server started with ChFirst's address *)

\* getSuccessor(clnt, self.id) through a new connection to ChFirst, then
\* succ.Connect(); an error makes NewChord return it
JoinSucc(n) ==
    /\ spc[n] = "j_succ"
    /\ \E o \in {GetSucc(n, IF Up(ChFirst) THEN "open" ELSE "closed", ChFirst, ChId[n])} :
       LET t == o.node[n]
       IN  /\ o.ready
           /\ IF o.res = "panic" THEN Panic(o.at)
              ELSE IF o.res = "err" THEN GetFailed(n, o, loc[n], "failed")
              ELSE /\ node' = [o.node EXCEPT ![n] = Connect(t, o.nd, Up(o.nd[1]))]
                   /\ UNCHANGED panicked
                   /\ Proceed(n, [loc[n] EXCEPT !.s0 = o.nd],
                              IF ConnectErr(t, o.nd, Up(o.nd[1])) THEN "failed" ELSE "j_cycle")

\* for !succ.oncycle { succ, err = s.getSuccessor(succ.clnt, s.self.id) },
\* then i0 := uint(math.Log2(float64(succ.id - s.self.id))); an error
\* leaves succ nil, and the loop's succ.oncycle dereferences it
JoinCycle(n) ==
    /\ spc[n] = "j_cycle"
    /\ LET s == loc[n].s0
       IN  \E o \in {GetSucc(n, node[n].clnt[s], s[1], ChId[n])} :
           LET i0 == JoinI0((IdOf(s) - ChId[n]) % Ring)
           IN  /\ IF node[n].oncyc[s]
                  THEN /\ Proceed(n, [loc[n] EXCEPT !.nf = i0], IF i0 < IdBits THEN "j_finger" ELSE "j_done")
                       /\ UNCHANGED <<node, panicked>>
                  ELSE /\ o.ready
                       /\ IF o.res = "ok"
                          THEN /\ node' = o.node
                               /\ UNCHANGED panicked
                               /\ Proceed(n, [loc[n] EXCEPT !.s0 = o.nd], "j_cycle")
                          ELSE Panic(IF o.res = "panic" THEN o.at ELSE n)

\* s.finger[i], err = s.getSuccessor(succ.clnt, s.start(i)), then
\* s.finger[i].Connect(); on an error checkClosed(succ) and NewChord fails
JoinFinger(n) ==
    /\ spc[n] = "j_finger"
    /\ LET s == loc[n].s0
           i == loc[n].nf
       IN  \E o \in {GetSucc(n, node[n].clnt[s], s[1], Start(n, i))} :
           LET t == [o.node[n] EXCEPT !.finger[i] = o.nd]
               next == IF i + 1 < IdBits THEN "j_finger" ELSE "j_done"
           IN  /\ o.ready
               /\ IF o.res = "panic" THEN Panic(o.at)
                  ELSE IF o.res = "err"
                  THEN GetFailed(n, [o EXCEPT !.node[n].finger[i] = NoNode],
                                 [loc[n] EXCEPT !.nd = s, !.cret = "failed"], "cc")
                  ELSE /\ node' = [o.node EXCEPT ![n] = Connect(t, o.nd, Up(o.nd[1]))]
                       /\ UNCHANGED panicked
                       /\ Proceed(n, [loc[n] EXCEPT !.nf = i + 1],
                                  IF ConnectErr(t, o.nd, Up(o.nd[1])) THEN "failed" ELSE next)

\* s.finger[0] = succ; s.successor1 = succ; then go s.stabilizeproc(),
\* whose nfinger starts at 1
JoinDone(n) ==
    /\ spc[n] = "j_done"
    /\ node' = [node EXCEPT ![n].finger[0] = loc[n].s0, ![n].succ1 = loc[n].s0]
    /\ UNCHANGED panicked
    /\ Proceed(n, NoLocals, "sp_wait")
-----------------------------------------------------------------------------
(* stabilizeproc: a loop of a wait, the predecessor check, stabilize and  *)
(* fixFinger; modified short-cuts the rest of the round                   *)

\* A wait with no timer: only a value from s.modchan wakes it
SpWaitNoTimer(n) ==
    /\ spc[n] = "sp_wait"
    /\ chan[n] > 0
    /\ spc' = [spc EXCEPT ![n] = "sp_pred"]
    /\ loc' = [loc EXCEPT ![n].mod = TRUE]
    /\ chan' = [chan EXCEPT ![n] = @ - 1]
    /\ UNCHANGED <<held, node, panicked>>

\* select on time.After(period) or a value from s.modchan
SpWait(n) ==
    /\ spc[n] = "sp_wait"
    /\ \/ /\ Proceed(n, [loc[n] EXCEPT !.mod = FALSE], "sp_pred")
       \/ /\ chan[n] > 0
          /\ spc' = [spc EXCEPT ![n] = "sp_pred"]
          /\ loc' = [loc EXCEPT ![n].mod = TRUE]
          /\ chan' = [chan EXCEPT ![n] = @ - 1]
          /\ UNCHANGED held
    /\ UNCHANGED <<node, panicked>>

\* Under the lock, a predecessor whose clnt is closed is dropped; then
\* modified || s.stabilize()
SpPred(n) ==
    /\ spc[n] = "sp_pred"
    /\ LET t == node[n]
           gone == t.pred # NoNode /\ t.clnt[t.pred] = "closed"
           mod == loc[n].mod \/ gone
       IN  /\ ~held[n]
           /\ node' = IF gone THEN [node EXCEPT ![n] = [Disconnect(t, t.pred) EXCEPT !.pred = NoNode]]
                      ELSE node
           /\ UNCHANGED panicked
           /\ Proceed(n, [loc[n] EXCEPT !.mod = mod], IF mod THEN "sp_next" ELSE "st_read")

\* stabilize: succ0, succ1 and pred read under RLock; no successor ends it
StRead(n) ==
    /\ spc[n] = "st_read"
    /\ LET t == node[n]
       IN  /\ ~held[n]
           /\ Proceed(n, [loc[n] EXCEPT !.s0 = t.finger[0],
                                        !.s1 = IF t.succ1 = NoNode THEN t.finger[0] ELSE t.succ1,
                                        !.p = t.pred, !.n0 = NoNode, !.n1 = NoNode],
                      IF t.finger[0] = NoNode THEN "ff" ELSE "st_gs")
           /\ UNCHANGED <<node, panicked>>

\* nd = getSuccessor(succ0.clnt, s.self.id), an error ending stabilize
\* with modified; oncycle is nd.id == s.self.id; a nd between n and
\* succ1 - 1, when succ0 == succ1, becomes succ1 after nd.Connect()
StGetSucc(n) ==
    /\ spc[n] = "st_gs"
    /\ LET l == loc[n]
       IN  \E o \in {GetSucc(n, node[n].clnt[l.s0], l.s0[1], ChId[n])} :
           LET t == o.node[n]
               repl == l.s0 = l.s1 /\ between(IdOf(o.nd), ChId[n], Dec(IdOf(l.s1)))
               cerr == repl /\ ConnectErr(t, o.nd, Up(o.nd[1]))
           IN  /\ o.ready
               /\ IF o.res = "panic" THEN Panic(o.at)
                  ELSE IF o.res = "err" THEN GetFailed(n, o, [l EXCEPT !.mod = TRUE], "sp_next")
                  ELSE /\ node' = [o.node EXCEPT ![n] = IF repl THEN Connect(t, o.nd, Up(o.nd[1])) ELSE t]
                       /\ UNCHANGED panicked
                       /\ IF cerr THEN Proceed(n, [l EXCEPT !.mod = TRUE], "sp_next")
                          ELSE Proceed(n, [l EXCEPT !.oc = IdOf(o.nd) = ChId[n],
                                                    !.s1 = IF repl THEN o.nd ELSE l.s1], "st_un0")

\* updateNotify(pred, succ), for succ0 then succ1: PredAndNotify on succ's
\* server; the local store's Atomic answers nothing; an error runs
\* checkClosed(succ) and starts stabilize again
StNotify(n) ==
    /\ spc[n] \in {"st_un0", "st_un1"}
    /\ LET l == loc[n]
           first == spc[n] = "st_un0"
           succ == IF first THEN l.s0 ELSE l.s1
           c == node[n].clnt[succ]
           rnext == IF first THEN "st_un0r" ELSE "st_un1r"
           again == [l EXCEPT !.nd = succ, !.cret = "st_read"]
       IN  /\ CASE c = "nil" -> Panic(n)
                [] c = "local" -> /\ Proceed(n, l, IF first THEN "st_un1" ELSE "st_commit")
                                  /\ UNCHANGED <<node, panicked>>
                [] c = "closed" -> Proceed(n, again, "cc") /\ UNCHANGED <<node, panicked>>
                [] OTHER -> \E r \in {PredAndNotify(n, succ[1])} :
                     /\ r.ready
                     /\ IF r.panic THEN Panic(succ[1])
                        ELSE /\ node' = [node EXCEPT ![succ[1]] = r.table]
                             /\ UNCHANGED panicked
                             /\ IF r.err THEN Proceed(n, again, "cc")
                                ELSE IF r.send
                                THEN SendThen(n, [l EXCEPT !.rep = r.rep], succ[1], rnext, TRUE)
                                ELSE Proceed(n, [l EXCEPT !.rep = r.rep], rnext)

\* The answer: no predecessor means nothing; else newNode(ndval), and a nd
\* between n and succ - 1 other than succ becomes newsucc after nd.Connect()
StNotifyReply(n) ==
    /\ spc[n] \in {"st_un0r", "st_un1r"}
    /\ LET l == loc[n]
           first == spc[n] = "st_un0r"
           succ == IF first THEN l.s0 ELSE l.s1
           next == IF first THEN "st_un1" ELSE "st_commit"
           t == NewNode(node[n], l.rep[1], l.rep[2])
           h == NewNodeH(node[n], l.rep[1])
           take == between(IdOf(h), ChId[n], Dec(IdOf(succ))) /\ h[1] # succ[1]
           new == IF take /\ ~ConnectErr(t, h, Up(h[1])) THEN h ELSE NoNode
           set(v) == IF first THEN [l EXCEPT !.n0 = v, !.rep = NoAnswer]
                     ELSE [l EXCEPT !.n1 = v, !.rep = NoAnswer]
       IN  /\ UNCHANGED panicked
           /\ IF l.rep = NoAnswer
              THEN Proceed(n, set(NoNode), next) /\ UNCHANGED node
              ELSE /\ ~held[n]
                   /\ CanNewNode(node[n], l.rep[1])
                   /\ node' = [node EXCEPT ![n] = IF take THEN Connect(t, h, Up(h[1])) ELSE t]
                   /\ Proceed(n, set(new), next)

\* Under the lock: self.oncycle; a succ1 that changed, then newsucc1,
\* become successor1 and newsucc0 becomes finger[0], each after a
\* DisconnectLocked of what it replaces
StCommit(n) ==
    /\ spc[n] = "st_commit"
    /\ LET l == loc[n]
           t0 == [node[n] EXCEPT !.oncyc[SelfH(n)] = l.oc]
           ch1 == t0.succ1 # l.s1
           t1 == IF ch1 THEN [Disconnect(t0, t0.succ1) EXCEPT !.succ1 = l.s1] ELSE t0
           t2 == IF l.n1 # NoNode THEN [Disconnect(t1, t1.succ1) EXCEPT !.succ1 = l.n1] ELSE t1
           t3 == IF l.n0 # NoNode THEN [Disconnect(t2, t2.finger[0]) EXCEPT !.finger[0] = l.n0] ELSE t2
           mod == ch1 \/ l.n1 # NoNode \/ l.n0 # NoNode
       IN  /\ ~held[n]
           /\ IF \/ ch1 /\ DisconnectPanics(t0, t0.succ1)
                 \/ l.n1 # NoNode /\ DisconnectPanics(t1, t1.succ1)
                 \/ l.n0 # NoNode /\ DisconnectPanics(t2, t2.finger[0])
              THEN Panic(n)
              ELSE /\ node' = [node EXCEPT ![n] = t3]
                   /\ UNCHANGED panicked
                   /\ Proceed(n, [l EXCEPT !.mod = mod], IF mod THEN "sp_next" ELSE "ff")

\* fixFinger(nfinger): the finger, else the nearest one below it, else
\* (under the lock) tryFindSuccessor's finger[0]; nobody to ask ends it
FixFinger(n) ==
    /\ spc[n] = "ff"
    /\ LET l == loc[n]
           t == node[n]
           below == {j \in 0 .. l.nf : t.finger[j] # NoNode}
           t2 == TryFindSuccessor(n, t)
       IN  /\ UNCHANGED panicked
           /\ IF below # {}
              THEN /\ Proceed(n, [l EXCEPT !.nd = IF t.finger[l.nf] # NoNode THEN t.finger[l.nf]
                                                   ELSE t.finger[Max(below)]], "ff_gs")
                   /\ UNCHANGED node
              ELSE /\ ~held[n]
                   /\ node' = [node EXCEPT ![n] = t2]
                   /\ IF t2.finger[0] = NoNode THEN Proceed(n, l, "sp_next")
                      ELSE Proceed(n, [l EXCEPT !.nd = t2.finger[0]], "ff_gs")

\* nd1 = getSuccessor(nd.clnt, s.start(n)); an error runs checkClosed(nd).
\* Under the lock, a finger that is nil or names another address than nd1
\* is replaced by nd1 after nd1.ConnectLocked() and fn.DisconnectLocked()
FixFingerGet(n) ==
    /\ spc[n] = "ff_gs"
    /\ LET l == loc[n]
           i == l.nf
       IN  \E o \in {GetSucc(n, node[n].clnt[l.nd], l.nd[1], Start(n, i))} :
           LET t == o.node[n]
               fn == t.finger[i]
               change == fn = NoNode \/ fn[1] # o.nd[1]
               t1 == Connect(t, o.nd, Up(o.nd[1]))
               cerr == ConnectErr(t, o.nd, Up(o.nd[1]))
           IN  /\ o.ready
               /\ IF o.res = "panic" THEN Panic(o.at)
                  ELSE IF o.res = "err"
                  THEN GetFailed(n, o, [l EXCEPT !.cret = "sp_next", !.mod = TRUE], "cc")
                  ELSE IF change /\ ~cerr /\ DisconnectPanics(t1, fn) THEN Panic(n)
                  ELSE /\ node' = [o.node EXCEPT ![n] =
                                      IF ~change THEN t
                                      ELSE IF cerr THEN t1
                                      ELSE [Disconnect(t1, fn) EXCEPT !.finger[i] = o.nd]]
                       /\ UNCHANGED panicked
                       /\ Proceed(n, [l EXCEPT !.mod = change], "sp_next")

\* nfinger++, back to 0 at len(s.finger); the round's locals are dropped
SpNext(n) ==
    /\ spc[n] = "sp_next"
    /\ Proceed(n, [NoLocals EXCEPT !.nf = IF loc[n].nf + 1 >= IdBits THEN 0 ELSE loc[n].nf + 1],
               "sp_wait")
    /\ UNCHANGED <<node, panicked>>

-----------------------------------------------------------------------------
(* Faults: a server's process dies; its peers' hopclnt connections see it *)

\* Server x's process dies at any point where it is not inside a remote
\* handler (its lock held by one, or one blocked on its modchan); its
\* memory is gone, and nothing reads it again
Crash(x) ==
    /\ panicked = {}
    /\ Up(x)
    /\ Cardinality({y \in ChNodes : Crashed(y)}) < MaxCrash
    /\ ~held[x]
    /\ \A n \in ChNodes : ~(spc[n] = "blocked" /\ loc[n].on = x)
    /\ spc' = [spc EXCEPT ![x] = "crashed"]
    /\ node' = [node EXCEPT ![x] = Table(x)]
    /\ chan' = [chan EXCEPT ![x] = 0]
    /\ loc' = [loc EXCEPT ![x] = NoLocals]
    /\ UNCHANGED <<held, panicked>>

\* The receive goroutine of server n's connection h to a dead server
\* reads an error and calls ConnError: from then on clnt.Closed() holds
\* and every call on it fails
Detect(n) ==
    /\ panicked = {}
    /\ Up(n)
    /\ \E h \in Handles :
         /\ node[n].clnt[h] = "open"
         /\ Crashed(h[1])
         /\ node' = [node EXCEPT ![n].clnt[h] = "closed"]
    /\ UNCHANGED <<chan, held, spc, loc, panicked>>
-----------------------------------------------------------------------------

\* A step of server n's NewChord or stabilizeproc goroutine; the remote
\* handlers it calls run inside it
ChStep(n) ==
    /\ panicked = {}
    /\ \/ JoinSucc(n) \/ JoinCycle(n) \/ JoinFinger(n) \/ JoinDone(n)
       \/ SpWait(n) \/ SpPred(n) \/ StRead(n) \/ StGetSucc(n)
       \/ StNotify(n) \/ StNotifyReply(n) \/ StCommit(n)
       \/ FixFinger(n) \/ FixFingerGet(n) \/ SpNext(n)
       \/ CheckClosedStep(n) \/ Blocked(n)

ChNext == \E n \in ChNodes : ChStep(n) \/ Detect(n) \/ Crash(n)

\* Each goroutine is scheduled; time.After always fires, so a waiting
\* stabilizeproc always has a step; a receive goroutine reads the error of
\* a dead peer's connection; a crash may or may not happen
ChSpec == ChInit /\ [][ChNext]_chvars
          /\ \A n \in ChNodes : WF_chvars(ChStep(n)) /\ WF_chvars(Detect(n))
-----------------------------------------------------------------------------
(* Properties *)

JoinPCs == {"j_succ", "j_cycle", "j_finger", "j_done", "failed"}

\* The Node objects server n points at: its fingers, predecessor and
\* successor1
Pointers(n) ==
    ({node[n].pred, node[n].succ1} \cup {node[n].finger[i] : i \in FingerIdx}) \ {NoNode}

\* No server's process panics: no DisconnectLocked reaches Close on a nil
\* clnt or the local store, and no getSuccessor or updateNotify calls
\* through a nil clnt
ChNoPanic == panicked = {}

\* Every Node a server points at has a live clnt (an open connection, or
\* the local store of &s.self): each install is counted by a Connect, so
\* no Disconnect of another pointer closes the connection under it, and
\* checkClosed drops every pointer whose connection closed
PointersLive == \A n \in ChNodes : \A h \in Pointers(n) : node[n].clnt[h] \in {"open", "local"}

\* The servers whose process runs, and the one of them that owns key k:
\* the first at or after k clockwise
Live == {n \in ChNodes : Up(n)}
Dist(k, n) == (ChId[n] - k) % Ring
TrueSucc(k) == CHOOSE n \in Live : \A m \in Live : Dist(k, n) <= Dist(k, m)

\* findSuccessor(k) on server n ends with the node that owns k
Routes(n, k) ==
    LET l == FindSuccessor(n, k, Cardinality(ChNodes))
    IN  l.res = "ok" /\ l.a = TrueSucc(k)

\* Every live server has joined, knows itself on the cycle, and routes
\* every key to the live server that owns it
ChStable ==
    \A n \in Live : /\ spc[n] \notin JoinPCs
                    /\ node[n].oncyc[SelfH(n)]
                    /\ \A k \in 0 .. Ring - 1 : Routes(n, k)

\* Stabilization converges: stabilizeproc's passes, woken by the timer or
\* by ringModified, eventually bring the ring to ChStable and keep it there
RingStabilizes == <>[]ChStable

====
