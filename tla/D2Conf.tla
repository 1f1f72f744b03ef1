------------------------------- MODULE D2Conf -------------------------------
(***************************************************************************)
(* The configuration protocol of the static-range router (src/d2hop):     *)
(* servers joining through the master's #/conf entry, the master's        *)
(* masterAddServer, the `server <addr>` registrations on #/ctl, and each   *)
(* peer's updateConf and confproc loop.                                    *)
(*                                                                         *)
(* Every peer is one goroutine: initCommon, then confproc.  Its calls to   *)
(* the master (Atomic Append on #/conf, Set #/ctl) run on the master in    *)
(* the handler goroutine serving it, so they are steps of the same chain.  *)
(* The master publishes a new #/conf with Entry.SetLocked after releasing  *)
(* its lock and without holding the entry's lock: e.Version++ (a read and  *)
(* a write), e.Value = v and the broadcast are separate steps, and readers *)
(* may run between them.                                                   *)
(*                                                                         *)
(* A #/conf value is its list of lines (address, start, end); a routing    *)
(* table holds the same fields and whether the Range's conn is set.        *)
(***************************************************************************)
EXTENDS Integers, Sequences, SequencesExt

CONSTANTS
    Master,       \* the master's address
    Peers,        \* the servers that join
    MaxHash       \* math.MaxUint32, scaled down

ASSUME Master \notin Peers /\ MaxHash \in Nat \ {0}

Nodes == {Master} \cup Peers

VARIABLES
    srvmap,       \* srvmap[n]: the addresses node n's s.srvmap has a Conn for
    srvaddrs,     \* srvaddrs[n]: s.conf.srvaddrs
    routes,       \* routes[n]: s.routes, which shares its array with s.conf.routes
    cver,         \* the master's #/conf entry: e.Version
    cval,         \*   and e.Value
    pc,           \* pc[p]: where peer p's chain of calls is
    cs,           \* cs[p]: the confstr masterAddServer made for p's Append
    tmp,          \* tmp[p]: the e.Version that the increment for p's Append read
    got,          \* got[p]: the #/conf p last received, parsed, and its version
    smap,         \* smap[p]: updateConf's new srvmap
    idx,          \* idx[p]: updateConf's loop index
    pver          \* pver[p]: the version p's confproc waits past (its confver)

vars == <<srvmap, srvaddrs, routes, cver, cval, pc, cs, tmp, got, smap, idx, pver>>

-----------------------------------------------------------------------------
(* Ranges and the #/conf text: src/d2hop/conf.go and masterUpdateConf *)

\* masterUpdateConf: equal ranges in route order, the last one ending at
\* MaxUint32
MasterUpdateConfNoLast(rt) ==
    LET rsz == MaxHash \div Len(rt)
    IN  [i \in 1 .. Len(rt) |-> [rt[i] EXCEPT !.start = (i - 1) * rsz, !.end = i * rsz]]

MasterUpdateConf(rt) ==
    LET n == Len(rt)
        rsz == MaxHash \div n
    IN  [i \in 1 .. n |-> [rt[i] EXCEPT !.start = (i - 1) * rsz,
                                        !.end = IF i = n THEN MaxHash ELSE i * rsz]]

\* The lines of the confstr masterUpdateConf formats from the routes
ConfString(rt) == [i \in DOMAIN rt |-> [addr |-> rt[i].addr, start |-> rt[i].start, end |-> rt[i].end]]

\* parseConf's check: sorted by start, each range starts where the last
\* ended, and the last one reaches MaxUint32
Covers(rl) ==
    /\ \A i \in DOMAIN rl : rl[i].start = IF i = 1 THEN 0 ELSE rl[i - 1].end
    /\ (IF rl = <<>> THEN 0 ELSE rl[Len(rl)].end) >= MaxHash

NoConf == [ok |-> FALSE, srvaddrs |-> <<>>, routes |-> <<>>]

\* parseConf: the servers in line order, and the Ranges sorted by start
\* with no connection yet
ParseConf(val) ==
    LET rl == SortSeq(val, LAMBDA x, y : x.start < y.start)
    IN  IF Covers(rl)
        THEN [ok |-> TRUE,
              srvaddrs |-> [i \in DOMAIN val |-> val[i].addr],
              routes |-> [i \in DOMAIN rl |-> [addr |-> rl[i].addr, start |-> rl[i].start,
                                               end |-> rl[i].end, conn |-> FALSE]]]
        ELSE NoConf

\* RangeList.Search: the first range whose end is at least h; 0 where the
\* code panics
Search(rl, h) ==
    LET ok == {i \in DOMAIN rl : rl[i].end >= h}
    IN  IF ok = {} THEN 0 ELSE Min(ok)

\* D2Hop.ctl's route update: the ranges of addr get the connection
Connected(rt, addr) ==
    [i \in DOMAIN rt |-> IF rt[i].addr = addr THEN [rt[i] EXCEPT !.conn = TRUE] ELSE rt[i]]

-----------------------------------------------------------------------------

Init ==
    LET rt == MasterUpdateConf(<<[addr |-> Master, start |-> 0, end |-> 0, conn |-> TRUE]>>)
    IN  /\ srvmap = [n \in Nodes |-> {n}]
        /\ srvaddrs = [n \in Nodes |-> IF n = Master THEN <<Master>> ELSE <<>>]
        /\ routes = [n \in Nodes |-> IF n = Master THEN rt ELSE <<>>]
        /\ cver = 1
        /\ cval = ConfString(rt)
        /\ pc = [p \in Peers |-> "get_conf"]
        /\ cs = [p \in Peers |-> <<>>]
        /\ tmp = [p \in Peers |-> 0]
        /\ got = [p \in Peers |-> [ver |-> 0, conf |-> NoConf]]
        /\ smap = [p \in Peers |-> {}]
        /\ idx = [p \in Peers |-> 1]
        /\ pver = [p \in Peers |-> 0]

\* initCommon: Get("#/conf", Any) from the master, and parse it
GetConf(p) ==
    /\ pc[p] = "get_conf"
    /\ pc' = [pc EXCEPT ![p] = IF ParseConf(cval).ok THEN "m_add" ELSE "failed"]
    /\ UNCHANGED <<srvmap, srvaddrs, routes, cver, cval, cs, tmp, got, smap, idx, pver>>

\* ConfEntry.Atomic(Append) on the master: masterAddServer under s.Lock
MasterAdd(p) ==
    LET rt == MasterUpdateConf(Append(routes[Master],
                                      [addr |-> p, start |-> 0, end |-> 0, conn |-> FALSE]))
    IN  /\ pc[p] = "m_add"
        /\ routes' = [routes EXCEPT ![Master] = rt]
        /\ srvaddrs' = [srvaddrs EXCEPT ![Master] = Append(@, p)]
        /\ cs' = [cs EXCEPT ![p] = ConfString(rt)]
        /\ pc' = [pc EXCEPT ![p] = "m_inc_read"]
        /\ UNCHANGED <<srvmap, cver, cval, tmp, got, smap, idx, pver>>

\* SetLocked without the entry's lock: e.Version++ reads ...
IncRead(p) ==
    /\ pc[p] = "m_inc_read"
    /\ tmp' = [tmp EXCEPT ![p] = cver]
    /\ pc' = [pc EXCEPT ![p] = "m_inc_write"]
    /\ UNCHANGED <<srvmap, srvaddrs, routes, cver, cval, cs, got, smap, idx, pver>>

\* ... and writes back
IncWrite(p) ==
    /\ pc[p] = "m_inc_write"
    /\ cver' = tmp[p] + 1
    /\ pc' = [pc EXCEPT ![p] = "m_val"]
    /\ UNCHANGED <<srvmap, srvaddrs, routes, cval, cs, tmp, got, smap, idx, pver>>

\* e.Value = v
ValWrite(p) ==
    /\ pc[p] = "m_val"
    /\ cval' = cs[p]
    /\ pc' = [pc EXCEPT ![p] = "m_bcast"]
    /\ UNCHANGED <<srvmap, srvaddrs, routes, cver, cs, tmp, got, smap, idx, pver>>

\* e.Modified(): every Get registered on the entry's condition wakes up
Wake(self, next) ==
    [q \in Peers |-> CASE q = self        -> next
                       [] pc[q] = "g_wait" -> "g_check"
                       [] OTHER           -> pc[q]]

Broadcast(p) ==
    /\ pc[p] = "m_bcast"
    /\ pc' = Wake(p, "m_reply")
    /\ UNCHANGED <<srvmap, srvaddrs, routes, cver, cval, cs, tmp, got, smap, idx, pver>>

\* ConfEntry.Atomic returns e.Version and e.Value, KHop.Atomic broadcasts
\* again, and initCommon parses the value
Reply(p) ==
    /\ pc[p] = "m_reply"
    /\ got' = [got EXCEPT ![p] = [ver |-> cver, conf |-> ParseConf(cval)]]
    /\ pc' = Wake(p, IF ParseConf(cval).ok THEN "ctl_master" ELSE "failed")
    /\ UNCHANGED <<srvmap, srvaddrs, routes, cver, cval, cs, tmp, smap, idx, pver>>

\* Set("#/ctl", "server p") on the master (D2Hop.ctl), then initCommon
\* records its connection to the master
CtlMaster(p) ==
    /\ pc[p] = "ctl_master"
    /\ srvmap' = [srvmap EXCEPT ![Master] = @ \cup {p}, ![p] = @ \cup {Master}]
    /\ routes' = [routes EXCEPT ![Master] = Connected(@, p)]
    /\ idx' = [idx EXCEPT ![p] = 1]
    /\ smap' = [smap EXCEPT ![p] = {}]
    /\ pc' = [pc EXCEPT ![p] = "u_read"]
    /\ UNCHANGED <<srvaddrs, cver, cval, cs, tmp, got, pver>>

\* updateConf under s.RLock: the loop over the servers before p.  A server
\* p already has a Conn for is taken over ...
UpdateKnown(p) ==
    LET sa == got[p].conf.srvaddrs IN
    /\ pc[p] = "u_read"
    /\ idx[p] <= Len(sa) /\ sa[idx[p]] # p
    /\ sa[idx[p]] \in srvmap[p]
    /\ smap' = [smap EXCEPT ![p] = @ \cup {sa[idx[p]]}]
    /\ idx' = [idx EXCEPT ![p] = @ + 1]
    /\ UNCHANGED <<srvmap, srvaddrs, routes, cver, cval, pc, cs, tmp, got, pver>>

\* ... and to any other p connects and sends `server p` to its #/ctl,
\* still holding its own RLock; the other server's ctl takes that server's
\* s.Lock, so it waits while that server holds its RLock
UpdateConnect(p) ==
    LET sa == got[p].conf.srvaddrs
        q == sa[idx[p]]
    IN  /\ pc[p] = "u_read"
        /\ idx[p] <= Len(sa) /\ q # p
        /\ q \notin srvmap[p]
        /\ q \in Peers => pc[q] # "u_read"
        /\ srvmap' = [srvmap EXCEPT ![q] = @ \cup {p}]
        /\ routes' = [routes EXCEPT ![q] = Connected(@, p)]
        /\ smap' = [smap EXCEPT ![p] = @ \cup {q}]
        /\ idx' = [idx EXCEPT ![p] = @ + 1]
        /\ UNCHANGED <<srvaddrs, cver, cval, pc, cs, tmp, got, pver>>

\* The rest of the RLock region: servers after p are taken only if they
\* have already registered with p, and each Range gets its server's Conn
\* (its own: selfconn)
ReadRest(p) ==
    LET sa == got[p].conf.srvaddrs
        later == {sa[j] : j \in idx[p] + 1 .. Len(sa)}
        sm == smap[p] \cup (later \cap srvmap[p])
        rt == got[p].conf.routes
    IN  /\ smap' = [smap EXCEPT ![p] = sm]
        /\ got' = [got EXCEPT ![p].conf.routes =
                     [i \in DOMAIN rt |-> [rt[i] EXCEPT !.conn = rt[i].addr \in sm \cup {p}]]]
        /\ pc' = [pc EXCEPT ![p] = "u_write"]
        /\ UNCHANGED <<srvmap, srvaddrs, routes, cver, cval, cs, tmp, idx, pver>>

UpdateRestAll(p) ==
    LET sa == got[p].conf.srvaddrs IN
    /\ pc[p] = "u_read"
    /\ \/ /\ idx[p] <= Len(sa) /\ sa[idx[p]] = p
          /\ idx' = [idx EXCEPT ![p] = @ + 1]
          /\ UNCHANGED <<srvmap, srvaddrs, routes, cver, cval, pc, cs, tmp, got, smap, pver>>
       \/ idx[p] > Len(sa) /\ ReadRest(p)

UpdateRest(p) ==
    LET sa == got[p].conf.srvaddrs IN
    /\ pc[p] = "u_read"
    /\ IF idx[p] > Len(sa) THEN TRUE ELSE sa[idx[p]] = p
    /\ ReadRest(p)

\* updateConf under s.Lock: the new conf, srvmap and routes replace the old
\* ones; then SetEntry on p's own #/conf and (back) in confproc
UpdateWrite(p) ==
    /\ pc[p] = "u_write"
    /\ srvaddrs' = [srvaddrs EXCEPT ![p] = got[p].conf.srvaddrs]
    /\ routes' = [routes EXCEPT ![p] = got[p].conf.routes]
    /\ srvmap' = [srvmap EXCEPT ![p] = smap[p]]
    /\ pver' = [pver EXCEPT ![p] = got[p].ver]
    /\ pc' = [pc EXCEPT ![p] = "g_check"]
    /\ UNCHANGED <<cver, cval, cs, tmp, got, smap, idx>>

\* confproc's Get("#/conf", version + 1) on the master: KHop.Get's loop
\* test, and once the version is there ConfEntry.Get's e.Version, e.Value;
\* then readUpdateConf parses it and calls updateConf
GetCheck(p) ==
    /\ pc[p] = "g_check"
    /\ IF cver >= pver[p] + 1
       THEN /\ got' = [got EXCEPT ![p] = [ver |-> cver, conf |-> ParseConf(cval)]]
            /\ pc' = [pc EXCEPT ![p] = IF ParseConf(cval).ok THEN "u_read" ELSE "failed"]
            /\ idx' = [idx EXCEPT ![p] = 1]
            /\ smap' = [smap EXCEPT ![p] = {}]
       ELSE /\ pc' = [pc EXCEPT ![p] = "g_reg"]
            /\ UNCHANGED <<got, idx, smap>>
    /\ UNCHANGED <<srvmap, srvaddrs, routes, cver, cval, cs, tmp, pver>>

\* e.Wait(): the Get joins the condition's waiters
GetWait(p) ==
    /\ pc[p] = "g_reg"
    /\ pc' = [pc EXCEPT ![p] = "g_wait"]
    /\ UNCHANGED <<srvmap, srvaddrs, routes, cver, cval, cs, tmp, got, smap, idx, pver>>

Step(p) ==
    \/ GetConf(p) \/ MasterAdd(p) \/ IncRead(p) \/ IncWrite(p) \/ ValWrite(p)
    \/ Broadcast(p) \/ Reply(p) \/ CtlMaster(p)
    \/ UpdateKnown(p) \/ UpdateConnect(p) \/ UpdateRest(p) \/ UpdateWrite(p)
    \/ GetCheck(p) \/ GetWait(p)

Next == \E p \in Peers : Step(p)

\* Go runs every runnable goroutine; a Get blocked in e.Wait() is not
\* runnable
Spec == Init /\ [][Next]_vars /\ \A p \in Peers : WF_vars(Step(p))

-----------------------------------------------------------------------------

\* Whatever the interleaving of joins, every value the master publishes in
\* #/conf is one parseConf accepts (its ranges cover 0 .. MaxUint32 with no
\* gap), and RangeList.Search finds a range for every hash instead of
\* panicking (spec 8, invariant 6; masterUpdateConf, parseConf, Search).
PublishedConfParses ==
    LET c == ParseConf(cval)
    IN  c.ok /\ \A h \in 0 .. MaxHash : Search(c.routes, h) # 0

\* Every server that joins gets through initCommon's updateConf and into
\* confproc: the `server <addr>` calls made while holding the RLock never
\* wait on each other, because updateConf only calls servers listed before
\* itself (srv.go, the comment in updateConf).
JoinsComplete == \A p \in Peers : <>(pc[p] \in {"g_check", "g_reg", "g_wait"})

\* Once the joins are over, every node routes each hash to the server the
\* master's configuration gives it, over a connection: the routing tables
\* of all nodes end up equal to the master's, with every Range's conn set
\* (spec 7: a peer that observes #/conf version w has the membership at w;
\* confproc's long poll, updateConf and the #/ctl registrations).
Converged ==
    \A n \in Nodes : /\ ConfString(routes[n]) = ConfString(routes[Master])
                     /\ \A i \in DOMAIN routes[n] : routes[n][i].conn

RoutesConverge == <>[]Converged

====
