------------------------------ MODULE RpcClient ------------------------------
(***************************************************************************)
(* The Hop RPC client of src/rmt/hopclnt/clnt.go over the TCP transport of *)
(* src/rmt/netconn.go.                                                     *)
(*                                                                         *)
(* Caller goroutines make Rpc calls: ReqAlloc takes a Req (from the        *)
(* reqchan cache, or a new one with a tag from the tag pool), Rpcnb links  *)
(* it at the end of the client's pending list under clnt's mutex and sends *)
(* the request, and the caller blocks on <-r.Done.  The connection's recv  *)
(* goroutine calls Incoming for every response, which unlinks the Req with *)
(* the response's tag and hands it back on r.Done, and ConnError once the  *)
(* connection has failed, which detaches the whole list and hands every    *)
(* Req on it back with the error.  r.Done is unbuffered: a hand-off is one *)
(* step of both goroutines, and waits until the caller is in <-r.Done.     *)
(*                                                                         *)
(* A Req is a number in 1 .. MaxReqs (0 is nil); a request on the wire is  *)
(* its tag and the call it belongs to: the caller and the number of that   *)
(* caller's Rpc.  The server answers every request, in any order, with the *)
(* matching response or with Rerror.                                       *)
(***************************************************************************)
EXTENDS Integers, Sequences, FiniteSets

CONSTANTS
    Callers,      \* the goroutines calling Rpc
    MaxCalls,     \* the Rpc calls each caller makes
    MaxReqs,      \* the Req objects new(Req) may create
    ReqChanCap    \* the capacity of clnt.reqchan (16 in NewClient)

Nil == 0
ReqIds == 1 .. MaxReqs

\* The tag pool hands out the tags 1 .. MaxReqs, enough that getId never
\* has to wait
Tags == 1 .. MaxReqs

NoRc == [call |-> <<>>, ok |-> FALSE]

\* A Req as ReqFree leaves it; tag is given by ReqAlloc
FreeReq(t) == [tag |-> t, next |-> Nil, prev |-> Nil, rc |-> NoRc, err |-> "nil", done |-> FALSE]

VARIABLES
    cpc,          \* cpc[c]: where caller c is in Rpc
    creq,         \* creq[c]: the Req of caller c's current Rpc
    ncall,        \* ncall[c]: the Rpc calls caller c has begun
    req,          \* req[r]: the fields of Req r
    made,         \* the Reqs new(Req) has created
    reqfirst,     \* clnt.reqfirst
    reqlast,      \* clnt.reqlast
    cerr,         \* clnt.err
    freetags,     \* the tags the tag pool can hand out
    reqchan,      \* clnt.reqchan, the Reqs cached for reuse
    wire,         \* the requests sent and not yet answered
    broken,       \* the socket is closed or has failed
    rpc,          \* rpc.pc: where the recv goroutine is; rpc.r: its Req r
    rerr          \* the err ConnError was called with

rpcvars == <<cpc, creq, ncall, req, made, reqfirst, reqlast, cerr, freetags,
             reqchan, wire, broken, rpc, rerr>>

RpcInit ==
    /\ cpc = [c \in Callers |-> "idle"]
    /\ creq = [c \in Callers |-> Nil]
    /\ ncall = [c \in Callers |-> 0]
    /\ req = [r \in ReqIds |-> FreeReq(0)]
    /\ made = {}
    /\ reqfirst = Nil /\ reqlast = Nil
    /\ cerr = "nil"
    /\ freetags = Tags
    /\ reqchan = <<>>
    /\ wire = {}
    /\ broken = FALSE
    /\ rpc = [pc |-> "idle", r |-> Nil]
    /\ rerr = "nil"

\* The caller whose Rpc owns Req r
Owner(r) == CHOOSE c \in Callers : creq[c] = r /\ cpc[c] # "idle"

\* The caller of Req r is blocked in <-r.Done
Waiting(r) == \E c \in Callers : creq[c] = r /\ cpc[c] = "wait"

-----------------------------------------------------------------------------
(* The tag pool (its source is not part of the repository; spec 11:    *)
(* a tag pool with a bitmap per client)                                 *)

\* pool.getId: the lowest free tag
GetId == CHOOSE t \in freetags : \A u \in freetags : t <= u

-----------------------------------------------------------------------------
(* Caller goroutines *)

ReqAllocNoDone(c) ==
    /\ cpc[c] = "idle" /\ ncall[c] < MaxCalls
    /\ IF reqchan # <<>>
       THEN /\ creq' = [creq EXCEPT ![c] = Head(reqchan)]
            /\ req' = [req EXCEPT ![Head(reqchan)].done = TRUE]
            /\ reqchan' = Tail(reqchan)
            /\ UNCHANGED <<made, freetags>>
       ELSE LET r == CHOOSE x \in ReqIds \ made : \A y \in ReqIds \ made : x <= y
            IN  /\ made # ReqIds /\ freetags # {}
                /\ creq' = [creq EXCEPT ![c] = r]
                /\ req' = [req EXCEPT ![r] = FreeReq(GetId)]
                /\ made' = made \cup {r}
                /\ freetags' = freetags \ {GetId}
                /\ UNCHANGED reqchan
    /\ cpc' = [cpc EXCEPT ![c] = "rpcnb"]
    /\ ncall' = [ncall EXCEPT ![c] = @ + 1]
    /\ UNCHANGED <<reqfirst, reqlast, cerr, wire, broken, rpc, rerr>>

\* ReqAlloc whose getId hands out a tag without taking it from the pool
ReqAllocKeepTag(c) ==
    /\ cpc[c] = "idle" /\ ncall[c] < MaxCalls
    /\ IF reqchan # <<>>
       THEN /\ creq' = [creq EXCEPT ![c] = Head(reqchan)]
            /\ req' = [req EXCEPT ![Head(reqchan)].done = TRUE]
            /\ reqchan' = Tail(reqchan)
            /\ UNCHANGED <<made, freetags>>
       ELSE LET r == CHOOSE x \in ReqIds \ made : \A y \in ReqIds \ made : x <= y
            IN  /\ made # ReqIds /\ freetags # {}
                /\ creq' = [creq EXCEPT ![c] = r]
                /\ req' = [req EXCEPT ![r] = [FreeReq(GetId) EXCEPT !.done = TRUE]]
                /\ made' = made \cup {r}
                /\ UNCHANGED <<freetags, reqchan>>
    /\ cpc' = [cpc EXCEPT ![c] = "rpcnb"]
    /\ ncall' = [ncall EXCEPT ![c] = @ + 1]
    /\ UNCHANGED <<reqfirst, reqlast, cerr, wire, broken, rpc, rerr>>

\* Rpc's clnt.ReqAlloc(): a Req from reqchan, or a new Req with a fresh
\* tag; req.Done = req.donechan
ReqAlloc(c) ==
    /\ cpc[c] = "idle" /\ ncall[c] < MaxCalls
    /\ IF reqchan # <<>>
       THEN /\ creq' = [creq EXCEPT ![c] = Head(reqchan)]
            /\ req' = [req EXCEPT ![Head(reqchan)].done = TRUE]
            /\ reqchan' = Tail(reqchan)
            /\ UNCHANGED <<made, freetags>>
       ELSE LET r == CHOOSE x \in ReqIds \ made : \A y \in ReqIds \ made : x <= y
            IN  /\ made # ReqIds /\ freetags # {}
                /\ creq' = [creq EXCEPT ![c] = r]
                /\ req' = [req EXCEPT ![r] = [FreeReq(GetId) EXCEPT !.done = TRUE]]
                /\ made' = made \cup {r}
                /\ freetags' = freetags \ {GetId}
                /\ UNCHANGED reqchan
    /\ cpc' = [cpc EXCEPT ![c] = "rpcnb"]
    /\ ncall' = [ncall EXCEPT ![c] = @ + 1]
    /\ UNCHANGED <<reqfirst, reqlast, cerr, wire, broken, rpc, rerr>>

\* The value of clnt.err Rpcnb reads under clnt's mutex.  ConnError writes
\* clnt.err before it takes the mutex: a read in between races with that
\* write and may see either value.
ErrSeen == IF rpc.pc = "detach" THEN {"nil", cerr} ELSE {cerr}

\* Rpcnb's critical section: return clnt.err, or link r at the end of the
\* pending list.  Rpc returns the error at once, without ReqFree.
Rpcnb(c) ==
    LET r == creq[c]
    IN  /\ cpc[c] = "rpcnb"
        /\ \E seen \in ErrSeen :
             IF seen # "nil"
             THEN /\ cpc' = [cpc EXCEPT ![c] = "idle"]
                  /\ UNCHANGED <<req, reqfirst, reqlast>>
             ELSE /\ req' = IF reqlast # Nil
                            THEN [req EXCEPT ![reqlast].next = r, ![r].prev = reqlast]
                            ELSE [req EXCEPT ![r].prev = reqlast]
                  /\ reqfirst' = IF reqlast # Nil THEN reqfirst ELSE r
                  /\ reqlast' = r
                  /\ cpc' = [cpc EXCEPT ![c] = "send"]
        /\ UNCHANGED <<creq, ncall, made, cerr, freetags, reqchan, wire, broken, rpc, rerr>>

\* Rpcnb's clnt.conn.Send(tc): the send goroutine takes the message off
\* msgout and writes it; on a closed socket the write fails and the
\* message is dropped.  The caller then blocks in <-r.Done.
Send(c) ==
    /\ cpc[c] = "send"
    /\ wire' = IF broken THEN wire
               ELSE wire \cup {[tag |-> req[creq[c]].tag, call |-> <<c, ncall[c]>>]}
    /\ cpc' = [cpc EXCEPT ![c] = "wait"]
    /\ UNCHANGED <<creq, ncall, req, made, reqfirst, reqlast, cerr, freetags, reqchan,
                   broken, rpc, rerr>>

ReqFreeTagBack(c) ==
    LET r == creq[c]
    IN  /\ cpc[c] = "woken"
        /\ req' = [req EXCEPT ![r] = FreeReq(req[r].tag)]
        /\ reqchan' = IF Len(reqchan) < ReqChanCap THEN Append(reqchan, r) ELSE reqchan
        /\ freetags' = freetags \cup {req[r].tag}
        /\ cpc' = [cpc EXCEPT ![c] = "idle"]
        /\ UNCHANGED <<creq, ncall, made, reqfirst, reqlast, cerr, wire, broken, rpc, rerr>>

\* Rpc after <-r.Done: take r.Rc and r.Err, then clnt.ReqFree(r): clear
\* Done, Err, next and prev, and cache r in reqchan, or give its tag back
\* to the pool when reqchan is full
ReqFree(c) ==
    LET r == creq[c]
    IN  /\ cpc[c] = "woken"
        /\ req' = [req EXCEPT ![r] = FreeReq(req[r].tag)]
        /\ IF Len(reqchan) < ReqChanCap
           THEN reqchan' = Append(reqchan, r) /\ UNCHANGED freetags
           ELSE freetags' = freetags \cup {req[r].tag} /\ UNCHANGED reqchan
        /\ cpc' = [cpc EXCEPT ![c] = "idle"]
        /\ UNCHANGED <<creq, ncall, made, reqfirst, reqlast, cerr, wire, broken, rpc, rerr>>

\* Clnt.Close, or the network failing: the socket is closed
Close ==
    /\ ~broken
    /\ broken' = TRUE
    /\ UNCHANGED <<cpc, creq, ncall, req, made, reqfirst, reqlast, cerr, freetags,
                   reqchan, wire, rpc, rerr>>

-----------------------------------------------------------------------------
(* The recv goroutine: Incoming and ConnError *)

\* Incoming's unlinking of r: its neighbours point past it (the ends of
\* the list are clnt.reqfirst and clnt.reqlast)
Unlink(f, r) ==
    LET p == f[r].prev
        n == f[r].next
        f1 == IF p = Nil THEN f ELSE [f EXCEPT ![p].next = n]
    IN  IF n = Nil THEN f1 ELSE [f1 EXCEPT ![n].prev = p]

\* Incoming's loop: the first Req on the list from r on with the tag
RECURSIVE FindTag(_, _, _)
FindTag(r, t, n) ==
    IF r = Nil \/ n = 0 THEN Nil
    ELSE IF req[r].tag = t THEN r ELSE FindTag(req[r].next, t, n - 1)

IncomingKeepLast(m, ok) ==
    LET r == FindTag(reqfirst, m.tag, MaxReqs)
        p == req[r].prev
        n == req[r].next
    IN  /\ rpc.pc = "idle" /\ m \in wire
        /\ wire' = wire \ {m}
        /\ IF r = Nil
           THEN /\ cerr' = "unexpected" /\ broken' = TRUE
                /\ UNCHANGED <<req, reqfirst, reqlast, rpc>>
           ELSE /\ req' = Unlink([req EXCEPT ![r].rc = [call |-> m.call, ok |-> ok],
                                             ![r].err = IF ok THEN "nil" ELSE "Rerror"], r)
                /\ reqfirst' = IF p = Nil THEN n ELSE reqfirst
                /\ reqlast' = reqlast
                /\ rpc' = [pc |-> "notify", r |-> r]
                /\ UNCHANGED <<cerr, broken>>
        /\ UNCHANGED <<cpc, creq, ncall, made, freetags, reqchan, rerr>>

\* recv unpacks response m (the server answered the request with the
\* tag, or replied Rerror) and calls Incoming: under clnt's mutex, find
\* the Req with m's tag and unlink it; with none, set clnt.err and close
\* the connection.  Then set r.Err for an Rerror reply.
Incoming(m, ok) ==
    LET r == FindTag(reqfirst, m.tag, MaxReqs)
        p == req[r].prev
        n == req[r].next
    IN  /\ rpc.pc = "idle" /\ m \in wire
        /\ wire' = wire \ {m}
        /\ IF r = Nil
           THEN /\ cerr' = "unexpected" /\ broken' = TRUE
                /\ UNCHANGED <<req, reqfirst, reqlast, rpc>>
           ELSE /\ req' = Unlink([req EXCEPT ![r].rc = [call |-> m.call, ok |-> ok],
                                             ![r].err = IF ok THEN "nil" ELSE "Rerror"], r)
                /\ reqfirst' = IF p = Nil THEN n ELSE reqfirst
                /\ reqlast' = IF n = Nil THEN p ELSE reqlast
                /\ rpc' = [pc |-> "notify", r |-> r]
                /\ UNCHANGED <<cerr, broken>>
        /\ UNCHANGED <<cpc, creq, ncall, made, freetags, reqchan, rerr>>

\* Incoming's `r.Done <- r`: wait for the caller in <-r.Done and wake it
IncomingNotify ==
    /\ rpc.pc = "notify"
    /\ req[rpc.r].done => Waiting(rpc.r)
    /\ cpc' = IF req[rpc.r].done THEN [cpc EXCEPT ![Owner(rpc.r)] = "woken"] ELSE cpc
    /\ rpc' = [pc |-> "idle", r |-> Nil]
    /\ UNCHANGED <<creq, ncall, req, made, reqfirst, reqlast, cerr, freetags, reqchan,
                   wire, broken, rerr>>

\* recv's Read fails on the closed socket: it calls ConnError(err), whose
\* first statement sets clnt.err, outside clnt's mutex
ConnErrorSet ==
    /\ rpc.pc = "idle" /\ broken
    /\ cerr' = "closed" /\ rerr' = "closed"
    /\ rpc' = [rpc EXCEPT !.pc = "detach"]
    /\ UNCHANGED <<cpc, creq, ncall, req, made, reqfirst, reqlast, freetags, reqchan,
                   wire, broken>>

\* ConnError under clnt's mutex: take the pending list and empty it
\* (tagpool.close() is not modelled)
ConnErrorDetach ==
    /\ rpc.pc = "detach"
    /\ rpc' = [pc |-> "notifyall", r |-> reqfirst]
    /\ reqfirst' = Nil /\ reqlast' = Nil
    /\ UNCHANGED <<cpc, creq, ncall, req, made, cerr, freetags, reqchan, wire, broken, rerr>>

\* ConnError's loop body: r.Err = err, and `r.Done <- r` when Done is
\* set; at r = nil the loop ends, and recv then blocks for ever on
\* `conn.done <- true` (conn.done is never made)
ConnErrorNotify ==
    LET r == rpc.r
    IN  /\ rpc.pc = "notifyall"
        /\ IF r = Nil
           THEN /\ rpc' = [rpc EXCEPT !.pc = "done"]
                /\ UNCHANGED <<cpc, req>>
           ELSE /\ req[r].done => Waiting(r)
                /\ req' = [req EXCEPT ![r].err = rerr]
                /\ cpc' = IF req[r].done THEN [cpc EXCEPT ![Owner(r)] = "woken"] ELSE cpc
                /\ rpc' = [rpc EXCEPT !.pc = "advance"]
        /\ UNCHANGED <<creq, ncall, made, reqfirst, reqlast, cerr, freetags, reqchan,
                       wire, broken, rerr>>

\* The loop's `r = r.next`, read after the hand-off: the woken Rpc may
\* already have cleared it in ReqFree
ConnErrorAdvance ==
    /\ rpc.pc = "advance"
    /\ rpc' = [pc |-> "notifyall", r |-> req[rpc.r].next]
    /\ UNCHANGED <<cpc, creq, ncall, req, made, reqfirst, reqlast, cerr, freetags,
                   reqchan, wire, broken, rerr>>

-----------------------------------------------------------------------------

Responses == [tag : Tags, call : Callers \X (1 .. MaxCalls)]

CallerStep(c) == ReqAlloc(c) \/ Rpcnb(c) \/ Send(c) \/ ReqFree(c)

RecvStep ==
    \/ \E m \in wire, ok \in BOOLEAN : Incoming(m, ok)
    \/ IncomingNotify
    \/ ConnErrorSet \/ ConnErrorDetach \/ ConnErrorNotify \/ ConnErrorAdvance

RpcNext == (\E c \in Callers : CallerStep(c)) \/ RecvStep \/ Close

\* Go runs every runnable goroutine, and the server answers every
\* request it receives; nothing forces the connection to fail
RpcFairness == (\A c \in Callers : WF_rpcvars(CallerStep(c))) /\ WF_rpcvars(RecvStep)

RpcSpec == RpcInit /\ [][RpcNext]_rpcvars /\ RpcFairness

-----------------------------------------------------------------------------


\* The Reqs in use: cached in reqchan, or held by a call in progress
InUse == {reqchan[i] : i \in DOMAIN reqchan} \cup {creq[c] : c \in {d \in Callers : cpc[d] # "idle"}}

\* No two Reqs in use share a tag, however Reqs are recycled: ReqAlloc
\* takes a cached Req with its old tag or a new one with a tag from the
\* pool, and ReqFree either caches the Req or returns its tag, never both
\* (clnt.go ReqAlloc, ReqFree).  Incoming matches responses by tag alone.
TagsUnique == \A r1, r2 \in InUse : r1 # r2 => req[r1].tag # req[r2].tag

\* The Reqs on clnt's list, from reqfirst along next (cut after MaxReqs + 1
\* links, so that a cycle shows as a list too long)
RECURSIVE ListFrom(_, _)
ListFrom(r, n) == IF r = Nil \/ n = 0 THEN <<>> ELSE <<r>> \o ListFrom(req[r].next, n - 1)

Linked == ListFrom(reqfirst, MaxReqs + 1)

\* The Reqs of the calls past Rpcnb's critical section and not yet
\* answered: the caller sends or waits, and Incoming has not unlinked it
Pending == {creq[c] : c \in {d \in Callers : cpc[d] \in {"send", "wait"}}} \ {rpc.r}

\* Whatever the interleaving of Rpcnb's appends and Incoming's removals,
\* clnt's pending list is a well-formed doubly linked list, with reqlast
\* at its end, holding exactly the Reqs of the calls waiting for an
\* answer; once ConnError has detached it, it stays empty (clnt.go
\* Rpcnb, Incoming, ConnError).
ListIsPending ==
    /\ Len(Linked) <= MaxReqs
    /\ reqlast = IF Linked = <<>> THEN Nil ELSE Linked[Len(Linked)]
    /\ \A i \in DOMAIN Linked : req[Linked[i]].prev = IF i = 1 THEN Nil ELSE Linked[i - 1]
    /\ {Linked[i] : i \in DOMAIN Linked} =
           IF rpc.pc \in {"idle", "notify", "detach"} THEN Pending ELSE {}

\* A caller woken with a response gets the response to its own current
\* call, never one meant for another call: the tags of the Reqs in use
\* are distinct, though a Req and its tag are reused through reqchan and
\* the tag pool (Incoming's tag match, ReqAlloc, ReqFree).
RcToItsCaller ==
    \A c \in Callers :
        cpc[c] = "woken" /\ req[creq[c]].rc # NoRc => req[creq[c]].rc.call = <<c, ncall[c]>>

\* Every Rpc blocked in <-r.Done returns, or the connection has failed:
\* while the connection holds, Incoming hands every response to its caller
\* (Rpc, Incoming, ReqAlloc's Done).
RpcReturnsWhileConnected ==
    \A c \in Callers : cpc[c] = "wait" ~> (cpc[c] = "idle" \/ broken)

\* Every Rpc blocked in <-r.Done returns, also when the connection fails:
\* ConnError hands every Req of the detached list back with the error
\* (spec: a failed connection fails all its pending requests).
RpcReturns ==
    \A c \in Callers : cpc[c] = "wait" ~> cpc[c] = "idle"

====
