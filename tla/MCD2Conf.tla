------------------------------ MODULE MCD2Conf ------------------------------
(***************************************************************************)
(* A master and two servers joining it, with hashes of 3 bits; in the     *)
(* second mode, the RPC client D2 servers reach each other through: two    *)
(* caller goroutines making two Rpc calls each on one connection; in the   *)
(* third, a Chord ring of two servers, the first one and one joining it,   *)
(* with IDs of 3 bits, either of which may die; in the fourth, the Kyoto  *)
(* Cabinet store KCStore with two client threads, one client key beside   *)
(* "#/keys" and two values.  The mode is chosen in the initial state and  *)
(* the other components stay in their initial states, so one run checks   *)
(* them all.                                                               *)
(***************************************************************************)
EXTENDS D2Conf, RpcClient, Chord, TLC

CONSTANTS m, a, b, c1, c2, k1, v1, v2, knil

MCPeers == {a, b}
MCCallers == {c1, c2}
MCChNodes == {a, b}
\* The hashes of a's and b's addresses: b joins with a as its successor,
\* i0 = log2(1 - 5 mod 8) = 2, so join fills finger 2 and leaves finger 1
\* to fixFinger
MCChId == (a :> 1) @@ (b :> 5)

\* The KCHop calls: Create of a missing and of a present key, with a nil
\* value and of "#/keys"; Remove; Gets that wait for version 2 or the next
\* version of k1, and for the next version of "#/keys"; Set; a TestSet on
\* the value alone and one on version 1 alone (oldversion 0 and a nil
\* oldvalue is Set); Atomic.  Versions wrap after 6,
\* beyond what four calls reach.
MCKCCalls ==
       [kind : {"create"}, key : {k1, "#/keys"}, val : {v1, knil}]
  \cup [kind : {"remove"}, key : {k1}]
  \cup [kind : {"get"}, key : {k1}, ver : {2, 6 + 3}]
  \cup [kind : {"get"}, key : {"#/keys"}, ver : {6 + 3}]
  \cup [kind : {"set"}, key : {k1}, val : {v2}]
  \cup {[kind |-> "testset", key |-> k1, ver |-> 0, old |-> v1, val |-> v2],
         [kind |-> "testset", key |-> k1, ver |-> 1, old |-> knil, val |-> v2]}
  \cup [kind : {"atomic"}, key : {k1}]

VARIABLES mode, kdb, kentries, kversion, kvalue, kmaxver, kwriter, kreaders,
          kpc, kreq, ke, ktarget, kbump, kret, knops, kinstalled

\* Two entries: a waiter's, and one made after Remove or Create orphaned it
KC == INSTANCE KCStore WITH Threads <- MCCallers, Keys <- {k1}, Vals <- {v1, v2},
                            Nil <- knil, KEnts <- 1 .. 2, Highest <- 6, MaxOps <- 2,
                            KCCalls <- MCKCCalls

kcvars == <<kdb, kentries, kversion, kvalue, kmaxver, kwriter, kreaders, kpc,
            kreq, ke, ktarget, kbump, kret, knops, kinstalled>>

allvars == <<mode, vars, rpcvars, chvars, kcvars>>

D2Step(p) == mode = "d2" /\ Step(p) /\ UNCHANGED <<mode, rpcvars, chvars, kcvars>>

RpcCallerStep(c) == mode = "rpc" /\ CallerStep(c) /\ UNCHANGED <<mode, vars, chvars, kcvars>>

RpcRecvStep == mode = "rpc" /\ RecvStep /\ UNCHANGED <<mode, vars, chvars, kcvars>>

ChordStep(n) == mode = "chord" /\ ChStep(n) /\ UNCHANGED <<mode, vars, rpcvars, kcvars>>

ChordDetect(n) == mode = "chord" /\ Detect(n) /\ UNCHANGED <<mode, vars, rpcvars, kcvars>>

ChordCrash(n) == mode = "chord" /\ Crash(n) /\ UNCHANGED <<mode, vars, rpcvars, kcvars>>

KCCallStep(t) == mode = "kc" /\ KC!KCCall(t) /\ UNCHANGED <<mode, vars, rpcvars, chvars>>

KCStep(t) == mode = "kc" /\ KC!KCRun(t) /\ UNCHANGED <<mode, vars, rpcvars, chvars>>

MCInit == mode \in {"d2", "rpc", "chord", "kc"} /\ Init /\ RpcInit /\ ChInit /\ KC!KCInit

MCNext ==
    \/ \E p \in Peers : D2Step(p)
    \/ \E c \in Callers : RpcCallerStep(c)
    \/ RpcRecvStep
    \/ mode = "rpc" /\ Close /\ UNCHANGED <<mode, vars, chvars, kcvars>>
    \/ \E n \in ChNodes : ChordStep(n) \/ ChordDetect(n) \/ ChordCrash(n)
    \/ \E t \in MCCallers : KCCallStep(t) \/ KCStep(t)

\* Spec's, RpcSpec's, ChSpec's and KCSpec's fairness, each in its own mode
MCSpec ==
    /\ MCInit /\ [][MCNext]_allvars
    /\ \A p \in Peers : WF_allvars(D2Step(p))
    /\ \A c \in Callers : WF_allvars(RpcCallerStep(c))
    /\ WF_allvars(RpcRecvStep)
    /\ \A n \in ChNodes : WF_allvars(ChordStep(n)) /\ WF_allvars(ChordDetect(n))
    /\ \A t \in MCCallers : WF_allvars(KCStep(t))

\* The servers joining alone, and the RPC client alone
D2Spec == MCSpec /\ mode = "d2"
RpcClientSpec == MCSpec /\ mode = "rpc"
ChordSpec == MCSpec /\ mode = "chord"

\* JoinsComplete, of the runs where the servers join
D2JoinsComplete == mode = "d2" => JoinsComplete

\* RingStabilizes, of the runs where the Chord servers join (mode never
\* changes) and no server dies: join and stabilizeproc's passes bring
\* every server to route every key to its owner, for good
ChordStabilizes == <>[](mode = "chord" /\ Live = ChNodes => ChStable)

\* After a server dies, the survivors' stabilizeproc, woken by its timer,
\* drops it and again routes every key to a live owner (spec 7 and 8.5:
\* the ring heals while a peer is reachable)
ChordHeals == <>[](mode = "chord" => ChStable)
\* KCStore's properties, of the runs where the Kyoto Cabinet store serves
\* (each holds in the other modes, where KCStore stays in its initial state)
KCTypeOK == KC!KCTypeOK
KCGetReturnsInstalled == KC!KCGetReturnsInstalled
KCNoLeak == KC!KCNoLeak
====
