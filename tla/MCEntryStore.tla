--------------------------- MODULE MCEntryStore ---------------------------
(***************************************************************************)
(* Instantiation of EntryStore and LDStore for TLC.  The store is chosen   *)
(* in the initial state, KHop/SHop ("khop") or LDHop ("ld"), and the other *)
(* keeps its initial state, so one run checks both.                        *)
(***************************************************************************)
EXTENDS LDStore

CONSTANTS t1, t2, k1, v1, v2

MCThreads2 == {t1, t2}
MCKeys == {k1}
MCVals == {v1, v2}
\* Every Entry a run can hold at once: one per key in the map, one per
\* thread local, one replaced placeholder per thread.
MCEnts == 1 .. 5

\* Get arguments: every sentinel and a version that must be waited for.
\* TestSet arguments: a real version (match or mismatch) and an invalid one;
\* oldversion Any is what Set does.
MCGetVersions == {Any, Newest, PastNewest, Lowest + 1}
MCOldVersions == {Lowest, Newest}

\* LDHop's calls: every early return of Get (Any; a version to wait for;
\* PastNewest), Set, TestSet matching on the version or failing on the
\* value, and an invalid version (Newest).
MCLDCalls ==
    {[kind |-> "create", key |-> k1, val |-> v1],
     [kind |-> "remove", key |-> k1],
     [kind |-> "get", key |-> k1, ver |-> Lowest + 1],
     [kind |-> "get", key |-> k1, ver |-> PastNewest],
     [kind |-> "set", key |-> k1, val |-> v1],
     [kind |-> "testset", key |-> k1, ver |-> Lowest, old |-> Nil, val |-> v2],
     [kind |-> "testset", key |-> k1, ver |-> Newest, old |-> v1, val |-> v2],
     [kind |-> "atomic", key |-> k1, out |-> v1]}

VARIABLE mode

allvars == <<mode, vars, ldvars>>

KCall(t) == mode = "khop" /\ ~panicked /\ Call(t) /\ UNCHANGED <<mode, ldvars>>
KRun(t) == mode = "khop" /\ ~panicked /\ Run(t) /\ UNCHANGED <<mode, ldvars>>
LDCallStep(t) == mode = "ld" /\ LDCall(t) /\ UNCHANGED <<mode, vars>>
LDRunStep(t) == mode = "ld" /\ LDRun(t) /\ UNCHANGED <<mode, vars>>

MCInit == mode \in {"khop", "ld"} /\ Init /\ LDInit

MCNext == \E t \in Threads : KCall(t) \/ KRun(t) \/ LDCallStep(t) \/ LDRunStep(t)

\* Fairness and LDFairness, each in its own mode
MCSpec ==
    MCInit /\ [][MCNext]_allvars
    /\ \A t \in Threads : WF_allvars(KRun(t)) /\ WF_allvars(LDRunStep(t))

\* KHop alone, and LDHop alone
KSpec == MCSpec /\ mode = "khop"
LDHopSpec == MCSpec /\ mode = "ld"


\* The state up to what no step reads again: free Entry objects and the
\* stale locals of idle threads.
MCView ==
    <<entries,
      [x \in Ents |-> IF x \in Referenced THEN <<version[x], value[x], ops[x]>> ELSE 0],
      keysVersion, pc, req, e, oe,
      [t \in Threads |-> IF pc[t] = "idle" THEN 0 ELSE oldver[t]],
      [t \in Threads |-> IF pc[t] = "idle" THEN 0 ELSE target[t]],
      ret, nops, panicked>>

\* LDStore's state up to what no step reads again: free entries, and the
\* locals of threads past the steps that use them
LDView ==
    <<db, ldentries,
      [x \in Ents |-> IF x \in LDReferenced
                      THEN <<ldversion[x], ldvalue[x], maxver[x], writer[x], readers[x]>>
                      ELSE 0],
      ldpc, ldreq, lde,
      [t \in Threads |-> IF ldpc[t] \in {"g_lock", "g_rlock", "g_enq", "g_wait",
                                        "g_relock", "g_del"}
                         THEN ldtarget[t] ELSE 0],
      [t \in Threads |-> IF ldpc[t] = "ts_put" THEN ldseen[t] ELSE Absent],
      [t \in Threads |-> IF ldpc[t] \in {"ts_done", "ts_bcast"} THEN ldchanged[t] ELSE FALSE],
      ldret, ldnops, installed>>

AllView == <<mode, MCView, LDView>>
=============================================================================
