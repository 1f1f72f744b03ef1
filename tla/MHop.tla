-------------------------------- MODULE MHop --------------------------------
(***************************************************************************)
(* The prefix multiplexer of src/mhop.go: a trie of key prefixes, each     *)
(* node optionally carrying a handler with an id, an exact flag and a      *)
(* cutprefix flag.  MHop has no lock and its calls are sequential, so the  *)
(* trie operations are operators: a trie is a store of nodes addressed by  *)
(* number (0 is nil) and a root pointer, as the code's *mnode pointers.    *)
(*                                                                         *)
(* Keys and patterns are sequences of characters.  A handler is a number:  *)
(* 0 is nil, Dflt the MHop's default handler, and the handler installed by *)
(* the i-th call of a sequence of calls is i.                              *)
(***************************************************************************)
EXTENDS Integers, Sequences
LOCAL INSTANCE SequencesExt

CONSTANTS
    Chars,        \* the characters keys are made of
    MaxKeyLen,    \* the longest key or pattern considered
    MaxAdds       \* the longest sequence of AddBefore/AddAfter calls

Nil == 0
Dflt == -1

Keys == BoundedSeq(Chars, MaxKeyLen)

\* A fresh mnode
NewNode(prefix, prev) ==
    [prefix |-> prefix, id |-> 0, hop |-> Nil, exact |-> FALSE, cutpref |-> FALSE,
     sub |-> <<>>, prev |-> prev]

\* The node with the binding of an add call
Bound(nd, id, exact, cut, h) ==
    [nd EXCEPT !.id = id, !.exact = exact, !.cutpref = cut, !.hop = h]

EmptyTrie == [root |-> Nil, nd |-> <<>>]

\* NewMHop(dflt): the default handler may be nil (the benchmark passes nil)
NewMHop(dflt) == [dflt |-> dflt, t |-> EmptyTrie, minid |-> 0, maxid |-> 0]

-----------------------------------------------------------------------------
(* match *)

\* The inner for loop of match: the first i at which the node's prefix and
\* the pattern from n on differ.  The loop indexes pattern[i+n] for every
\* i below len(nd.prefix), also past the pattern's end: then the code
\* panics (index out of range).
PrefixCompareToEnd(prefix, pattern, n) ==
    LET stop == {j \in 0 .. Len(prefix) - 1 :
                    j + n < Len(pattern) /\ prefix[j + 1] # pattern[j + n + 1]}
    IN  [i |-> IF stop = {} THEN Len(prefix) ELSE Min(stop), panic |-> FALSE]

PrefixCompare(prefix, pattern, n) ==
    LET stop == {j \in 0 .. Len(prefix) - 1 :
                    j + n >= Len(pattern) \/ prefix[j + 1] # pattern[j + n + 1]}
        i == IF stop = {} THEN Len(prefix) ELSE Min(stop)
    IN  [i |-> i, panic |-> i < Len(prefix) /\ i + n >= Len(pattern)]

\* The outer loop L of match, one iteration per call.  s holds ndprev, nd,
\* n, i and pidx.
RECURSIVE MatchLoop(_, _, _)
MatchLoop(t, pattern, s) ==
    IF s.nd = Nil \/ s.n >= Len(pattern) THEN s
    ELSE
    LET node == t.nd[s.nd]
        cmp == PrefixCompare(node.prefix, pattern, s.n)
        subs == IF s.ndprev = Nil THEN <<>> ELSE t.nd[s.ndprev].sub
    IN  CASE cmp.panic -> [s EXCEPT !.panic = TRUE]
          [] cmp.i = 0 ->
               \* no match at all: the next sibling
               LET more == s.ndprev # Nil /\ s.pidx < Len(subs)
                   pidx == IF more THEN s.pidx + 1 ELSE s.pidx
               IN  MatchLoop(t, pattern,
                             [s EXCEPT !.i = 0, !.pidx = pidx,
                                       !.nd = IF more /\ pidx < Len(subs)
                                              THEN subs[pidx + 1] ELSE Nil])
          [] cmp.i = Len(node.prefix) ->
               \* the whole prefix matched: descend
               MatchLoop(t, pattern,
                         [s EXCEPT !.ndprev = s.nd, !.pidx = 0, !.n = s.n + cmp.i, !.i = 0,
                                   !.nd = IF node.sub # <<>> THEN node.sub[1] ELSE Nil])
          [] OTHER -> [s EXCEPT !.i = cmp.i]

\* MHop.match: ndprev matches the pattern up to its n-th character; a
\* non-nil nd matches it further, up to the i-th character of its prefix
Match(t, pattern) ==
    MatchLoop(t, pattern, [ndprev |-> Nil, nd |-> t.root, n |-> 0, i |-> 0,
                           pidx |-> 0, panic |-> FALSE])

-----------------------------------------------------------------------------
(* add *)

\* add's split: node x keeps its prefix from the i-th character on and
\* moves below node k
DemoteNoTrim(nds, x, i, k) == [nds EXCEPT ![x].prev = k]

Demote(nds, x, i, k) ==
    [nds EXCEPT ![x].prefix = SubSeq(@, i + 1, Len(@)), ![x].prev = k]

\* MHop.add: the trie after adding the pattern, and the error it returns
Add(t, id, pattern, exact, cut, h) ==
    LET m == Match(t, pattern)
        k == Len(t.nd) + 1
        rest == SubSeq(pattern, m.n + m.i + 1, Len(pattern))
    IN
    CASE m.panic -> [t |-> t, err |-> "panic"]
      [] m.nd = Nil /\ m.n = Len(pattern) -> [t |-> t, err |-> "exists"]
      [] m.nd = Nil ->
           \* a new leaf below ndprev, or a new root
           LET nd1 == Bound(NewNode(rest, m.ndprev), id, exact, cut, h)
               nds == Append(t.nd, nd1)
           IN  [err |-> "ok",
                t |-> IF m.ndprev # Nil
                      THEN [t EXCEPT !.nd = [nds EXCEPT ![m.ndprev].sub = Append(@, k)]]
                      ELSE [root |-> k, nd |-> nds]]
      [] OTHER ->
           \* split nd at its i-th character: nd1 takes the common part and
           \* nd moves below it; the binding goes to nd1, or to a new nd2
           LET nd == t.nd[m.nd]
               common == NewNode(SubSeq(nd.prefix, 1, m.i), nd.prev)
               atSplit == m.n + m.i = Len(pattern)
               nd1 == IF atSplit
                      THEN [Bound(common, id, exact, cut, h) EXCEPT !.sub = <<m.nd>>]
                      ELSE [common EXCEPT !.sub = <<k + 1, m.nd>>]
               nd2 == Bound(NewNode(rest, k), id, exact, cut, h)
               moved == Demote(t.nd, m.nd, m.i, k)
               nds == IF atSplit THEN Append(moved, nd1) ELSE Append(Append(moved, nd1), nd2)
               psub == IF m.ndprev = Nil THEN <<>> ELSE nds[m.ndprev].sub
               at == {j \in DOMAIN psub : psub[j] = m.nd}
           IN  [err |-> "ok",
                t |-> IF m.ndprev = Nil
                      THEN [root |-> k, nd |-> nds]
                      ELSE [root |-> t.root,
                            nd |-> IF at = {} THEN nds
                                   ELSE [nds EXCEPT ![m.ndprev].sub[Min(at)] = k]]]

-----------------------------------------------------------------------------
(* find *)

\* The node and its ancestors up to the root, along the prev pointers
RECURSIVE Chain(_, _)
Chain(t, k) == IF k = Nil THEN <<>> ELSE <<k>> \o Chain(t, t.nd[k].prev)

\* find's loop over the chain: the node with a handler and the highest id
\* (a node without a handler gives way to the next one)
Pick(t, nd, nd1) ==
    IF t.nd[nd].hop = Nil \/ (t.nd[nd1].hop # Nil /\ t.nd[nd].id < t.nd[nd1].id)
    THEN nd1 ELSE nd

\* MHop.find: the handler and the key passed to it
Find(mh, key) ==
    LET t == mh.t
        m == Match(t, key)
        nd == FoldLeft(LAMBDA a, b : Pick(t, a, b), m.ndprev, Chain(t, m.ndprev))
    IN  CASE m.panic -> [hop |-> Nil, key |-> key, panic |-> TRUE]
          [] m.ndprev = Nil \/ t.nd[nd].hop = Nil \/ (t.nd[nd].exact /\ m.n < Len(key)) ->
               [hop |-> mh.dflt, key |-> key, panic |-> FALSE]
          [] OTHER ->
               [hop |-> t.nd[nd].hop, panic |-> FALSE,
                key |-> IF t.nd[nd].cutpref THEN SubSeq(key, m.n + 1, Len(key)) ELSE key]

\* MHop.Create, Remove, Get, Set, TestSet and Atomic: find the handler and
\* forward the call with the new key, or fail with Eperm when the handler
\* is nil (every non-nil handler here implements every operation)
Dispatch(mh, key) ==
    LET f == Find(mh, key)
    IN  IF f.hop = Nil THEN [err |-> "Eperm", hop |-> Nil, key |-> key, panic |-> f.panic]
        ELSE [err |-> "ok", hop |-> f.hop, key |-> f.key, panic |-> f.panic]

-----------------------------------------------------------------------------
(* The MHop object and the calls that change it *)

VARIABLES
    mh,           \* the MHop: dflt, the trie, minid and maxid
    hist          \* the AddBefore/AddAfter calls made so far, in order

muxvars == <<mh, hist>>

\* An AddBefore or AddAfter call; it installs handler Len(hist) + 1
Calls == [before : BOOLEAN, pat : BoundedSeq(Chars, MaxKeyLen - 1), exact : BOOLEAN, cut : BOOLEAN]

MuxInit ==
    /\ \E d \in {Nil, Dflt} : mh = NewMHop(d)
    /\ hist = <<>>

\* MHop.AddBefore: the id is one below every earlier one, also when add
\* fails
AddBefore(c) ==
    LET r == Add(mh.t, mh.minid - 1, c.pat, c.exact, c.cut, Len(hist) + 1)
    IN  /\ c.before /\ Len(hist) < MaxAdds
        /\ mh' = [mh EXCEPT !.minid = @ - 1, !.t = r.t]
        /\ hist' = Append(hist, c)

\* MHop.AddAfter: one above every earlier one
AddAfter(c) ==
    LET r == Add(mh.t, mh.maxid + 1, c.pat, c.exact, c.cut, Len(hist) + 1)
    IN  /\ ~c.before /\ Len(hist) < MaxAdds
        /\ mh' = [mh EXCEPT !.maxid = @ + 1, !.t = r.t]
        /\ hist' = Append(hist, c)

\* MHop.SetDefault
SetDefault(d) ==
    /\ mh' = [mh EXCEPT !.dflt = d]
    /\ UNCHANGED hist

MuxNext ==
    \/ \E c \in Calls : AddBefore(c) \/ AddAfter(c)
    \/ \E d \in {Nil, Dflt} : SetDefault(d)

MuxSpec == MuxInit /\ [][MuxNext]_muxvars

-----------------------------------------------------------------------------

\* The key a node stands for: its ancestors' prefixes and its own
RECURSIVE Path(_, _)
Path(t, k) == IF k = Nil THEN <<>> ELSE Path(t, t.nd[k].prev) \o t.nd[k].prefix

\* Whatever the order of AddBefore/AddAfter calls, every node that carries
\* a handler stands for exactly the pattern that handler was added with:
\* add's node split (the common part moved to a new parent, the rest kept
\* in nd) never shifts a handler to another prefix (MHop.add).
HandlerPathsKept ==
    \A k \in DOMAIN mh.t.nd :
        mh.t.nd[k].hop # Nil => Path(mh.t, k) = hist[mh.t.nd[k].hop].pat

\* A call that does not panic goes to the default handler or to one whose
\* pattern begins the key (spec 4.E: the key must begin with the prefix),
\* and the key it passes on is the key or a suffix of it (MHop.match,
\* find and the forwarding calls).
DispatchMatchesPrefix ==
    \A key \in Keys :
        LET d == Dispatch(mh, key)
        IN  ~d.panic /\ d.hop > 0 => IsPrefix(hist[d.hop].pat, key) /\ IsSuffix(d.key, key)

====
