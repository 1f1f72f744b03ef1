--------------------------- MODULE MCAlgorithms ----------------------------
(***************************************************************************)
(* The store's sequential algorithms, checked in one run: either one       *)
(* SEntry.Atomic call (AtomicOps) on values of up to two bytes built from  *)
(* the bytes 0, 1, 2 and 255 (carries, borrows, all-ones and all-zero      *)
(* bytes), or a history of MHop calls (MHop): up to three AddBefore and    *)
(* AddAfter calls with patterns of up to two characters from {a, b}, and   *)
(* SetDefault, with every key of up to three characters dispatched in      *)
(* every state.  The two share nothing, so `mode`, chosen once, runs one   *)
(* of them while the other stays in its initial state: the state space is  *)
(* the sum of the two, not their product.  The third mode runs the wire    *)
(* codec (Codec): every message the Pack* functions build from keys and    *)
(* values of up to one byte, versions 0 and 257 (a second byte), up to two *)
(* values, cut short or padded by a faulty peer, and unpacked.             *)
(***************************************************************************)
EXTENDS AtomicOps, MHop, Codec, TLC

VARIABLE mode

MCBytes == {0, 1, 2, 255}

\* Characters are model values: MHop only compares them for equality, and
\* every property quantifies over all keys, so renaming them is sound
CharSymmetry == Permutations(Chars)

MCStrs == {<<>>, <<7>>}
MCBlobs == {NilBlob, Blob(<<>>), Blob(<<7>>)}
MCNums == {0, 257}

\* An Init state of AtomicOps whose call never runs in "mux" mode
Idle == old = <<>> /\ op = "Other" /\ values = <<>> /\ out = Pending

MCInit ==
    \/ mode = "atomic" /\ Init /\ mh = NewMHop(Dflt) /\ hist = <<>> /\ CodecIdle
    \/ mode = "mux" /\ Idle /\ MuxInit /\ CodecIdle
    \/ mode = "codec" /\ Idle /\ mh = NewMHop(Dflt) /\ hist = <<>> /\ CodecInit

MCNext ==
    \/ mode = "atomic" /\ Apply /\ UNCHANGED <<mode, muxvars, codecvars>>
    \/ mode = "mux" /\ MuxNext /\ UNCHANGED <<mode, vars, codecvars>>
    \/ mode = "codec" /\ CodecNext /\ UNCHANGED <<mode, vars, muxvars>>

MCSpec == MCInit /\ [][MCNext]_<<mode, vars, muxvars, codecvars>>
====
