------------------------------ MODULE AtomicOps ------------------------------
(***************************************************************************)
(* The read-modify-write operations of SEntry.Atomic (src/shop/shop.go)   *)
(* on byte strings, as operators, and the contract hop.go and spec 4.C     *)
(* give them, as reference definitions written independently of the code: *)
(* byte-wise carry and borrow for Add and Sub, bit indices for BitSet and  *)
(* BitClear.                                                               *)
(*                                                                         *)
(* A byte string is a sequence of numbers in 0..255.  SEntry.Atomic gets   *)
(* `values`, the []byte arguments; a call with none arrives as nil         *)
(* (rmt/unpack.go makes Vals only when valnum > 0), written <<>> here.     *)
(* The model is one call: Init picks the entry's value, the op and the     *)
(* arguments, and Apply runs SEntry.Atomic on them.                        *)
(***************************************************************************)
EXTENDS Integers, Sequences, Bitwise, Pack

CONSTANTS
    Bytes,        \* the byte values inputs are made of
    MaxLen        \* bound: length of the value and of each argument

Ops == {"Add", "Sub", "BitSet", "BitClear", "Append", "Remove", "Replace", "Other"}

\* The byte strings of length at most n
Strings(n) == UNION {[1 .. m -> Bytes] : m \in 0 .. n}

VARIABLES
    old,          \* e.Value when the call starts
    op,           \* the op code
    values,       \* the arguments
    out           \* what SEntry.Atomic did

vars == <<old, op, values, out>>

\* The result of a call: whether the entry's value was replaced (and its
\* version advanced), the value it holds afterwards, retvals, and the error
Outcome(bumped, val, rets, err) == [bumped |-> bumped, val |-> val, rets |-> rets, err |-> err]
Pending == [bumped |-> FALSE, val |-> <<>>, rets |-> <<>>, err |-> "pending"]

\* An atomic helper's (val, retvals, err): isnil is `val == nil`
Helper(isnil, val, rets, err) == [isnil |-> isnil, val |-> val, rets |-> rets, err |-> err]
Failed(err) == Helper(TRUE, <<>>, <<>>, err)

-----------------------------------------------------------------------------
(* Translation of src/shop/shop.go *)


\* atomicAdd: same length, a supported integer size, then a wrapping add
\* or subtract in uint8/16/32/64
AtomicAdd(v, n, sign) ==
    CASE Len(v) # Len(n)             -> Failed("type mismatch")
      [] Len(n) \notin {1, 2, 4, 8}  -> Failed("invalid integer size")
      [] OTHER -> Helper(FALSE, Pint((Gint(v) + sign * Gint(n)) % 2^(8 * Len(n)), Len(n)),
                         <<>>, "ok")

\* The first byte not equal to full (0xff for BitSet, 0 for BitClear);
\* Len(s) + 1 if there is none
RECURSIVE FirstNot(_, _, _)
FirstNot(s, full, i) == IF i > Len(s) \/ s[i] # full THEN i ELSE FirstNot(s, full, i + 1)

\* The bit loop of atomicBitSet: the first n with x & (1 << n) == 0
RECURSIVE ZeroBit(_, _)
ZeroBit(x, n) == IF (x & 2^n) = 0 THEN n ELSE ZeroBit(x, n + 1)

\* The bit loop of atomicBitClear: the first n with x & (1 << n) == 1,
\* or 8 when the loop ends without a match
RECURSIVE OneBit(_, _)
OneBit(x, n) == IF n = 8 THEN 8 ELSE IF (x & 2^n) = 1 THEN n ELSE OneBit(x, n + 1)

\* The byte-wise OR (BitSet, or TRUE) or AND (BitClear) with a mask, over the bytes
\* both have
Masked(s, m, or) ==
    [i \in 1 .. Len(s) |-> CASE i > Len(m) -> s[i]
                              [] or       -> s[i] | m[i]
                              [] OTHER    -> s[i] & m[i]]

AtomicBitSetIdx(s, vals) ==
    LET i == FirstNot(s, 255, 1)
        n == ZeroBit(s[i], 0)
        val == [s EXCEPT ![i] = s[i] | 2^n]
    IN  CASE vals # <<>>  -> LET v == Masked(s, vals[1], TRUE)
                             IN  Helper(FALSE, v, <<v>>, "ok")
          [] i > Len(s)   -> Failed("all bits already set")
          [] OTHER        -> Helper(FALSE, val, <<val, Pint(8 * i + n, 4)>>, "ok")

AtomicBitSet(s, vals) ==
    LET i == FirstNot(s, 255, 1)
        n == ZeroBit(s[i], 0)
        val == [s EXCEPT ![i] = s[i] | 2^n]
    IN  CASE vals # <<>>  -> LET v == Masked(s, vals[1], TRUE)
                             IN  Helper(FALSE, v, <<v>>, "ok")
          [] i > Len(s)   -> Failed("all bits already set")
          [] OTHER        -> Helper(FALSE, val, <<val, Pint(8 * (i - 1) + n, 4)>>, "ok")

AtomicBitClearOr(s, vals) ==
    LET i == FirstNot(s, 0, 1)
        n == OneBit(s[i], 0)
        val == IF n < 8 THEN [s EXCEPT ![i] = s[i] - 2^n] ELSE s
        bitnum == 8 * (i - 1) + (IF n < 8 THEN n ELSE 0)
    IN  CASE vals # <<>>  -> LET v == Masked(s, vals[1], TRUE)
                             IN  Helper(FALSE, v, <<v>>, "ok")
          [] i > Len(s)   -> Failed("all bits already cleared")
          [] OTHER        -> Helper(FALSE, val, <<val, Pint(bitnum, 4)>>, "ok")

AtomicBitClear(s, vals) ==
    LET i == FirstNot(s, 0, 1)
        n == OneBit(s[i], 0)
        val == IF n < 8 THEN [s EXCEPT ![i] = s[i] - 2^n] ELSE s
        bitnum == 8 * (i - 1) + (IF n < 8 THEN n ELSE 0)
    IN  CASE vals # <<>>  -> LET v == Masked(s, vals[1], FALSE)
                             IN  Helper(FALSE, v, <<v>>, "ok")
          [] i > Len(s)   -> Failed("all bits already cleared")
          [] OTHER        -> Helper(FALSE, val, <<val, Pint(bitnum, 4)>>, "ok")

\* bytes.Replace(s, pat, new, -1): every non-overlapping match, leftmost
\* first; an empty pattern matches before each rune and at the end (every
\* byte in Bytes is one rune: ASCII, or a lone byte that is not UTF-8)
RECURSIVE ReplaceAllShort(_, _, _)
ReplaceAllShort(s, pat, new) ==
    CASE pat = <<>> /\ s = <<>> -> new
      [] pat = <<>>             -> new \o <<Head(s)>> \o ReplaceAllShort(Tail(s), pat, new)
      [] Len(s) <= Len(pat)     -> s
      [] SubSeq(s, 1, Len(pat)) = pat
                                -> new \o ReplaceAllShort(SubSeq(s, Len(pat) + 1, Len(s)), pat, new)
      [] OTHER                  -> <<Head(s)>> \o ReplaceAllShort(Tail(s), pat, new)

RECURSIVE ReplaceAll(_, _, _)
ReplaceAll(s, pat, new) ==
    CASE pat = <<>> /\ s = <<>> -> new
      [] pat = <<>>             -> new \o <<Head(s)>> \o ReplaceAll(Tail(s), pat, new)
      [] Len(s) < Len(pat)      -> s
      [] SubSeq(s, 1, Len(pat)) = pat
                                -> new \o ReplaceAll(SubSeq(s, Len(pat) + 1, Len(s)), pat, new)
      [] OTHER                  -> <<Head(s)>> \o ReplaceAll(Tail(s), pat, new)

\* Remove and Replace: the entry changes only when the length does
Substituted(s, pat, new) ==
    LET r == ReplaceAll(s, pat, new)
    IN  Helper(Len(r) = Len(s), r, <<r>>, "ok")

\* SEntry.Atomic: the op's helper, then `if val != nil` install the new
\* value with e.IncreaseVersion()
SEntryAtomic(s, o, vals) ==
    LET n == Len(vals)
        h == CASE o \in {"Add", "Sub"} /\ n # 1   -> Failed("Eparams")
               [] o = "Add"                       -> LET a == AtomicAdd(s, vals[1], 1)
                                                     IN  [a EXCEPT !.rets = <<a.val>>]
               [] o = "Sub"                       -> LET a == AtomicAdd(s, vals[1], -1)
                                                     IN  [a EXCEPT !.rets = <<a.val>>]
               [] o = "BitSet"                    -> AtomicBitSet(s, vals)
               [] o = "BitClear"                  -> AtomicBitClear(s, vals)
               [] o \in {"Append", "Remove"} /\ n # 1 -> Failed("Eparams")
               [] o = "Append"                    -> Helper(FALSE, s \o vals[1], <<s \o vals[1]>>, "ok")
               [] o = "Remove"                    -> Substituted(s, vals[1], <<>>)
               [] o = "Replace" /\ n # 2          -> Failed("Eparams")
               [] o = "Replace"                   -> Substituted(s, vals[1], vals[2])
               [] OTHER                           -> Failed("invalid atomic operation")
    IN  Outcome(~h.isnil, IF h.isnil THEN s ELSE h.val, h.rets, h.err)

-----------------------------------------------------------------------------

Init ==
    /\ old \in Strings(MaxLen)
    /\ op \in Ops
    /\ values \in UNION {[1 .. m -> Strings(MaxLen)] : m \in 0 .. 2}
    /\ out = Pending

Apply ==
    /\ out = Pending
    /\ out' = SEntryAtomic(old, op, values)
    /\ UNCHANGED <<old, op, values>>

Spec == Init /\ [][Apply]_vars

TypeOK ==
    /\ old \in Strings(MaxLen)
    /\ op \in Ops
    /\ out.bumped \in BOOLEAN
    /\ out.val \in Seq(0 .. 255)

-----------------------------------------------------------------------------
(* Reference definitions, from hop.go's op list and spec 4.C, not from the *)
(* code: schoolbook carry and borrow, and bits numbered from bit 0 of the  *)
(* first byte.                                                            *)

\* Byte-wise add (sign 1) or subtract (sign -1) with carry or borrow; the
\* carry out of the last byte is dropped
RECURSIVE Carried(_, _, _, _)
Carried(v, n, sign, carry) ==
    IF v = <<>> THEN <<>>
    ELSE LET t == Head(v) + sign * Head(n) + carry
         IN  <<t % 256>> \o Carried(Tail(v), Tail(n), sign, (t - (t % 256)) \div 256)

Bits(s) == 0 .. 8 * Len(s) - 1
BitOf(s, j) == (s[j \div 8 + 1] \div 2^(j % 8)) % 2
LowestBit(s, b) == CHOOSE j \in Bits(s) : BitOf(s, j) = b /\ \A i \in 0 .. j - 1 : BitOf(s, i) # b
FlipBit(s, j) == [s EXCEPT ![j \div 8 + 1] = @ + (1 - 2 * BitOf(s, j)) * 2^(j % 8)]
Index4(j) == <<j % 256, (j \div 256) % 256, (j \div 65536) % 256, j \div 16777216>>

\* Positions where pat starts in s
Occurrences(s, pat) == {i \in 1 .. Len(s) - Len(pat) + 1 : SubSeq(s, i, i + Len(pat) - 1) = pat}

Done == out # Pending

\* Add and Sub of an integer of 1, 2, 4 or 8 bytes (atomicAdd through
\* Gint/Pint) are little-endian arithmetic modulo the width: the entry gets
\* the sum, its version advances, and the sum is returned; any other shape
\* of arguments leaves the entry alone and reports an error.
AddSubAsSpecified ==
    Done /\ op \in {"Add", "Sub"} =>
        IF Len(values) = 1 /\ Len(old) = Len(values[1]) /\ Len(old) \in {1, 2, 4, 8}
        THEN /\ out.bumped
             /\ out.val = Carried(old, values[1], IF op = "Add" THEN 1 ELSE -1, 0)
             /\ out.rets = <<out.val>>
        ELSE ~out.bumped /\ out.val = old /\ out.err # "ok"

\* BitSet without an argument (atomicBitSet's search loops) sets the lowest
\* clear bit of the value and returns its index as 4 little-endian bytes.
BitSetAsSpecified ==
    Done /\ op = "BitSet" /\ values = <<>> /\ (\E j \in Bits(old) : BitOf(old, j) = 0) =>
        LET low == LowestBit(old, 0)
        IN  out.bumped /\ out.val = FlipBit(old, low) /\ out.rets = <<out.val, Index4(low)>>

\* BitSet and BitClear with a mask OR or AND it into the value bit by bit,
\* over the bytes both have; bytes past the mask's end are kept.
MasksAsSpecified ==
    Done /\ op \in {"BitSet", "BitClear"} /\ values # <<>> =>
        /\ Len(out.val) = Len(old)
        /\ \A j \in Bits(old) :
             LET m == values[1]
                 b == IF j \div 8 < Len(m)
                      THEN IF op = "BitSet" THEN BitOf(old, j) + BitOf(m, j) - BitOf(old, j) * BitOf(m, j)
                           ELSE BitOf(old, j) * BitOf(m, j)
                      ELSE BitOf(old, j)
             IN  BitOf(out.val, j) = b

\* Spec 8, invariant 4, in the direction that always holds: an Append of x
\* followed by a Remove of x gives back the old value when the appended copy
\* is the only occurrence of x (Atomic's Append, then bytes.Replace and the
\* length test of its Remove case).
AppendThenRemoveRestores ==
    Done /\ op = "Append" /\ Len(values) = 1 /\ values[1] # <<>>
      /\ Occurrences(out.val, values[1]) = {Len(old) + 1} =>
        SEntryAtomic(out.val, "Remove", values).val = old

====
