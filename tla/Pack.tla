-------------------------------- MODULE Pack --------------------------------
(***************************************************************************)
(* src/pack.go: little-endian integers, and strings and blobs with a       *)
(* length in front, read from and written to byte slices.                  *)
(*                                                                         *)
(* A byte string is a sequence of numbers in 0..255.  A []byte that may be *)
(* nil (a message's Value, Oldval) is a Blob: whether it is nil, and its   *)
(* bytes.  The readers take and give back a cursor: the rest of the slice, *)
(* whether that slice is nil (Gstr and Gblob give nil back when the length *)
(* does not fit), and whether a read has gone past its end, which in Go is *)
(* an index-out-of-range panic.                                            *)
(***************************************************************************)
EXTENDS Integers, Sequences

RECURSIVE GintBE(_)
GintBE(s) == IF s = <<>> THEN 0 ELSE s[Len(s)] + 256 * GintBE(SubSeq(s, 1, Len(s) - 1))

\* hop.Gint16 and friends: little-endian bytes to an unsigned integer
RECURSIVE Gint(_)
Gint(s) == IF s = <<>> THEN 0 ELSE Head(s) + 256 * Gint(Tail(s))

Pint(x, n) == [i \in 1 .. n |-> IF i > 4 THEN 0 ELSE (x \div 2^(8 * (i - 1))) % 256]

Blob(b) == [isnil |-> FALSE, b |-> b]
NilBlob == [isnil |-> TRUE, b |-> <<>>]

\* The four bytes Pint32(^uint32(0)) writes: a nil blob
NilLen == <<255, 255, 255, 255>>

\* hop.Pstr: uint16(len(val)), then the bytes
Pstr(s) == Pint(Len(s), 2) \o s

PblobNoNil(v) == Pint(Len(v.b), 4) \o v.b

\* hop.Pblob: uint32(len(val)) and the bytes, or ^uint32(0) for nil
Pblob(v) == IF v.isnil THEN NilLen ELSE Pint(Len(v.b), 4) \o v.b

-----------------------------------------------------------------------------
(* Readers *)

Cur(b) == [p |-> b, isnil |-> FALSE, panic |-> FALSE]
NilCur == [p |-> <<>>, isnil |-> TRUE, panic |-> FALSE]

\* The cursor past the first n bytes
Skip(c, n) == [c EXCEPT !.p = SubSeq(c.p, n + 1, Len(c.p))]

\* hop.Gint16/32/64: n bytes (a nil slice has none); fewer panic
GintAt(c, n) ==
    CASE c.panic -> [val |-> 0, cur |-> c]
      [] Len(c.p) < n -> [val |-> 0, cur |-> [c EXCEPT !.panic = TRUE]]
      [] OTHER -> [val |-> Gint(SubSeq(c.p, 1, n)), cur |-> Skip(c, n)]

\* hop.Gstr: nil stays nil; a length longer than the rest gives "" and nil
Gstr(c) ==
    LET n == GintAt(c, 2)
    IN  CASE c.panic \/ c.isnil -> [val |-> <<>>, cur |-> c]
          [] n.cur.panic -> [val |-> <<>>, cur |-> n.cur]
          [] n.val > Len(n.cur.p) -> [val |-> <<>>, cur |-> NilCur]
          [] OTHER -> [val |-> SubSeq(n.cur.p, 1, n.val), cur |-> Skip(n.cur, n.val)]

\* hop.Gblob: nil stays nil; ^uint32(0) is a nil blob; a length longer
\* than the rest gives nil and nil
Gblob(c) ==
    LET n == Gint(SubSeq(c.p, 1, 4))
        r == Skip(c, 4)
    IN  CASE c.panic \/ c.isnil -> [val |-> NilBlob, cur |-> c]
          [] Len(c.p) < 4 -> [val |-> NilBlob, cur |-> [c EXCEPT !.panic = TRUE]]
          [] SubSeq(c.p, 1, 4) = NilLen -> [val |-> NilBlob, cur |-> r]
          [] n > Len(r.p) -> [val |-> NilBlob, cur |-> NilCur]
          [] OTHER -> [val |-> Blob(SubSeq(r.p, 1, n)), cur |-> Skip(r, n)]

====
