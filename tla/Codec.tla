------------------------------- MODULE Codec -------------------------------
(***************************************************************************)
(* The wire format of src/rmt: the Pack* functions of packt.go and         *)
(* packr.go with packCommon and SetTag (rmt.go), and Unpack (unpack.go).   *)
(*                                                                         *)
(* A message is a record of the Msg fields the codec reads and writes;     *)
(* Size and Pkt are the packet itself.  A field a message type does not    *)
(* carry keeps its zero value, as in the Msg that NewMsg allocates.        *)
(* Strings are byte sequences, Value and Oldval Blobs (Pack), Vals a       *)
(* sequence of Blobs, with no values written <<>> (Unpack leaves it nil,   *)
(* and PackTatomic and PackRatomic write the same bytes for nil and for    *)
(* an empty list).                                                         *)
(***************************************************************************)
EXTENDS Integers, Sequences, Pack

Rerror == 100
Tget == 101
Rget == 102
Tset == 103
Rset == 104
Tcreate == 105
Rcreate == 106
Tremove == 107
Rremove == 108
Ttestset == 109
Rtestset == 110
Tatomic == 111
Ratomic == 112
Tlast == 113

Types == Rerror .. Tlast - 1

NOTAG == 65535

\* minMsgsize, indexed from 0 by type - Rerror
MinMsgsize == <<14, 18, 20, 14, 16, 16, 16, 10, 8, 26, 20, 14, 10, 18, 20>>

ZeroMsg == [type |-> 0, tag |-> 0, key |-> <<>>, version |-> 0, value |-> NilBlob,
            oldval |-> NilBlob, vals |-> <<>>, atmop |-> 0, flags |-> <<>>,
            edescr |-> <<>>, ecode |-> 0]

\* len(val) where a nil val adds nothing
BlobLen(v) == Len(v.b)

\* The size the values add in PackTatomic and PackRatomic
RECURSIVE ValsSize(_)
ValsSize(vs) == IF vs = <<>> THEN 0 ELSE 4 + BlobLen(Head(vs)) + ValsSize(Tail(vs))

\* Their Pblob loop
RECURSIVE PackVals(_)
PackVals(vs) == IF vs = <<>> THEN <<>> ELSE Pblob(Head(vs)) \o PackVals(Tail(vs))

\* PackTget, PackTset, PackTcreate, PackTremove, PackTtestset and
\* PackTatomic: the size each computes for the fields after the header, and
\* the bytes it writes there
PackT(m) ==
    CASE m.type = Tget ->
           [size |-> 2 + Len(m.key) + 8, body |-> Pstr(m.key) \o Pint(m.version, 8)]
      [] m.type = Tset ->
           [size |-> 2 + Len(m.key) + 4 + BlobLen(m.value),
            body |-> Pstr(m.key) \o Pblob(m.value)]
      [] m.type = Tcreate ->
           [size |-> 2 + Len(m.key) + 2 + Len(m.flags) + 4 + BlobLen(m.value),
            body |-> Pstr(m.key) \o Pstr(m.flags) \o Pblob(m.value)]
      [] m.type = Tremove -> [size |-> 2 + Len(m.key), body |-> Pstr(m.key)]
      [] m.type = Ttestset ->
           [size |-> 2 + Len(m.key) + 8 + 4 + 4 + BlobLen(m.oldval) + BlobLen(m.value),
            body |-> Pstr(m.key) \o Pint(m.version, 8) \o Pblob(m.oldval) \o Pblob(m.value)]
      [] m.type = Tatomic ->
           [size |-> 2 + 2 + Len(m.key) + 2 + ValsSize(m.vals),
            body |-> Pint(m.atmop, 2) \o Pstr(m.key) \o Pint(Len(m.vals), 2) \o PackVals(m.vals)]

\* PackRerror, PackRget, PackRset, PackRcreate, PackRremove, PackRtestset
\* and PackRatomic
PackR(m) ==
    CASE m.type = Rerror ->
           [size |-> 4 + 2 + Len(m.edescr), body |-> Pint(m.ecode, 4) \o Pstr(m.edescr)]
      [] m.type \in {Rget, Rtestset} ->
           [size |-> 8 + 4 + BlobLen(m.value), body |-> Pint(m.version, 8) \o Pblob(m.value)]
      [] m.type \in {Rset, Rcreate} -> [size |-> 8, body |-> Pint(m.version, 8)]
      [] m.type = Rremove -> [size |-> 0, body |-> <<>>]
      [] m.type = Ratomic ->
           [size |-> 8 + 2 + ValsSize(m.vals),
            body |-> Pint(m.version, 8) \o Pint(Len(m.vals), 2) \o PackVals(m.vals)]

\* packCommon and the Pack* function of m's type: m.Pkt is Buf[0:size],
\* with size from the formula and the bytes from the writes (a fresh Buf
\* is zeroed)
PackMsg(m) ==
    LET f == IF m.type \in {Tget, Tset, Tcreate, Tremove, Ttestset, Tatomic}
             THEN PackT(m) ELSE PackR(m)
        size == 8 + f.size
        bytes == Pint(size, 4) \o Pint(m.type, 2) \o Pint(NOTAG, 2) \o f.body
    IN  [i \in 1 .. size |-> IF i <= Len(bytes) THEN bytes[i] ELSE 0]

\* SetTag: the tag into Pkt[6:8]
SetTag(pkt, tag) == SubSeq(pkt, 1, 6) \o Pint(tag, 2) \o SubSeq(pkt, 9, Len(pkt))

-----------------------------------------------------------------------------
(* Unpack *)

\* The Vals loop of Tatomic and Ratomic: k Gblob calls, stopping at the
\* first one that leaves p nil (goto szerror)
RECURSIVE Gblobs(_, _)
Gblobs(c, k) ==
    IF k = 0 \/ c.panic THEN [vals |-> <<>>, cur |-> c, sz |-> FALSE]
    ELSE LET b == Gblob(c)
             r == Gblobs(b.cur, k - 1)
         IN  IF b.cur.isnil THEN [vals |-> <<b.val>>, cur |-> b.cur, sz |-> TRUE]
             ELSE [vals |-> <<b.val>> \o r.vals, cur |-> r.cur, sz |-> r.sz]

\* The fields Unpack's switch on m.Type reads, in order.  "guard" is
\* Tatomic's `p == nil || len(p) < 2` test before valnum, "vals" is valnum
\* and the Gblob loop.
Layout ==
    [t \in Types |->
        CASE t = Rerror -> <<"ecode", "edescr">>
          [] t = Tget -> <<"key", "version">>
          [] t \in {Rget, Rtestset} -> <<"version", "value">>
          [] t = Tset -> <<"key", "value">>
          [] t \in {Rset, Rcreate} -> <<"version">>
          [] t = Tcreate -> <<"key", "flags", "value">>
          [] t = Tremove -> <<"key">>
          [] t = Rremove -> <<>>
          [] t = Ttestset -> <<"key", "version", "oldval", "value">>
          [] t = Tatomic -> <<"atmop", "key", "guard", "vals">>
          [] t = Ratomic -> <<"version", "vals">>]

\* The width of the fields Gint16, Gint32 and Gint64 read
IntWidth == [ecode |-> 4, version |-> 8, atmop |-> 2]

\* One read of Unpack: Gint*, Gstr or Gblob into field f of m.  A szerror
\* leaves p nil, which is how the code's final test sees it too.
ReadField(m, c, f) ==
    CASE f \in DOMAIN IntWidth ->
           LET a == GintAt(c, IntWidth[f]) IN [m |-> [m EXCEPT ![f] = a.val], cur |-> a.cur]
      [] f \in {"edescr", "key", "flags"} ->
           LET a == Gstr(c) IN [m |-> [m EXCEPT ![f] = a.val], cur |-> a.cur]
      [] f \in {"value", "oldval"} ->
           LET a == Gblob(c) IN [m |-> [m EXCEPT ![f] = a.val], cur |-> a.cur]
      [] f = "guard" -> [m |-> m, cur |-> IF Len(c.p) < 2 THEN NilCur ELSE c]
      [] f = "vals" ->
           LET n == GintAt(c, 2)
               v == Gblobs(n.cur, n.val)
           IN  [m |-> [m EXCEPT !.vals = v.vals], cur |-> IF v.sz THEN NilCur ELSE v.cur]

\* Unpack's switch: the reads of the layout in order, up to the first
\* panic or nil p.  Every nil p ends at szerror: Tcreate, Ttestset and
\* Tatomic jump there at once, Tget and Tset skip their last read and fail
\* the final `p == nil` test, and a nil from the last read fails it too.
RECURSIVE ReadFields(_, _, _)
ReadFields(m, c, fs) ==
    IF fs = <<>> \/ c.panic \/ c.isnil THEN [m |-> m, cur |-> c]
    ELSE LET r == ReadField(m, c, Head(fs)) IN ReadFields(r.m, r.cur, Tail(fs))

\* Unpack without its final len(p) > 0 test
UnpackNoTrailCheck(buf) ==
    LET size == Gint(SubSeq(buf, 1, 4))
        hdr == [ZeroMsg EXCEPT !.type = Gint(SubSeq(buf, 5, 6)), !.tag = Gint(SubSeq(buf, 7, 8))]
        r == ReadFields(hdr, Cur(SubSeq(buf, 9, size)), Layout[hdr.type])
    IN  CASE Len(buf) < 8 -> [err |-> "short", m |-> ZeroMsg]
          [] size > Len(buf) \/ size < 8 -> [err |-> "short", m |-> hdr]
          [] hdr.type \notin Types -> [err |-> "invalid id", m |-> hdr]
          [] size < MinMsgsize[hdr.type - Rerror + 1] -> [err |-> "invalid size", m |-> hdr]
          [] r.cur.panic -> [err |-> "panic", m |-> r.m]
          [] r.cur.isnil -> [err |-> "invalid size", m |-> r.m]
          [] OTHER -> [err |-> "ok", m |-> r.m]

\* Unpack(m, buf): the error it returns ("ok" for nil, "panic" when a read
\* goes past the end of p) and the message
Unpack(buf) ==
    LET size == Gint(SubSeq(buf, 1, 4))
        hdr == [ZeroMsg EXCEPT !.type = Gint(SubSeq(buf, 5, 6)), !.tag = Gint(SubSeq(buf, 7, 8))]
        r == ReadFields(hdr, Cur(SubSeq(buf, 9, size)), Layout[hdr.type])
    IN  CASE Len(buf) < 8 -> [err |-> "short", m |-> ZeroMsg]
          [] size > Len(buf) \/ size < 8 -> [err |-> "short", m |-> hdr]
          [] hdr.type \notin Types -> [err |-> "invalid id", m |-> hdr]
          [] size < MinMsgsize[hdr.type - Rerror + 1] -> [err |-> "invalid size", m |-> hdr]
          [] r.cur.panic -> [err |-> "panic", m |-> r.m]
          [] r.cur.isnil \/ Len(r.cur.p) > 0 -> [err |-> "invalid size", m |-> r.m]
          [] OTHER -> [err |-> "ok", m |-> r.m]

-----------------------------------------------------------------------------
(* One packet per behaviour, since Unpack keeps no state from one packet   *)
(* to the next: a sender's Pack* call and SetTag, and the receiver's       *)
(* Unpack (Netconn.recv hands Unpack its buffer, which may hold the next   *)
(* packet's bytes after this one).  A faulty peer may send fewer or more   *)
(* bytes than its fields take, with the size header saying so.            *)

CONSTANTS
    Strs,         \* keys, flags and error descriptions
    BlobVals,     \* values (Blobs)
    Nums,         \* versions, error codes, atomic op codes
    MaxVals,      \* the most values of a Tatomic or Ratomic
    Tags,         \* the tags SetTag puts in
    MaxCut        \* the most bytes a faulty peer leaves out

VARIABLES
    sent,         \* the message the sender packed
    wire,         \* the packet the receiver gets
    cut,          \* bytes left out (negative: added) by a faulty peer
    got           \* Unpack's result, or NoResult before the receiver ran

codecvars == <<sent, wire, cut, got>>

NoResult == [err |-> "none", m |-> ZeroMsg]

ValLists == UNION {[1 .. k -> BlobVals] : k \in 0 .. MaxVals}

\* The messages the Pack* functions build, one set per function
Messages ==
    LET Z == ZeroMsg IN
    {[Z EXCEPT !.type = Rerror, !.ecode = e, !.edescr = s] : e \in Nums, s \in Strs}
    \cup {[Z EXCEPT !.type = t, !.key = k, !.version = v] : t \in {Tget}, k \in Strs, v \in Nums}
    \cup {[Z EXCEPT !.type = t, !.version = v, !.value = b] : t \in {Rget, Rtestset}, v \in Nums, b \in BlobVals}
    \cup {[Z EXCEPT !.type = Tset, !.key = k, !.value = b] : k \in Strs, b \in BlobVals}
    \cup {[Z EXCEPT !.type = t, !.version = v] : t \in {Rset, Rcreate}, v \in Nums}
    \cup {[Z EXCEPT !.type = Tcreate, !.key = k, !.flags = f, !.value = b] : k, f \in Strs, b \in BlobVals}
    \cup {[Z EXCEPT !.type = Tremove, !.key = k] : k \in Strs}
    \cup {[Z EXCEPT !.type = Rremove]}
    \cup {[Z EXCEPT !.type = Ttestset, !.key = k, !.version = v, !.oldval = o, !.value = b] :
            k \in Strs, v \in Nums, o, b \in BlobVals}
    \cup {[Z EXCEPT !.type = Tatomic, !.atmop = a, !.key = k, !.vals = vs] :
            a \in Nums, k \in Strs, vs \in ValLists}
    \cup {[Z EXCEPT !.type = Ratomic, !.version = v, !.vals = vs] : v \in Nums, vs \in ValLists}

\* No packet yet: the state of the other modes of a composition
CodecIdle ==
    /\ sent = ZeroMsg /\ wire = <<>> /\ cut = 0
    /\ got = NoResult

\* A Pack* call for m followed by SetTag(m, tag) has put a packet on the
\* wire; nothing has cut it or unpacked it yet
Sent(m, tag) ==
    /\ sent = [m EXCEPT !.tag = tag]
    /\ wire = SetTag(PackMsg(m), tag)
    /\ cut = 0
    /\ got = NoResult

CodecInit == \E m \in Messages, tag \in Tags : Sent(m, tag)

\* The faulty peer drops the last byte and lowers the size to match
Truncate ==
    /\ got = NoResult /\ cut \in 0 .. MaxCut - 1 /\ Len(wire) > 8
    /\ wire' = Pint(Len(wire) - 1, 4) \o SubSeq(wire, 5, Len(wire) - 1)
    /\ cut' = cut + 1
    /\ UNCHANGED <<sent, got>>

\* The faulty peer sends a zero byte more and counts it in the size
Pad ==
    /\ got = NoResult /\ cut = 0
    /\ wire' = Pint(Len(wire) + 1, 4) \o SubSeq(wire, 5, Len(wire)) \o <<0>>
    /\ cut' = -1
    /\ UNCHANGED <<sent, got>>

\* Netconn.recv calls Unpack on its buffer: the packet and what follows it
Receive(next) ==
    /\ got = NoResult
    /\ got' = Unpack(wire \o next)
    /\ UNCHANGED <<sent, wire, cut>>

CodecNext ==
    \/ Truncate
    \/ Pad
    \/ \E next \in {<<>>, <<0>>} : Receive(next)

CodecSpec == CodecInit /\ [][CodecNext]_codecvars

-----------------------------------------------------------------------------

\* A packet a Pack* call and SetTag built, received whole, unpacks without
\* error to the message that was packed, tag included, also with the next
\* packet's bytes behind it in the buffer (Pack*, Pstr, Pblob against
\* Unpack, Gstr, Gblob: the size formulas, the nil blob, the value count).
RoundTrip ==
    got # NoResult /\ cut = 0 => got.err = "ok" /\ got.m = sent

\* Unpack accepts only canonical packets: whatever it returns without error
\* packs, with its tag, to exactly the size bytes it read, so a packet cut
\* short or padded by a peer is rejected (Unpack's length checks, its
\* szerror paths and its final len(p) test).
Canonical ==
    got.err = "ok" =>
        LET b == SetTag(PackMsg(got.m), got.m.tag)
        IN  Len(b) <= Len(wire) /\ b = SubSeq(wire, 1, Len(b))

====
