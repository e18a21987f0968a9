----------------------------- MODULE ViewsProofs ------------------------------
(***************************************************************************)
(* Frozen, Delivered and RepresentationHidden for every number of callers  *)
(* and buffers and every set of values.  The inductive invariant says who  *)
(* may write where: the buffer of a view is held by nobody who may write   *)
(* to it, and no slice is held by two.                                     *)
(***************************************************************************)
EXTENDS Views, SequenceTheorems, TLAPS

\* The buffers somebody outside groupcache may write.
Writable == {getter} \cup {sink[c].buf : c \in Callers}

\* The destination a sink was made with, still as long as it was.
Ready(h, k) ==
  k.kind = "trunc" => k.buf \in Bufs /\ Len(h[k.buf]) = k.room /\ k.len = k.room

Output == [heap : [Bufs -> Seq(Byte)], sink : SinkType, ok : BOOLEAN]

\* The effect of a Set method that may use the new buffers F and keep a view
\* of the buffers B: it writes only new buffers and its own destination, and
\* when it succeeds the sink holds the value.
Sets(h, k, out, F, B, d, e) ==
  /\ out \in Output
  /\ \A y \in Bufs : y \notin F \cup {k.buf} => out.heap[y] = h[y]
  /\ out.sink.buf \in F \cup {k.buf}
  /\ out.sink.kind = k.kind /\ out.sink.room = k.room
  /\ out.sink.kind = "trunc" => out.sink.len <= out.sink.room /\ out.sink.buf = k.buf
  /\ out.ok => /\ Holds(out.heap, out.sink, d, e)
               /\ out.sink.v.b \in B \cup {Nil}
               /\ out.sink.v.b # Nil => out.sink.v.b # out.sink.buf

-------------------------------------------------------------------------------
(* The sinks *)

\* What each kind of sink has to show to hold the value.
LEMMA HoldsValue ==
  ASSUME NEW h, NEW k, NEW d, NEW e, Bytes(h, k.v) = d, k.v.e = e,
         \/ k.kind \in {"string", "proto"} /\ k.val = d
         \/ k.kind = "view"
         \/ k.kind = "alloc" /\ k.buf \in Bufs /\ h[k.buf] = d /\ k.len = Len(d)
         \/ /\ k.kind = "trunc" /\ k.buf \in Bufs
            /\ k.len = Shorter(k.room, Len(d))
            /\ Prefix(h[k.buf], k.len) = Prefix(d, k.len)
  PROVE  Holds(h, k, d, e)
  BY Zenon DEF Holds

\* What a sink holds depends on its own buffers only.
LEMMA HoldsKept ==
  ASSUME NEW h, NEW m, NEW k, NEW d, NEW e, Holds(h, k, d, e),
         Bytes(m, k.v) = Bytes(h, k.v), k.buf \in Bufs => m[k.buf] = h[k.buf]
  PROVE  Holds(m, k, d, e)
  BY Zenon DEF Holds

\* make and copy in copy(*s.dst, d): the slice keeps its length.
LEMMA OverwriteType ==
  ASSUME NEW s \in Seq(Byte), NEW d \in Seq(Byte), NEW n \in Nat, n <= Len(d)
  PROVE  LET t == [i \in DOMAIN s |-> IF i <= n THEN d[i] ELSE s[i]]
         IN  t \in Seq(Byte) /\ Len(t) = Len(s)
<1> DEFINE t == [i \in 1..Len(s) |-> IF i <= n THEN d[i] ELSE s[i]]
<1>1. \A i \in 1..Len(s) : (IF i <= n THEN d[i] ELSE s[i]) \in Byte
  OBVIOUS
<1>2. t \in Seq(Byte) /\ Len(t) = Len(s)
  BY <1>1
<1> QED
  BY <1>2

\* A truncating sink's destination gets what fits and is shrunk to it.
LEMMA TruncatedSets ==
  ASSUME NEW h \in [Bufs -> Seq(Byte)], NEW k \in SinkType, k.kind = "trunc", Ready(h, k),
         NEW d \in Seq(Byte)
  PROVE  LET out == Truncated(h, k, d)
         IN  /\ out \in Output /\ out.ok
             /\ \A y \in Bufs : y # k.buf => out.heap[y] = h[y]
             /\ out.sink = [k EXCEPT !.len = Shorter(k.room, Len(d))]
             /\ Prefix(out.heap[k.buf], out.sink.len) = Prefix(d, out.sink.len)
<1> DEFINE n == Shorter(k.len, Len(d))
           s == h[k.buf]
           t == [i \in DOMAIN s |-> IF i <= n THEN d[i] ELSE s[i]]
           out == Truncated(h, k, d)
<1>1. k.buf \in Bufs /\ Len(s) = k.room /\ k.len = k.room /\ k.room \in Nat
  BY Zenon DEF Ready, SinkType
<1>2. n \in Nat /\ n <= Len(d) /\ n <= Len(s) /\ n = Shorter(k.room, Len(d))
  BY <1>1 DEF Shorter
<1>3. s \in Seq(Byte)
  BY <1>1, Zenon
<1>4. t \in Seq(Byte) /\ Len(t) = Len(s)
  BY <1>2, <1>3, OverwriteType, Zenon
<1>5. out.heap = [h EXCEPT ![k.buf] = t] /\ out.sink = [k EXCEPT !.len = n] /\ out.ok
  BY Zenon DEF Truncated, Done
<1>6. out.heap \in [Bufs -> Seq(Byte)] /\ out.heap[k.buf] = t
  BY <1>1, <1>4, <1>5, ZenonT(60)
<1>7. out.sink \in SinkType /\ out.sink.len = n
  BY <1>2, <1>5 DEF SinkType
<1>8. out \in Output
  BY <1>5, <1>6, <1>7, Zenon DEF Output, Truncated, Done
<1>9. \A i \in 1..n : t[i] = d[i]
  BY <1>2, <1>3
<1>10. Prefix(t, n) = Prefix(d, n)
  BY <1>9, Zenon DEF Prefix
<1> QED
  BY <1>1, <1>2, <1>5, <1>6, <1>7, <1>8, <1>10

\* The sink of kind k with the view v, before and after the view is set.
LEMMA WithViewSets ==
  ASSUME NEW h \in [Bufs -> Seq(Byte)], NEW k \in SinkType, k.kind = "trunc", Ready(h, k),
         NEW d \in Seq(Byte), NEW v \in Views, NEW F, NEW B,
         v.b \in B \cup {Nil}, v.b # Nil => v.b # k.buf, Bytes(h, v) = d
  PROVE  Sets(h, k, WithView(Truncated(h, k, d), v), F, B, d, v.e)
<1> DEFINE cut == Truncated(h, k, d)
           out == WithView(cut, v)
<1>1. /\ cut \in Output /\ cut.ok
      /\ \A y \in Bufs : y # k.buf => cut.heap[y] = h[y]
      /\ cut.sink = [k EXCEPT !.len = Shorter(k.room, Len(d))]
      /\ Prefix(cut.heap[k.buf], cut.sink.len) = Prefix(d, cut.sink.len)
  BY TruncatedSets
<1>2. out.heap = cut.heap /\ out.ok /\ out.sink = [cut.sink EXCEPT !.v = v]
  BY <1>1, Zenon DEF WithView, Output
<1>3. cut.sink \in SinkType /\ cut.heap \in [Bufs -> Seq(Byte)]
  BY <1>1, Zenon DEF Output
<1>4. out.sink \in SinkType
  BY <1>2, <1>3, Zenon DEF SinkType
<1>41. /\ cut.sink.buf = k.buf /\ cut.sink.kind = "trunc" /\ cut.sink.room = k.room
  BY <1>1, Zenon DEF SinkType
<1>42. /\ out.sink.v = v /\ out.sink.buf = k.buf
      /\ out.sink.kind = "trunc" /\ out.sink.room = k.room
      /\ out.sink.len = cut.sink.len
  BY <1>2, <1>3, <1>41, Zenon DEF SinkType
<1>5. cut.sink.len = Shorter(k.room, Len(d)) /\ cut.sink.len <= k.room
  BY <1>1 DEF SinkType, Shorter
<1>6. out \in Output
  BY <1>1, <1>2, <1>3, <1>4, Zenon DEF Output, WithView
<1>7. Bytes(cut.heap, v) = d
  BY <1>1, Zenon DEF Bytes, Views
<1>8. Holds(out.heap, out.sink, d, v.e)
  <2>0. k.buf \in Bufs
    BY Zenon DEF Ready
  <2>1. Prefix(out.heap[out.sink.buf], out.sink.len) = Prefix(d, out.sink.len)
    BY <1>1, <1>2, <1>42, Zenon
  <2>2. out.sink.len = Shorter(out.sink.room, Len(d))
    BY <1>42, <1>5, Zenon
  <2>3. Bytes(out.heap, out.sink.v) = d
    BY <1>2, <1>42, <1>7, Zenon
  <2> QED
    BY <1>42, <2>0, <2>1, <2>2, <2>3, HoldsValue, Zenon
<1> HIDE DEF cut, out
<1>9. \A y \in Bufs : y \notin F \cup {k.buf} => out.heap[y] = h[y]
  BY <1>1, <1>2, Zenon
<1>10. Sets(h, k, out, F, B, d, v.e)
  BY <1>2, <1>42, <1>5, <1>6, <1>8, <1>9, Zenon DEF Sets
<1> QED
  BY <1>10, Zenon DEF cut, out

\* The output of a method that cannot fail.
LEMMA DoneOutput ==
  ASSUME NEW h \in [Bufs -> Seq(Byte)], NEW j \in SinkType
  PROVE  /\ Done(h, j) \in Output /\ Done(h, j).ok
         /\ Done(h, j).heap = h /\ Done(h, j).sink = j
<1> DEFINE out == [heap |-> h, sink |-> j, ok |-> TRUE]
<1>1. out \in Output
  BY Zenon DEF Output
<1>2. Done(h, j) = out
  BY Zenon DEF Done
<1> QED
  BY <1>1, <1>2

\* When such a method leaves m and the sink j, with its view in place.
LEMMA DoneSets ==
  ASSUME NEW h, NEW m \in [Bufs -> Seq(Byte)], NEW k, NEW j \in SinkType,
         NEW F, NEW B, NEW d, NEW e,
         \A y \in Bufs : y \notin F => m[y] = h[y],
         j.kind = k.kind, j.kind # "trunc", j.room = k.room, j.buf \in F \cup {k.buf},
         j.v.b \in B \cup {Nil}, j.v.b # Nil => j.v.b # j.buf,
         Holds(m, j, d, e)
  PROVE  Sets(h, k, Done(m, j), F, B, d, e)
<1> DEFINE out == Done(m, j)
<1>1. out \in Output /\ out.ok /\ out.heap = m /\ out.sink = j
  BY DoneOutput, Zenon
<1> HIDE DEF out
<1>2. Sets(h, k, out, F, B, d, e)
  BY <1>1, Zenon DEF Sets
<1> QED
  BY <1>2, Zenon DEF out

\* setBytesOwned keeps f for the view and gives the caller a copy.
LEMMA OwnedSets ==
  ASSUME NEW h \in [Bufs -> Seq(Byte)], NEW k \in SinkType, k.kind \in {"alloc", "trunc"},
         Ready(h, k), NEW f \in Bufs, NEW g \in Bufs, f # g, k.buf \notin {f, g},
         NEW e \in Expiries \cup {0}
  PROVE  Sets(h, k, setBytesOwned(h, k, f, e, g), {f, g}, {f}, h[f], e)
<1> DEFINE v == ByteView(f, <<>>, e)
           out == setBytesOwned(h, k, f, e, g)
<1>1. v \in Views /\ v.b = f /\ v.e = e
  BY DEF ByteView, Views
<1>2. Bytes(h, v) = h[f]
  BY <1>1, BufAssumption, Zenon DEF Bytes
<1>3. CASE k.kind = "trunc"
  <2>1. out = WithView(Truncated(h, k, h[f]), v)
    BY <1>3, Zenon DEF setBytesOwned
  <2>2. Sets(h, k, WithView(Truncated(h, k, h[f]), v), {f, g}, {f}, h[f], v.e)
    BY <1>1, <1>2, <1>3, WithViewSets, Zenon
  <2> QED
    BY <1>1, <2>1, <2>2, Zenon
<1>4. CASE k.kind = "alloc"
  <2> DEFINE m == [h EXCEPT ![g] = h[f]]
             j == [k EXCEPT !.buf = g, !.len = Len(h[f]), !.v = v]
  <2>1. out = Done(m, j)
    BY <1>4, Zenon DEF setBytesOwned
  <2>0. j \in SinkType
    <3>1. Len(h[f]) \in Nat
      OBVIOUS
    <3> QED
      BY <1>1, <3>1, Zenon DEF SinkType
  <2>2. /\ j.kind = "alloc" /\ j.buf = g /\ j.v = v
        /\ j.len = Len(h[f]) /\ j.room = k.room
    BY <1>1, <1>4, Zenon DEF SinkType
  <2>3. /\ m \in [Bufs -> Seq(Byte)] /\ m[g] = h[f] /\ m[f] = h[f]
        /\ \A y \in Bufs : y # g => m[y] = h[y]
    BY Zenon
  <2>4. Bytes(m, v) = h[f]
    BY <1>1, <2>3, BufAssumption, Zenon DEF Bytes
  <2>5. Holds(m, j, h[f], e)
    BY <1>1, <2>2, <2>3, <2>4, HoldsValue, Zenon
  <2> HIDE DEF m, j
  <2>6. Sets(h, k, Done(m, j), {f, g}, {f}, h[f], e)
    BY <1>1, <1>4, <2>0, <2>2, <2>3, <2>5, DoneSets, Zenon
  <2> QED
    BY <2>1, <2>6, Zenon DEF m, j
<1> QED
  BY <1>3, <1>4, Zenon

\* A ProtoSink keeps the buffer it unmarshalled.
LEMMA UnmarshalledSets ==
  ASSUME NEW h \in [Bufs -> Seq(Byte)], NEW k \in SinkType, k.kind = "proto",
         NEW f \in Bufs, k.buf # f, NEW F, f \in F, NEW e \in Expiries \cup {0}
  PROVE  Sets(h, k, Unmarshalled(h, k, f, e), F, {f}, h[f], e)
<1> DEFINE v == ByteView(f, <<>>, e)
           j == [k EXCEPT !.val = h[f], !.v = v]
           out == Unmarshalled(h, k, f, e)
<1>1. v \in Views /\ v.b = f /\ v.e = e
  BY DEF ByteView, Views
<1>2. Bytes(h, v) = h[f]
  BY <1>1, BufAssumption, Zenon DEF Bytes
<1>3. CASE h[f] \in Encodings
  <2>1. out = Done(h, j)
    BY <1>3, Zenon DEF Unmarshalled
  <2>0. j \in SinkType
    BY <1>1, Zenon DEF SinkType
  <2>2. /\ j.kind = "proto" /\ j.buf = k.buf /\ j.v = v
        /\ j.val = h[f] /\ j.room = k.room
    BY <1>1, Zenon DEF SinkType
  <2>3. Holds(h, j, h[f], e)
    BY <1>1, <1>2, <2>2, HoldsValue, Zenon
  <2> HIDE DEF j
  <2>4. Sets(h, k, Done(h, j), F, {f}, h[f], e)
    BY <1>1, <2>0, <2>2, <2>3, DoneSets, Zenon
  <2> QED
    BY <2>1, <2>4, Zenon DEF j
<1>4. CASE h[f] \notin Encodings
  <2>1. out = [heap |-> h, sink |-> k, ok |-> FALSE]
    BY <1>4, Zenon DEF Unmarshalled
  <2> QED
    BY <2>1 DEF Sets, Output
<1> QED
  BY <1>3, <1>4, Zenon

\* A method that first fills new buffers.
LEMMA SetsAfterFill ==
  ASSUME NEW h, NEW m, NEW k, NEW out, NEW F, NEW B, NEW d, NEW e,
         \A y \in Bufs : y \notin F => m[y] = h[y],
         Sets(m, k, out, F, B, d, e)
  PROVE  Sets(h, k, out, F, B, d, e)
  BY Zenon DEF Sets

\* Filling a new buffer f leaves a sink's destination ready.
LEMMA Filled ==
  ASSUME NEW h \in [Bufs -> Seq(Byte)], NEW k \in SinkType, Ready(h, k),
         NEW f \in Bufs, k.buf # f, NEW d \in Seq(Byte)
  PROVE  LET m == [h EXCEPT ![f] = d]
         IN  /\ m \in [Bufs -> Seq(Byte)] /\ m[f] = d /\ Ready(m, k)
             /\ \A y \in Bufs : y # f => m[y] = h[y]
  BY Zenon DEF Ready

\* SetString of every sink.
LEMMA SetStringSets ==
  ASSUME NEW h \in [Bufs -> Seq(Byte)], NEW k \in SinkType, Ready(h, k),
         NEW d \in Seq(Byte), NEW e \in Expiries \cup {0},
         NEW f \in Bufs, k.buf # f, NEW F, f \in F
  PROVE  Sets(h, k, SetString(h, k, d, e, f), F, {f}, d, e)
<1> DEFINE v == ByteView(Nil, d, e)
           m == [h EXCEPT ![f] = d]
           out == SetString(h, k, d, e, f)
<1>1. v \in Views /\ v.b = Nil /\ v.e = e /\ v.s = d
  BY Zenon DEF ByteView, Views
<1>2. \A g : Bytes(g, v) = d
  BY <1>1, Zenon DEF Bytes
<1>3. /\ m \in [Bufs -> Seq(Byte)] /\ m[f] = d /\ Ready(m, k)
      /\ \A y \in Bufs : y # f => m[y] = h[y]
  BY Filled, Zenon
<1> HIDE DEF m
<1>4. Len(d) \in Nat
  OBVIOUS
<1>5. CASE k.kind = "string"
  <2> DEFINE j == [k EXCEPT !.val = d, !.v = v]
  <2>1. out = Done(h, j)
    BY <1>5, Zenon DEF SetString
  <2>2. j \in SinkType
    BY <1>1, Zenon DEF SinkType
  <2>3. j.kind = "string" /\ j.val = d /\ j.v = v /\ j.buf = k.buf /\ j.room = k.room
    BY <1>5, Zenon DEF SinkType
  <2>4. Holds(h, j, d, e)
    BY <1>1, <1>2, <2>3, HoldsValue, Zenon
  <2> HIDE DEF j
  <2>5. Sets(h, k, Done(h, j), F, {f}, d, e)
    BY <1>1, <1>3, <1>5, <2>2, <2>3, <2>4, DoneSets, Zenon
  <2> QED
    BY <2>1, <2>5, Zenon
<1>6. CASE k.kind = "view"
  <2> DEFINE j == [k EXCEPT !.v = v]
  <2>1. out = Done(h, j)
    BY <1>6, Zenon DEF SetString
  <2>2. j \in SinkType
    BY <1>1, Zenon DEF SinkType
  <2>3. j.kind = "view" /\ j.v = v /\ j.buf = k.buf /\ j.room = k.room
    BY <1>6, Zenon DEF SinkType
  <2>4. Holds(h, j, d, e)
    BY <1>1, <1>2, <2>3, HoldsValue, Zenon
  <2> HIDE DEF j
  <2>5. Sets(h, k, Done(h, j), F, {f}, d, e)
    BY <1>1, <1>3, <1>6, <2>2, <2>3, <2>4, DoneSets, Zenon
  <2> QED
    BY <2>1, <2>5, Zenon
<1>7. CASE k.kind = "proto"
  <2>1. out = Unmarshalled(m, k, f, e)
    BY <1>7, Zenon DEF SetString, m
  <2>2. Sets(m, k, Unmarshalled(m, k, f, e), F, {f}, m[f], e)
    BY <1>3, <1>7, UnmarshalledSets, Zenon
  <2>3. Sets(m, k, out, F, {f}, d, e)
    BY <1>3, <2>1, <2>2, Zenon
  <2> QED
    BY <1>3, <2>3, SetsAfterFill, Zenon
<1>8. CASE k.kind = "alloc"
  <2> DEFINE j == [k EXCEPT !.buf = f, !.len = Len(d), !.v = v]
  <2>1. out = Done(m, j)
    BY <1>8, Zenon DEF SetString, m
  <2>2. j \in SinkType
    BY <1>1, <1>4, Zenon DEF SinkType
  <2>3. j.kind = "alloc" /\ j.v = v /\ j.buf = f /\ j.len = Len(d) /\ j.room = k.room
    BY <1>8, Zenon DEF SinkType
  <2>4. Holds(m, j, d, e)
    BY <1>1, <1>2, <1>3, <2>3, HoldsValue, Zenon
  <2> HIDE DEF j
  <2>5. Sets(h, k, Done(m, j), F, {f}, d, e)
    BY <1>1, <1>3, <1>8, <2>2, <2>3, <2>4, DoneSets, Zenon
  <2> QED
    BY <2>1, <2>5, Zenon
<1>9. CASE k.kind = "trunc"
  <2>1. out = WithView(Truncated(h, k, d), v)
    BY <1>9, Zenon DEF SetString
  <2> QED
    BY <1>1, <1>2, <1>9, <2>1, WithViewSets, Zenon
<1> QED
  BY <1>5, <1>6, <1>7, <1>8, <1>9, Zenon DEF SinkType, AllKinds

\* SetBytes and SetProto of a sink that is not a StringSink, once the bytes
\* are in the buffer f of its own.
LEMMA KeptSets ==
  ASSUME NEW m \in [Bufs -> Seq(Byte)], NEW k \in SinkType, Ready(m, k),
         NEW f \in Bufs, NEW g \in Bufs, f # g, k.buf \notin {f, g},
         NEW e \in Expiries \cup {0}, NEW out,
         \/ k.kind = "view" /\ out = Done(m, [k EXCEPT !.v = ByteView(f, <<>>, e)])
         \/ k.kind = "proto" /\ out = Unmarshalled(m, k, f, e)
         \/ k.kind \in {"alloc", "trunc"} /\ out = setBytesOwned(m, k, f, e, g)
  PROVE  Sets(m, k, out, {f, g}, {f}, m[f], e)
<1>1. CASE k.kind = "view" /\ out = Done(m, [k EXCEPT !.v = ByteView(f, <<>>, e)])
  <2> DEFINE v == ByteView(f, <<>>, e)
             j == [k EXCEPT !.v = v]
  <2>1. v \in Views /\ v.b = f /\ v.e = e
    BY DEF ByteView, Views
  <2>2. Bytes(m, v) = m[f]
    BY <2>1, BufAssumption, Zenon DEF Bytes
  <2>3. j \in SinkType
    BY <2>1, Zenon DEF SinkType
  <2>4. j.kind = "view" /\ j.v = v /\ j.buf = k.buf /\ j.room = k.room
    BY <1>1, Zenon DEF SinkType
  <2>5. Holds(m, j, m[f], e)
    BY <2>1, <2>2, <2>4, HoldsValue, Zenon
  <2> HIDE DEF j
  <2>6. Sets(m, k, Done(m, j), {f, g}, {f}, m[f], e)
    BY <1>1, <2>1, <2>3, <2>4, <2>5, DoneSets, Zenon
  <2> QED
    BY <1>1, <2>6, Zenon DEF j
<1>2. CASE k.kind = "proto" /\ out = Unmarshalled(m, k, f, e)
  BY <1>2, UnmarshalledSets, Zenon
<1>3. CASE k.kind \in {"alloc", "trunc"} /\ out = setBytesOwned(m, k, f, e, g)
  BY <1>3, OwnedSets, Zenon
<1> QED
  BY <1>1, <1>2, <1>3, Zenon

\* SetBytes of every sink: x stays the caller's.
LEMMA SetBytesSets ==
  ASSUME NEW h \in [Bufs -> Seq(Byte)], NEW k \in SinkType, Ready(h, k),
         NEW x \in Bufs, NEW e \in Expiries \cup {0},
         NEW f \in Bufs, NEW g \in Bufs, f # g, k.buf \notin {f, g}
  PROVE  Sets(h, k, SetBytes(h, k, x, e, f, g), {f, g}, {f}, h[x], e)
<1> DEFINE m == [h EXCEPT ![f] = h[x]]
           out == SetBytes(h, k, x, e, f, g)
<1>1. h[x] \in Seq(Byte)
  BY Zenon
<1>2. /\ m \in [Bufs -> Seq(Byte)] /\ m[f] = h[x] /\ Ready(m, k)
      /\ \A y \in Bufs : y # f => m[y] = h[y]
  BY <1>1, Filled, Zenon
<1> HIDE DEF m
<1>3. CASE k.kind = "string"
  <2>1. out = SetString(h, k, h[x], e, f)
    BY <1>3, Zenon DEF SetBytes
  <2>2. Sets(h, k, SetString(h, k, h[x], e, f), {f, g}, {f}, h[x], e)
    BY <1>1, SetStringSets, Zenon
  <2> QED
    BY <2>1, <2>2, Zenon
<1>4. CASE k.kind # "string"
  <2>1. \/ k.kind = "view" /\ out = Done(m, [k EXCEPT !.v = ByteView(f, <<>>, e)])
        \/ k.kind = "proto" /\ out = Unmarshalled(m, k, f, e)
        \/ k.kind \in {"alloc", "trunc"} /\ out = setBytesOwned(m, k, f, e, g)
    <3>1. k.kind \in {"view", "proto", "alloc", "trunc"}
      BY <1>4, Zenon DEF SinkType, AllKinds
    <3> QED
      BY <3>1, Zenon DEF SetBytes, m
  <2> HIDE DEF out
  <2>2. Sets(m, k, out, {f, g}, {f}, m[f], e)
    BY <1>2, <2>1, KeptSets, Zenon
  <2>3. Sets(m, k, out, {f, g}, {f}, h[x], e)
    BY <1>2, <2>2, Zenon
  <2>4. Sets(h, k, out, {f, g}, {f}, h[x], e)
    BY <1>2, <2>3, SetsAfterFill, Zenon
  <2> QED
    BY <2>4, Zenon DEF out
<1> QED
  BY <1>3, <1>4, Zenon

\* SetProto of every sink.
LEMMA SetProtoSets ==
  ASSUME NEW h \in [Bufs -> Seq(Byte)], NEW k \in SinkType, Ready(h, k),
         NEW d \in Seq(Byte), NEW e \in Expiries \cup {0},
         NEW f \in Bufs, NEW g \in Bufs, f # g, k.buf \notin {f, g}
  PROVE  Sets(h, k, SetProto(h, k, d, e, f, g), {f, g}, {f}, d, e)
<1> DEFINE m == [h EXCEPT ![f] = d]
           out == SetProto(h, k, d, e, f, g)
<1>2. /\ m \in [Bufs -> Seq(Byte)] /\ m[f] = d /\ Ready(m, k)
      /\ \A y \in Bufs : y # f => m[y] = h[y]
  BY Filled, Zenon
<1> HIDE DEF m
<1>3. CASE k.kind = "string"
  <2> DEFINE v == [k.v EXCEPT !.b = f, !.e = e]
             j == [k EXCEPT !.val = d, !.v = v]
  <2>1. out = Done(m, j)
    <3>1. out = Done(m, [k EXCEPT !.val = d, !.v.b = f, !.v.e = e])
      BY <1>3, Zenon DEF SetProto, m
    <3>2. [k EXCEPT !.val = d, !.v.b = f, !.v.e = e] = j
      BY Zenon DEF SinkType, Views
    <3> QED
      BY <3>1, <3>2, Zenon
  <2>2. k.v \in Views
    BY Zenon DEF SinkType
  <2>3. v \in Views
    BY <2>2, Zenon DEF Views
  <2>4. v.b = f /\ v.e = e
    BY <2>2, Zenon DEF Views
  <2> HIDE DEF v
  <2>5. Bytes(m, v) = d
    BY <1>2, <2>4, BufAssumption, Zenon DEF Bytes
  <2>6. j \in SinkType
    BY <2>3, Zenon DEF SinkType
  <2>7. j.kind = "string" /\ j.val = d /\ j.v = v /\ j.buf = k.buf /\ j.room = k.room
    BY <1>3, Zenon DEF SinkType
  <2> HIDE DEF j
  <2>8. Holds(m, j, d, e)
    BY <2>4, <2>5, <2>7, HoldsValue, Zenon
  <2>9. Sets(h, k, Done(m, j), {f, g}, {f}, d, e)
    BY <1>2, <1>3, <2>4, <2>6, <2>7, <2>8, DoneSets, Zenon
  <2> QED
    BY <2>1, <2>9, Zenon DEF j
<1>4. CASE k.kind # "string"
  <2>1. \/ k.kind = "view" /\ out = Done(m, [k EXCEPT !.v = ByteView(f, <<>>, e)])
        \/ k.kind = "proto" /\ out = Unmarshalled(m, k, f, e)
        \/ k.kind \in {"alloc", "trunc"} /\ out = setBytesOwned(m, k, f, e, g)
    <3>1. k.kind \in {"view", "proto", "alloc", "trunc"}
      BY <1>4, Zenon DEF SinkType, AllKinds
    <3> QED
      BY <3>1, Zenon DEF SetProto, m
  <2> HIDE DEF out
  <2>2. Sets(m, k, out, {f, g}, {f}, m[f], e)
    BY <1>2, <2>1, KeptSets, Zenon
  <2>3. Sets(m, k, out, {f, g}, {f}, d, e)
    BY <1>2, <2>2, Zenon
  <2>4. Sets(h, k, out, {f, g}, {f}, d, e)
    BY <1>2, <2>3, SetsAfterFill, Zenon
  <2> QED
    BY <2>4, Zenon DEF out
<1> QED
  BY <1>3, <1>4, Zenon

\* SetSinkView, from a cache or a flight: the two sinks that take a view keep
\* it, the others a view of their own.
LEMMA SetSinkViewSets ==
  ASSUME NEW h \in [Bufs -> Seq(Byte)], NEW k \in SinkType, Ready(h, k),
         NEW v \in Views, v.b # Nil => v.b # k.buf,
         NEW f \in Bufs, NEW g \in Bufs, f # g, {k.buf, v.b} \cap {f, g} = {}
  PROVE  Sets(h, k, SetSinkView(h, k, v, f, g), {f, g}, {f, v.b}, Bytes(h, v), v.e)
<1> DEFINE d == Bytes(h, v)
           m == [h EXCEPT ![f] = d]
           out == SetSinkView(h, k, v, f, g)
<1>1. d \in Seq(Byte) /\ v.e \in Expiries \cup {0} /\ v.b \in Bufs \cup {Nil} /\ v.s \in Seq(Byte)
  BY Zenon DEF Bytes, Views
<1>2. ViewLen(h, v) = Len(d) /\ Len(d) \in Nat
  BY <1>1 DEF ViewLen, Bytes
<1> HIDE DEF d
<1>3. /\ m \in [Bufs -> Seq(Byte)] /\ m[f] = d
      /\ \A y \in Bufs : y # f => m[y] = h[y]
  BY <1>1, Filled, ZenonT(60)
<1> HIDE DEF m
<1>4. Bytes(m, v) = d
  BY <1>1, <1>3, Zenon DEF Bytes, d
<1>5. CASE k.kind = "view"
  <2> DEFINE j == [k EXCEPT !.v = v]
  <2>1. out = Done(h, j)
    BY <1>5, Zenon DEF SetSinkView, setView
  <2>2. j \in SinkType
    BY Zenon DEF SinkType
  <2>3. j.kind = "view" /\ j.v = v /\ j.buf = k.buf /\ j.room = k.room
    BY <1>5, Zenon DEF SinkType
  <2> HIDE DEF j
  <2>4. Holds(h, j, d, v.e)
    BY <2>3, HoldsValue, Zenon DEF d
  <2>5. Sets(h, k, Done(h, j), {f, g}, {f, v.b}, d, v.e)
    BY <1>5, <2>2, <2>3, <2>4, DoneSets, Zenon
  <2> QED
    BY <2>1, <2>5, Zenon DEF d, j
<1>6. CASE k.kind = "alloc"
  <2> DEFINE j == [k EXCEPT !.buf = f, !.len = Len(d), !.v = v]
  <2>1. out = Done(m, j)
    BY <1>2, <1>6, Zenon DEF SetSinkView, setView, m, d
  <2>2. j \in SinkType
    BY <1>2, Zenon DEF SinkType
  <2>3. j.kind = "alloc" /\ j.v = v /\ j.buf = f /\ j.len = Len(d) /\ j.room = k.room
    BY <1>6, Zenon DEF SinkType
  <2> HIDE DEF j
  <2>4. Holds(m, j, d, v.e)
    BY <1>3, <1>4, <2>3, HoldsValue, Zenon
  <2>5. Sets(h, k, Done(m, j), {f, g}, {f, v.b}, d, v.e)
    BY <1>3, <1>6, <2>2, <2>3, <2>4, DoneSets, Zenon
  <2> QED
    BY <2>1, <2>5, Zenon DEF d, j
<1>7. CASE k.kind \notin {"view", "alloc"}
  <2>1. CASE v.b # Nil
    <3>1. out = SetBytes(h, k, v.b, v.e, f, g)
      BY <1>7, <2>1, Zenon DEF SetSinkView
    <3>2. d = h[v.b] /\ v.b \in Bufs
      BY <1>1, <2>1, Zenon DEF d, Bytes
    <3>3. Sets(h, k, SetBytes(h, k, v.b, v.e, f, g), {f, g}, {f}, h[v.b], v.e)
      BY <1>1, <3>2, SetBytesSets, Zenon
    <3> HIDE DEF out
    <3>4. Sets(h, k, out, {f, g}, {f}, d, v.e)
      BY <3>1, <3>2, <3>3, Zenon
    <3>5. Sets(h, k, out, {f, g}, {f, v.b}, d, v.e)
      BY <3>4, Zenon DEF Sets
    <3> QED
      BY <3>5, Zenon DEF out, d
  <2>2. CASE v.b = Nil
    <3>1. out = SetString(h, k, v.s, v.e, f)
      BY <1>7, <2>2, Zenon DEF SetSinkView
    <3>2. d = v.s
      BY <2>2, Zenon DEF d, Bytes
    <3>3. Sets(h, k, SetString(h, k, v.s, v.e, f), {f, g}, {f}, v.s, v.e)
      BY <1>1, SetStringSets, Zenon
    <3> HIDE DEF out
    <3>4. Sets(h, k, out, {f, g}, {f}, d, v.e)
      BY <3>1, <3>2, <3>3, Zenon
    <3>5. Sets(h, k, out, {f, g}, {f, v.b}, d, v.e)
      BY <3>4, Zenon DEF Sets
    <3> QED
      BY <3>5, Zenon DEF out, d
  <2> QED
    BY <2>1, <2>2, Zenon
<1> QED
  BY <1>5, <1>6, <1>7, Zenon

-------------------------------------------------------------------------------
(* The inductive invariant *)

Waiting == {"lookup", "do", "load", "wait", "fetch", "publish", "deliver"}
Full == {"publishDone", "done"}

\* Nobody who may write holds the buffer of a view, save that the caller of
\* Set holds the slice it gave, and no caller in a call does even that.
ItemOK(it) ==
  /\ it.v.b # Nil =>
       /\ it.v.b # getter
       /\ \A c \in Callers : (~ it.shared \/ pc[c] # "idle") => it.v.b # sink[c].buf
  /\ it # NoItem /\ ~ it.shared => Bytes(heap, it.v) = it.d /\ it.v.e = it.e

SinkOK(c) ==
  /\ sink[c].buf # Nil =>
       sink[c].buf # getter /\ \A u \in Callers \ {c} : sink[u].buf # sink[c].buf
  /\ pc[c] \in Waiting => Ready(heap, sink[c])
  /\ pc[c] \in {"publish", "deliver"} \cup Full => got[c] # NoItem
  /\ pc[c] \in Full /\ ~ got[c].shared =>
       /\ Holds(heap, sink[c], got[c].d, got[c].e)
       /\ sink[c].v.b # Nil => sink[c].v.b \notin Writable

\* Who may write where, and what every view and every destination holds.
Ownership ==
  /\ \A it \in Items : ItemOK(it)
  /\ \A c \in Callers : SinkOK(c)

\* CHOOSE from a set that is not empty.
LEMMA ChooseMember == \A S : S # {} => (CHOOSE x \in S : TRUE) \in S
  BY Zenon

\* make returns buffers that nobody refers to.
LEMMA Allocated ==
  ASSUME CanAllocate
  PROVE  /\ New \in Fresh /\ New2 \in Fresh /\ New3 \in Fresh
         /\ New # New2 /\ New # New3 /\ New2 # New3
         /\ New \in Bufs /\ New2 \in Bufs /\ New3 \in Bufs
<1>1. Fresh \ {New, New2} # {} /\ Fresh \ {New} # {} /\ Fresh # {}
  BY Zenon DEF CanAllocate
<1>2. New \in Fresh
  BY <1>1, ChooseMember, Zenon DEF New
<1>3. New2 \in Fresh \ {New}
  BY <1>1, ChooseMember, Zenon DEF New2
<1>4. New3 \in Fresh \ {New, New2}
  BY <1>1, ChooseMember, Zenon DEF New3
<1>5. Fresh \subseteq Bufs
  BY Zenon DEF Fresh
<1> QED
  BY <1>2, <1>3, <1>4, <1>5, Zenon

\* Every buffer somebody refers to is in use, before and after a step.
LEMMA InUse ==
  /\ getter \notin Fresh
  /\ \A it \in Items : it.v.b \notin Fresh
  /\ \A c \in Callers : sink[c].buf \notin Fresh /\ sink[c].v.b \notin Fresh
  /\ \A it \in Items' : it.v.b \in Used'
  /\ \A c \in Callers : sink'[c].buf \in Used' /\ sink'[c].v.b \in Used'
<1>1. /\ getter \in Used
      /\ \A it \in Items : it.v.b \in Used
      /\ \A c \in Callers : sink[c].buf \in Used /\ sink[c].v.b \in Used
  BY DEF Used, Items
<1>2. /\ \A it \in Items' : it.v.b \in Used'
      /\ \A c \in Callers : sink'[c].buf \in Used' /\ sink'[c].v.b \in Used'
  BY DEF Used, Items
<1> QED
  BY <1>1, <1>2, Zenon DEF Fresh

\* The step writes W at most.
Frame(W) == \A y \in Bufs : y \in Used' /\ y \notin W => heap'[y] = heap[y]

\* Slices change hands only by being new.
Moves ==
  /\ getter' \in {getter} \cup Fresh
  /\ \A c \in Callers : sink'[c].buf \in {sink[c].buf, Nil} \cup Fresh
  /\ \A c \in Callers : pc'[c] # "idle" => pc[c] # "idle" \/ sink'[c].buf \in {Nil} \cup Fresh

\* What Collect leaves of h.
LEMMA Collected ==
  ASSUME NEW h \in [Bufs -> Seq(Byte)], Collect(h),
         NEW W, \A y \in Bufs : y \notin W => h[y] = heap[y]
  PROVE  /\ heap' \in [Bufs -> Seq(Byte)] /\ Frame(W)
         /\ \A y \in Bufs : y \in Used' => heap'[y] = h[y]
<1>1. \A y \in Bufs : heap'[y] = IF y \in Used' THEN h[y] ELSE <<>>
  BY Zenon DEF Collect
<1>2. <<>> \in Seq(Byte)
  OBVIOUS
<1>3. heap' = [x \in Bufs |-> IF x \in Used' THEN h[x] ELSE <<>>]
  BY Zenon DEF Collect
<1>4. heap' \in [Bufs -> Seq(Byte)]
  BY <1>2, <1>3, Zenon
<1> QED
  BY <1>1, <1>4, Zenon DEF Frame

\* A view that was there before a step is as it was after it.
LEMMA KeepItem ==
  ASSUME NEW W, Frame(W), Moves, NEW it \in Items, it \in Items', ItemOK(it),
         it.v.b \in Bufs \cup {Nil}, it.v.b \notin W
  PROVE  ItemOK(it)'
<1>1. it.v.b \notin Fresh /\ it.v.b \in Used'
  BY InUse, Zenon
<1>2. ASSUME it.v.b # Nil
      PROVE  /\ it.v.b # getter'
             /\ \A c \in Callers : (~ it.shared \/ pc'[c] # "idle") => it.v.b # sink'[c].buf
  <2>1. /\ it.v.b # getter
        /\ \A c \in Callers : (~ it.shared \/ pc[c] # "idle") => it.v.b # sink[c].buf
    BY <1>2, Zenon DEF ItemOK
  <2>2. it.v.b # getter'
    BY <1>1, <2>1, Zenon DEF Moves
  <2>3. ASSUME NEW c \in Callers, ~ it.shared \/ pc'[c] # "idle"
        PROVE  it.v.b # sink'[c].buf
    BY <1>1, <1>2, <2>1, <2>3, Zenon DEF Moves
  <2> QED
    BY <2>2, <2>3, Zenon
<1>3. Bytes(heap', it.v) = Bytes(heap, it.v)
  BY <1>1, Zenon DEF Frame, Bytes
<1> QED
  BY <1>2, <1>3, Zenon DEF ItemOK

\* NoItem is no view.
LEMMA NoItemOK == ItemOK(NoItem)'
  BY Zenon DEF ItemOK, NoItem, Item, NoView, ByteView

\* A caller the step leaves alone, or moves between phases of the same kind,
\* keeps its destination and what it holds.
LEMMA KeepSink ==
  ASSUME TypeOK, NEW W, Frame(W), Moves, NEW c \in Callers, SinkOK(c),
         sink'[c] = sink[c],
         \A u \in Callers \ {c} : sink'[u].buf \in {sink[u].buf, Nil} \cup Fresh,
         sink[c].buf \notin W,
         pc[c] \in Full /\ ~ got[c].shared => sink[c].v.b \notin W,
         pc'[c] \in Waiting => pc[c] \in Waiting,
         pc'[c] \in {"publish", "deliver"} => got'[c] # NoItem,
         pc'[c] \in Full => pc[c] \in Full /\ got'[c] = got[c]
  PROVE  SinkOK(c)'
<1> DEFINE k == sink[c]
<1>1. k \in SinkType
  BY Zenon DEF TypeOK
<1>2. k.buf \in Bufs \cup {Nil} /\ k.v.b \in Bufs \cup {Nil}
  BY <1>1, Zenon DEF SinkType, Views
<1>3. k.buf \notin Fresh /\ k.v.b \notin Fresh /\ k.buf \in Used' /\ k.v.b \in Used'
  BY InUse, Zenon
<1>4. k.buf # Nil => heap'[k.buf] = heap[k.buf]
  BY <1>2, <1>3, Zenon DEF Frame
<1>5. k.buf # Nil => k.buf # getter' /\ \A u \in Callers \ {c} : sink'[u].buf # k.buf
  BY <1>3, Zenon DEF SinkOK, Moves
<1>6. ASSUME pc'[c] \in Waiting PROVE Ready(heap', k)
  <2>1. Ready(heap, k)
    BY <1>6, Zenon DEF SinkOK
  <2>2. CASE k.buf = Nil
    BY <2>1, <2>2, BufAssumption, Zenon DEF Ready
  <2>3. CASE k.buf # Nil
    BY <1>4, <2>1, <2>3, Zenon DEF Ready
  <2> QED
    BY <2>2, <2>3, Zenon
<1>7. ASSUME pc'[c] \in Full, ~ got'[c].shared
      PROVE  /\ Holds(heap', k, got'[c].d, got'[c].e)
             /\ k.v.b # Nil => k.v.b \notin Writable'
  <2>1. /\ Holds(heap, k, got[c].d, got[c].e)
        /\ k.v.b # Nil => k.v.b \notin Writable
        /\ got'[c] = got[c] /\ k.v.b \notin W
    BY <1>7, Zenon DEF SinkOK
  <2>2. Bytes(heap', k.v) = Bytes(heap, k.v)
    BY <1>2, <1>3, <2>1, Zenon DEF Bytes, Frame
  <2>3. Holds(heap', k, got[c].d, got[c].e)
    <3>1. k.buf \in Bufs => heap'[k.buf] = heap[k.buf]
      BY <1>4, BufAssumption, Zenon
    <3> QED
      BY <2>1, <2>2, <3>1, HoldsKept, Zenon
  <2>4. k.v.b # Nil => k.v.b \notin Writable'
    BY <1>3, <2>1, Zenon DEF Writable, Moves
  <2> QED
    BY <2>1, <2>3, <2>4, Zenon
<1> QED
  BY <1>5, <1>6, <1>7, Zenon DEF SinkOK

IndInv == TypeOK /\ Ownership

\* The view of a sink before its method is called.
LEMMA NoViewType == NoView \in Views
<1>1. <<>> \in Seq(Byte)
  OBVIOUS
<1> QED
  BY <1>1, Zenon DEF NoView, Views, ByteView

\* The item of an empty cache.
LEMMA NoItemType == NoItem \in ItemType
  BY NoViewType, Zenon DEF NoItem, Item, ItemType

\* The types an invariant's reader needs most.
LEMMA Types ==
  ASSUME TypeOK
  PROVE  /\ \A it \in Items : it \in ItemType /\ it.v \in Views /\ it.v.b \in Bufs \cup {Nil}
         /\ \A c \in Callers : /\ sink[c] \in SinkType /\ got[c] \in ItemType
                               /\ sink[c].buf \in Bufs \cup {Nil}
                               /\ sink[c].v.b \in Bufs \cup {Nil}
<1>1. \A it \in Items : it \in ItemType
  BY Zenon DEF TypeOK, Items
<1>2. \A it \in ItemType : it.v \in Views
  BY Zenon DEF ItemType
<1>3. \A v \in Views : v.b \in Bufs \cup {Nil}
  BY Zenon DEF Views
<1>4. \A c \in Callers : sink[c] \in SinkType /\ got[c] \in ItemType
  BY Zenon DEF TypeOK
<1>5. \A k \in SinkType : k.buf \in Bufs \cup {Nil} /\ k.v \in Views
  BY Zenon DEF SinkType
<1> QED
  BY <1>1, <1>2, <1>3, <1>4, <1>5, Zenon

\* A step of caller c that writes only new buffers, or the destination of its
\* call, disturbs no view and no other caller.
LEMMA OthersKept ==
  ASSUME IndInv, NEW c \in Callers, NEW W \in SUBSET Bufs,
         W \subseteq Fresh \/ (W \subseteq Fresh \cup {sink[c].buf} /\ pc[c] # "idle"),
         Frame(W), Moves,
         \A u \in Callers \ {c} : sink'[u] = sink[u] /\ pc'[u] = pc[u] /\ got'[u] = got[u]
  PROVE  /\ \A it \in Items : it \in Items' => ItemOK(it)'
         /\ \A u \in Callers \ {c} : SinkOK(u)'
<1>0. TypeOK /\ (\A it \in Items : ItemOK(it)) /\ (\A u \in Callers : SinkOK(u))
  BY Zenon DEF IndInv, Ownership
<1>1. ASSUME NEW it \in Items, it \in Items' PROVE ItemOK(it)'
  <2>1. it.v.b \in Bufs \cup {Nil}
    BY <1>0, Types, Zenon
  <2>2. it.v.b \notin W
    <3>1. it.v.b \notin Fresh
      BY InUse, Zenon
    <3>2. it.v.b # Nil /\ pc[c] # "idle" => it.v.b # sink[c].buf
      BY <1>0, Zenon DEF ItemOK
    <3> QED
      BY <2>1, <3>1, <3>2, BufAssumption, Zenon
  <2> QED
    BY <1>0, <1>1, <2>1, <2>2, KeepItem, Zenon
<1>2. ASSUME NEW u \in Callers \ {c} PROVE SinkOK(u)'
  <2>1. /\ sink[u].buf \in Bufs \cup {Nil} /\ sink[u].v.b \in Bufs \cup {Nil}
        /\ sink[u].buf \notin Fresh /\ sink[u].v.b \notin Fresh
    BY <1>0, Types, InUse, Zenon
  <2>2. sink[u].buf \notin W
    <3>1. sink[u].buf # Nil => sink[c].buf # sink[u].buf
      BY <1>0, Zenon DEF SinkOK
    <3> QED
      BY <2>1, <3>1, BufAssumption, Zenon
  <2>3. pc[u] \in Full /\ ~ got[u].shared => sink[u].v.b \notin W
    <3>1. pc[u] \in Full /\ ~ got[u].shared /\ sink[u].v.b # Nil => sink[u].v.b # sink[c].buf
      <4>1. sink[c].buf \in Writable
        BY Zenon DEF Writable
      <4>2. SinkOK(u)
        BY <1>0, Zenon
      <4> QED
        BY <4>1, <4>2, Zenon DEF SinkOK
    <3> QED
      BY <2>1, <3>1, BufAssumption, Zenon
  <2>4. \A w \in Callers \ {u} : sink'[w].buf \in {sink[w].buf, Nil} \cup Fresh
    BY Zenon DEF Moves
  <2>5. pc'[u] \in {"publish", "deliver"} => got'[u] # NoItem
    BY <1>0, Zenon DEF SinkOK
  <2> QED
    BY <1>0, <2>2, <2>3, <2>4, <2>5, KeepSink, Zenon
<1> QED
  BY <1>1, <1>2, Zenon

\* What is left to show of such a step.
LEMMA StepOf ==
  ASSUME IndInv, NEW c \in Callers, NEW W \in SUBSET Bufs,
         W \subseteq Fresh \/ (W \subseteq Fresh \cup {sink[c].buf} /\ pc[c] # "idle"),
         Frame(W), Moves,
         \A u \in Callers \ {c} : sink'[u] = sink[u] /\ pc'[u] = pc[u] /\ got'[u] = got[u],
         TypeOK', SinkOK(c)', \A it \in Items' : it \in Items \/ ItemOK(it)'
  PROVE  IndInv'
<1>1. /\ \A it \in Items : it \in Items' => ItemOK(it)'
      /\ \A u \in Callers \ {c} : SinkOK(u)'
  BY OthersKept, Zenon
<1> QED
  BY <1>1, Zenon DEF IndInv, Ownership

\* A step of caller c that only moves it on, with a view it found.
LEMMA MoveOn ==
  ASSUME IndInv, NEW c \in Callers, NEW phase, NEW it \in Items,
         pc[c] \in {"lookup", "do", "load", "fetch"},
         phase \in {"do", "load", "wait", "fetch", "fail"} \/ (phase \in {"publish", "deliver"} /\ it # NoItem),
         pc' = [pc EXCEPT ![c] = phase],
         got' = got \/ got' = [got EXCEPT ![c] = it],
         phase \in {"publish", "deliver"} => got' = [got EXCEPT ![c] = it],
         flight' \in Callers \cup {Nil},
         UNCHANGED <<heap, main, hot, sink, getter, calls>>
  PROVE  IndInv'
<1>0. TypeOK /\ SinkOK(c)
  BY Zenon DEF IndInv, Ownership
<1>1. /\ DOMAIN pc = Callers /\ got \in [Callers -> ItemType] /\ it \in ItemType
      /\ pc \in [Callers -> Phases]
  BY <1>0, Types, Zenon DEF TypeOK
<1>2. /\ heap' = heap /\ main' = main /\ hot' = hot /\ sink' = sink
      /\ getter' = getter /\ calls' = calls
  BY Zenon
<1>3. /\ pc'[c] = phase
      /\ \A u \in Callers \ {c} : sink'[u] = sink[u] /\ pc'[u] = pc[u] /\ got'[u] = got[u]
      /\ got'[c] \in {got[c], it}
      /\ phase \in {"publish", "deliver"} => got'[c] = it
  <2>1. pc'[c] = phase /\ \A u \in Callers \ {c} : pc'[u] = pc[u]
    BY <1>1, Zenon
  <2>2. CASE got' = got /\ phase \notin {"publish", "deliver"}
    BY <1>2, <2>1, <2>2, Zenon
  <2>3. CASE got' = [got EXCEPT ![c] = it]
    <3>1. got'[c] = it /\ \A u \in Callers \ {c} : got'[u] = got[u]
      BY <1>1, <2>3, Zenon
    <3> QED
      BY <1>2, <2>1, <3>1, Zenon
  <2> QED
    BY <2>2, <2>3, Zenon
<1>4. TypeOK'
  <2>1. got' \in [Callers -> ItemType]
    BY <1>1, Zenon
  <2>2. pc' \in [Callers -> Phases]
    BY <1>1, Zenon DEF Phases
  <2> QED
    BY <1>0, <1>2, <2>1, <2>2, Zenon DEF TypeOK
<1> DEFINE W == {}
<1>5. Frame(W) /\ Moves /\ (\A y : y \notin W) /\ W \in SUBSET Bufs /\ W \subseteq Fresh
  BY <1>2, <1>3, Zenon DEF Frame, Moves
<1> HIDE DEF W
<1>6. SinkOK(c)'
  <2>1. pc'[c] \notin Full /\ pc[c] \in Waiting
    BY <1>3, Zenon DEF Full, Waiting
  <2> QED
    BY <1>0, <1>2, <1>3, <1>5, <2>1, KeepSink, Zenon
<1>7. \A other \in Items' : other \in Items
  BY <1>2, <1>3, Zenon DEF Items
<1> QED
  BY <1>3, <1>4, <1>5, <1>6, <1>7, StepOf, Zenon

-------------------------------------------------------------------------------
(* The actions *)

\* A new sink is ready, and no other caller's.
LEMMA CallInv == ASSUME IndInv, NEW c \in Callers, NEW kind \in Kinds,
                        NEW len \in Lengths \cup {0}, Call(c, kind, len)
                 PROVE  IndInv'
<1> DEFINE k == sink'[c]
           h == IF kind = "trunc" THEN [heap EXCEPT ![New] = [i \in 1..len |-> Junk]] ELSE heap
<1>0. TypeOK /\ (\A u \in Callers : SinkOK(u))
  BY Zenon DEF IndInv, Ownership
<1>1. /\ New \in Fresh /\ New \in Bufs /\ New # Nil
      /\ New # getter /\ \A u \in Callers : New # sink[u].buf
  <2>1. New \in Fresh /\ New \in Bufs
    BY Allocated, Zenon DEF Call
  <2> QED
    BY <2>1, InUse, BufAssumption, Zenon
<1>2. len \in Nat /\ kind \in AllKinds
  BY SinkAssumption
<1>3. [i \in 1..len |-> Junk] \in Seq(Byte) /\ Len([i \in 1..len |-> Junk]) = len
  BY <1>2, DataAssumption
<1>4. heap \in [Bufs -> Seq(Byte)]
  BY <1>0, Zenon DEF TypeOK
<1>5. h \in [Bufs -> Seq(Byte)] /\ (kind = "trunc" => h[New] = [i \in 1..len |-> Junk])
      /\ \A y \in Bufs : y \notin Fresh => h[y] = heap[y]
  BY <1>1, <1>3, <1>4, Zenon
<1>6. Collect(h)
  BY Zenon DEF Call
<1> HIDE DEF h
<1>7. heap' \in [Bufs -> Seq(Byte)] /\ Frame(Fresh)
      /\ \A y \in Bufs : y \in Used' => heap'[y] = h[y]
  BY <1>5, <1>6, Collected, Zenon
<1>f. sink \in [Callers -> SinkType] /\ got \in [Callers -> ItemType]
      /\ DOMAIN pc = Callers
  BY <1>0, Zenon DEF TypeOK
<1> DEFINE new == IF kind = "trunc" THEN Sink(kind, New, len) ELSE Sink(kind, Nil, 0)
<1>g. /\ sink' = [sink EXCEPT ![c] = new]
      /\ pc' = [pc EXCEPT ![c] = "lookup"] /\ got' = [got EXCEPT ![c] = NoItem]
      /\ main' = main /\ hot' = hot /\ flight' = flight /\ getter' = getter
  BY Zenon DEF Call
<1>8. k = new
  BY <1>f, <1>g, Zenon
<1>9. /\ k \in SinkType /\ k.kind = kind /\ k.len = k.room
      /\ kind = "trunc" => k.buf = New /\ k.room = len
      /\ kind # "trunc" => k.buf = Nil
  <2>1. NoView \in Views
    BY NoViewType, Zenon
  <2>2. \A b \in Bufs \cup {Nil}, n \in Nat :
          /\ Sink(kind, b, n) \in SinkType /\ Sink(kind, b, n).kind = kind
          /\ Sink(kind, b, n).len = n /\ Sink(kind, b, n).room = n /\ Sink(kind, b, n).buf = b
    BY <1>2, <2>1 DEF Sink, SinkType
  <2> QED
    BY <1>1, <1>2, <1>8, <2>2
<1>10. /\ \A u \in Callers \ {c} : sink'[u] = sink[u] /\ pc'[u] = pc[u] /\ got'[u] = got[u]
       /\ pc'[c] = "lookup" /\ got'[c] = NoItem
       /\ main' = main /\ hot' = hot /\ flight' = flight /\ getter' = getter
  BY <1>f, <1>g, Zenon
<1>11. TypeOK'
  <2>1. sink' \in [Callers -> SinkType]
    BY <1>0, <1>9, Zenon DEF Call, TypeOK
  <2>2. NoItem \in ItemType
    BY NoItemType, Zenon
  <2>3. got' \in [Callers -> ItemType]
    BY <1>0, <2>2, Zenon DEF Call, TypeOK
  <2>4. pc' \in [Callers -> Phases]
    BY <1>0, Zenon DEF Call, TypeOK, Phases
  <2>5. calls' \in [Callers -> 0..MaxCalls]
    BY <1>0, BoundAssumption DEF Call, TypeOK
  <2>6. \A u \in Callers : sink'[u].kind = "trunc" => sink'[u].len <= sink'[u].room
    <3>1. k.len \in Nat /\ k.len <= k.room
      BY <1>9 DEF SinkType
    <3> QED
      BY <1>0, <1>10, <3>1, Zenon DEF TypeOK
  <2> QED
    BY <1>0, <1>7, <1>10, <2>1, <2>3, <2>4, <2>5, <2>6, Zenon DEF TypeOK
<1>12. Moves
  BY <1>1, <1>9, <1>10, Zenon DEF Moves
<1>14. \A it \in Items' : it \in Items \/ ItemOK(it)'
  <2>1. \A it \in Items' : it \in Items \/ it = NoItem
    BY <1>10, Zenon DEF Items
  <2> QED
    BY <2>1, NoItemOK, Zenon
<1>15. SinkOK(c)'
  <2>1. k.buf # Nil => k.buf # getter' /\ \A u \in Callers \ {c} : sink'[u].buf # k.buf
    BY <1>1, <1>9, <1>10, Zenon
  <2>2. Ready(heap', k)
    <3>1. kind = "trunc" => heap'[New] = [i \in 1..len |-> Junk]
      BY <1>1, <1>5, <1>7, <1>9, InUse, Zenon
    <3> QED
      BY <1>1, <1>3, <1>9, <3>1, Zenon DEF Ready
  <2> QED
    BY <1>10, <2>1, <2>2, Zenon DEF SinkOK, Full
<1> QED
  BY <1>7, <1>10, <1>11, <1>12, <1>14, <1>15, StepOf, Zenon DEF Fresh

\* What a lookup may find.
LEMMA CachedItems == Cached \subseteq Items /\ NoItem \notin Cached
  BY Zenon DEF Cached, Items

\* A lookup moves its caller on, with what it found.
LEMMA LookupCacheInv ==
  ASSUME IndInv, NEW c \in Callers, NEW hit \in {"publish", "deliver"},
         NEW miss \in {"do", "fetch"}, pc[c] \in {"lookup", "load"}, LookupCache(c, hit, miss)
  PROVE  IndInv'
<1>0. flight \in Callers \cup {Nil} /\ main \in Items
  BY Zenon DEF IndInv, TypeOK, Items
<1>1. /\ flight' \in Callers \cup {Nil}
      /\ UNCHANGED <<heap, main, hot, sink, getter, calls>>
  BY <1>0, Zenon DEF LookupCache
<1>2. CASE Cached = {}
  <2>1. got' = got /\ pc' = [pc EXCEPT ![c] = miss]
    BY <1>2, Zenon DEF LookupCache
  <2>2. miss \notin {"publish", "deliver"} /\ miss \in {"do", "load", "wait", "fetch", "fail"}
    BY Zenon
  <2> QED
    BY <1>0, <1>1, <2>1, <2>2, MoveOn, Zenon
<1>3. CASE Cached # {}
  <2>1. PICK it \in Cached : /\ got' = [got EXCEPT ![c] = it]
                             /\ pc' = [pc EXCEPT ![c] = hit]
    BY <1>3, Zenon DEF LookupCache
  <2>2. it \in Items /\ it # NoItem
    BY CachedItems, Zenon
  <2> QED
    BY <1>1, <2>1, <2>2, MoveOn, Zenon
<1> QED
  BY <1>2, <1>3, Zenon

\* The lookup of Get.
LEMMA LookupInv == ASSUME IndInv, NEW c \in Callers, Lookup(c) PROVE IndInv'
  BY LookupCacheInv, Zenon DEF Lookup

\* loadGroup.Do makes a caller leader or waiter.
LEMMA DoInv == ASSUME IndInv, NEW c \in Callers, Do(c) PROVE IndInv'
<1>0. flight \in Callers \cup {Nil} /\ main \in Items
  BY Zenon DEF IndInv, TypeOK, Items
<1>1. flight' \in Callers \cup {Nil} /\ pc[c] = "do"
  BY <1>0, Zenon DEF Do
<1>2. PICK phase \in {"load", "wait"} : pc' = [pc EXCEPT ![c] = phase]
  BY Zenon DEF Do
<1> QED
  BY <1>0, <1>1, <1>2, MoveOn, Zenon DEF Do

\* The second lookup, in load.
LEMMA RecheckInv == ASSUME IndInv, NEW c \in Callers, Recheck(c) PROVE IndInv'
  BY LookupCacheInv, Zenon DEF Recheck

\* A load that fails leaves the sink as it was.
LEMMA LoadFailsInv == ASSUME IndInv, NEW c \in Callers, LoadFails(c) PROVE IndInv'
<1>0. flight \in Callers \cup {Nil} /\ main \in Items
  BY Zenon DEF IndInv, TypeOK, Items
<1> QED
  BY <1>0, MoveOn, Zenon DEF LoadFails

\* More new buffers than a method uses.
LEMMA SetsMore ==
  ASSUME NEW h, NEW k, NEW out, NEW F, NEW G, F \subseteq G, NEW B, NEW d, NEW e,
         Sets(h, k, out, F, B, d, e)
  PROVE  Sets(h, k, out, G, B, d, e)
  BY Zenon DEF Sets

\* A call's sink is set: its destination is its own, and holds the value.
LEMMA AfterSet ==
  ASSUME IndInv, NEW c \in Callers, pc[c] # "idle", NEW out, NEW F \in SUBSET Fresh,
         NEW B, NEW d, NEW e, Sets(heap, sink[c], out, F, B, d, e), Collect(out.heap),
         sink' = [sink EXCEPT ![c] = out.sink],
         getter' \in {getter} \cup Fresh,
         out.sink.buf # Nil => out.sink.buf # getter',
         \A u \in Callers \ {c} : pc'[u] = pc[u]
  PROVE  /\ heap' \in [Bufs -> Seq(Byte)]
         /\ Frame(Bufs \cap (Fresh \cup {sink[c].buf})) /\ Moves
         /\ sink'[c] = out.sink /\ (\A u \in Callers \ {c} : sink'[u] = sink[u])
         /\ sink' \in [Callers -> SinkType]
         /\ \A u \in Callers : sink'[u].kind = "trunc" => sink'[u].len <= sink'[u].room
         /\ out.sink.buf # Nil =>
              out.sink.buf # getter' /\ \A u \in Callers \ {c} : sink'[u].buf # out.sink.buf
         /\ out.ok => Holds(heap', out.sink, d, e)
<1> DEFINE W == Bufs \cap (Fresh \cup {sink[c].buf})
<1>0. TypeOK /\ SinkOK(c)
  BY Zenon DEF IndInv, Ownership
<1>1. /\ heap \in [Bufs -> Seq(Byte)] /\ sink \in [Callers -> SinkType]
      /\ \A u \in Callers : sink[u].kind = "trunc" => sink[u].len <= sink[u].room
  BY <1>0, Zenon DEF TypeOK
<1>2. /\ out \in Output
      /\ \A y \in Bufs : y \notin F \cup {sink[c].buf} => out.heap[y] = heap[y]
      /\ out.sink.buf \in F \cup {sink[c].buf}
      /\ out.sink.kind = "trunc" => out.sink.len <= out.sink.room
      /\ out.ok => Holds(out.heap, out.sink, d, e)
  BY Zenon DEF Sets
<1>3. out.heap \in [Bufs -> Seq(Byte)] /\ out.sink \in SinkType
  BY <1>2, Zenon DEF Output
<1>4. \A y \in Bufs : y \notin W => out.heap[y] = heap[y]
  BY <1>2, Zenon
<1>5. /\ heap' \in [Bufs -> Seq(Byte)] /\ Frame(W)
      /\ \A y \in Bufs : y \in Used' => heap'[y] = out.heap[y]
  <2> HIDE DEF W
  <2> QED
    BY <1>3, <1>4, Collected, Zenon
<1>6. sink'[c] = out.sink /\ (\A u \in Callers \ {c} : sink'[u] = sink[u])
  BY <1>1, Zenon
<1>7. sink' \in [Callers -> SinkType]
  BY <1>1, <1>3, Zenon
<1>8. Moves
  BY <1>2, <1>6, Zenon DEF Moves
<1>9. \A u \in Callers : sink'[u].kind = "trunc" => sink'[u].len <= sink'[u].room
  BY <1>1, <1>2, <1>6, Zenon
<1>10. ASSUME out.sink.buf # Nil
       PROVE  \A u \in Callers \ {c} : sink'[u].buf # out.sink.buf
  <2>1. \A u \in Callers : sink[u].buf \notin Fresh
    BY InUse, Zenon
  <2>2. sink[c].buf # Nil => \A u \in Callers \ {c} : sink[u].buf # sink[c].buf
    BY <1>0, Zenon DEF SinkOK
  <2> QED
    BY <1>2, <1>6, <1>10, <2>1, <2>2, Zenon
<1>11. ASSUME out.ok PROVE Holds(heap', out.sink, d, e)
  <2>1. /\ out.sink.buf \in Used' /\ out.sink.v.b \in Used'
        /\ out.sink.v.b \in Bufs \cup {Nil}
    <3>1. out.sink.v.b \in Bufs \cup {Nil}
      BY <1>3, Zenon DEF SinkType, Views
    <3>2. sink'[c].buf \in Used' /\ sink'[c].v.b \in Used'
      BY InUse, Zenon
    <3> QED
      BY <1>6, <3>1, <3>2, Zenon
  <2>2. Bytes(heap', out.sink.v) = Bytes(out.heap, out.sink.v)
    BY <1>5, <2>1, Zenon DEF Bytes
  <2>3. out.sink.buf \in Bufs => heap'[out.sink.buf] = out.heap[out.sink.buf]
    BY <1>5, <2>1, Zenon
  <2> QED
    BY <1>2, <1>11, <2>2, <2>3, HoldsKept, Zenon
<1> QED
  BY <1>5, <1>6, <1>7, <1>8, <1>9, <1>10, <1>11, Zenon

\* Deliver copies or hands on an item nobody can write to.
LEMMA DeliverInv == ASSUME IndInv, NEW c \in Callers, Deliver(c) PROVE IndInv'
<1> DEFINE k == sink[c]
           v == got[c].v
           out == SetSinkView(heap, k, v, New, New2)
<1>0. /\ TypeOK /\ SinkOK(c) /\ got[c] \in Items /\ ItemOK(got[c])
      /\ pc[c] = "deliver" /\ pc[c] # "idle"
  BY Zenon DEF IndInv, Ownership, Items, Deliver
<1>1. /\ New \in Fresh /\ New2 \in Fresh /\ New # New2 /\ New \in Bufs /\ New2 \in Bufs
  BY Allocated, Zenon DEF Deliver
<1>2. /\ getter \notin Fresh /\ v.b \notin Fresh
      /\ \A u \in Callers : sink[u].buf \notin Fresh
  BY <1>0, InUse, Zenon
<1>3. heap \in [Bufs -> Seq(Byte)] /\ DOMAIN pc = Callers /\ pc \in [Callers -> Phases]
  BY <1>0, Zenon DEF TypeOK, Phases
<1>4. k \in SinkType /\ v \in Views
  BY <1>0, Types, Zenon
<1>5. Ready(heap, k) /\ got[c] # NoItem
  BY <1>0, Zenon DEF SinkOK, Waiting
<1>6. v.b # Nil => v.b # k.buf /\ v.b # getter
  BY <1>0, Zenon DEF ItemOK
<1>7. Sets(heap, k, out, {New, New2}, {New, v.b}, Bytes(heap, v), v.e)
  BY <1>1, <1>2, <1>3, <1>4, <1>5, <1>6, SetSinkViewSets, Zenon
<1>8. /\ sink' = [sink EXCEPT ![c] = out.sink]
      /\ pc' = [pc EXCEPT ![c] = IF out.ok THEN "done" ELSE "failed"]
      /\ main' = main /\ hot' = hot /\ flight' = flight /\ got' = got
      /\ getter' = getter /\ calls' = calls
      /\ Collect(out.heap)
  BY Zenon DEF Deliver
<1> HIDE DEF out
<1>9. /\ pc'[c] = IF out.ok THEN "done" ELSE "failed"
      /\ \A u \in Callers \ {c} : pc'[u] = pc[u]
      /\ pc' \in [Callers -> Phases]
  BY <1>3, <1>8, Zenon DEF Phases
<1>10. /\ out.sink.buf \in {New, New2, k.buf}
       /\ out.ok => out.sink.v.b \in {New, v.b, Nil}
       /\ out.ok /\ out.sink.v.b # Nil => out.sink.v.b # out.sink.buf
  BY <1>7, Zenon DEF Sets
<1>11. out.sink.buf # Nil => out.sink.buf # getter'
  <2>1. k.buf # Nil => k.buf # getter
    BY <1>0, Zenon DEF SinkOK
  <2> QED
    BY <1>1, <1>2, <1>8, <1>10, <2>1, Zenon
<1>12. /\ heap' \in [Bufs -> Seq(Byte)]
       /\ Frame(Bufs \cap (Fresh \cup {k.buf})) /\ Moves
       /\ sink'[c] = out.sink /\ (\A u \in Callers \ {c} : sink'[u] = sink[u])
       /\ sink' \in [Callers -> SinkType]
       /\ \A u \in Callers : sink'[u].kind = "trunc" => sink'[u].len <= sink'[u].room
       /\ out.sink.buf # Nil => \A u \in Callers \ {c} : sink'[u].buf # out.sink.buf
       /\ out.ok => Holds(heap', out.sink, Bytes(heap, v), v.e)
  <2> DEFINE F == {New, New2}
             B == {New, v.b}
             d == Bytes(heap, v)
             e == v.e
  <2>1. F \in SUBSET Fresh /\ getter' \in {getter} \cup Fresh
    BY <1>1, <1>8, Zenon
  <2>2. /\ Sets(heap, sink[c], out, F, B, d, e) /\ Collect(out.heap)
        /\ sink' = [sink EXCEPT ![c] = out.sink]
        /\ \A u \in Callers \ {c} : pc'[u] = pc[u]
    BY <1>7, <1>8, <1>9, Zenon
  <2> HIDE DEF F, B, d, e
  <2>3. /\ heap' \in [Bufs -> Seq(Byte)]
        /\ Frame(Bufs \cap (Fresh \cup {sink[c].buf})) /\ Moves
        /\ sink'[c] = out.sink /\ (\A u \in Callers \ {c} : sink'[u] = sink[u])
        /\ sink' \in [Callers -> SinkType]
        /\ \A u \in Callers : sink'[u].kind = "trunc" => sink'[u].len <= sink'[u].room
        /\ out.sink.buf # Nil =>
             out.sink.buf # getter' /\ \A u \in Callers \ {c} : sink'[u].buf # out.sink.buf
        /\ out.ok => Holds(heap', out.sink, d, e)
    BY <1>0, <1>11, <2>1, <2>2, AfterSet, Zenon
  <2> QED
    BY <2>3, Zenon DEF d, e
<1>13. TypeOK'
  BY <1>0, <1>8, <1>9, <1>12, Zenon DEF TypeOK, Phases
<1>14. \A it \in Items' : it \in Items
  BY <1>8, Zenon DEF Items
<1>15. SinkOK(c)'
  <2>1. pc'[c] \notin Waiting
    BY <1>9, Zenon DEF Waiting
  <2>2. ASSUME pc'[c] \in Full, ~ got'[c].shared
        PROVE  /\ Holds(heap', sink'[c], got'[c].d, got'[c].e)
               /\ sink'[c].v.b # Nil => sink'[c].v.b \notin Writable'
    <3>1. out.ok
      BY <1>9, <2>2, Zenon DEF Full
    <3>2. Bytes(heap, v) = got[c].d /\ v.e = got[c].e
      BY <1>0, <1>5, <1>8, <2>2, Zenon DEF ItemOK
    <3>3. ASSUME out.sink.v.b # Nil PROVE out.sink.v.b \notin Writable'
      <4>1. out.sink.v.b # getter'
        BY <1>1, <1>2, <1>6, <1>8, <1>10, <3>1, <3>3, Zenon
      <4>2. \A u \in Callers \ {c} : out.sink.v.b # sink[u].buf
        <5>1. v.b # Nil => \A u \in Callers : v.b # sink[u].buf
          BY <1>0, <1>8, <2>2, Zenon DEF ItemOK
        <5> QED
          BY <1>1, <1>2, <1>10, <3>1, <3>3, <5>1, Zenon
      <4>3. \A u \in Callers : out.sink.v.b # sink'[u].buf
        BY <1>10, <1>12, <3>1, <3>3, <4>2, Zenon
      <4> QED
        BY <4>1, <4>3, Zenon DEF Writable
    <3> QED
      BY <1>8, <1>12, <3>1, <3>2, <3>3, Zenon
  <2> QED
    BY <1>5, <1>8, <1>11, <1>12, <2>1, <2>2, Zenon DEF SinkOK
<1> DEFINE W == Bufs \cap (Fresh \cup {sink[c].buf})
<1>16. W \in SUBSET Bufs /\ W \subseteq Fresh \cup {sink[c].buf} /\ Frame(W)
  BY <1>12, Zenon
<1> HIDE DEF W
<1> QED
  BY <1>0, <1>8, <1>9, <1>12, <1>13, <1>14, <1>15, <1>16, StepOf, Zenon

\* What the Getter's call of a Set method leaves.
LoadOutput(c, how, d, e) ==
  CASE how = "SetString" -> SetString(heap, sink[c], d, e, New)
    [] how = "SetBytes"  -> SetBytes([heap EXCEPT ![New3] = d], sink[c], New3, e, New, New2)
    [] how = "SetProto"  -> SetProto(heap, sink[c], d, e, New, New2)

\* Whichever method the Getter calls, on whichever sink the leader has.
LEMMA LoadSets ==
  ASSUME IndInv, NEW c \in Callers, pc[c] = "fetch", CanAllocate,
         NEW how \in {"SetString", "SetBytes", "SetProto"},
         NEW d \in Seq(Byte), NEW e \in Expiries \cup {0}
  PROVE  /\ Sets(heap, sink[c], LoadOutput(c, how, d, e), {New, New2, New3}, {New}, d, e)
         /\ LoadOutput(c, how, d, e).sink.buf # New3
<1> DEFINE k == sink[c]
           out == LoadOutput(c, how, d, e)
           F == {New, New2}
           G == {New, New2, New3}
<1>0. TypeOK /\ SinkOK(c)
  BY Zenon DEF IndInv, Ownership
<1>1. /\ New \in Fresh /\ New2 \in Fresh /\ New3 \in Fresh
      /\ New # New2 /\ New # New3 /\ New2 # New3
      /\ New \in Bufs /\ New2 \in Bufs /\ New3 \in Bufs
  BY Allocated, Zenon
<1>2. k.buf \notin Fresh
  BY InUse, Zenon
<1>3. heap \in [Bufs -> Seq(Byte)] /\ k \in SinkType
  BY <1>0, Types, Zenon DEF TypeOK
<1>4. Ready(heap, k)
  BY <1>0, Zenon DEF SinkOK, Waiting
<1>5. k.buf \notin F /\ k.buf # New /\ k.buf # New3 /\ New \in F /\ F \subseteq G
  BY <1>1, <1>2, Zenon
<1>6. Sets(heap, k, out, G, {New}, d, e) /\ out.sink.buf \in F \cup {k.buf}
  <2>1. CASE how = "SetString"
    <3>1. out = SetString(heap, k, d, e, New)
      BY <2>1, Zenon DEF LoadOutput
    <3> HIDE DEF out, G, F
    <3>2. Sets(heap, k, SetString(heap, k, d, e, New), F, {New}, d, e)
      BY <1>1, <1>3, <1>4, <1>5, SetStringSets, Zenon
    <3>3. Sets(heap, k, out, F, {New}, d, e)
      BY <3>1, <3>2, Zenon
    <3>4. Sets(heap, k, out, G, {New}, d, e)
      BY <1>5, <3>3, SetsMore, Zenon
    <3> QED
      BY <3>3, <3>4, Zenon DEF Sets
  <2>2. CASE how = "SetProto"
    <3>1. out = SetProto(heap, k, d, e, New, New2)
      BY <2>2, Zenon DEF LoadOutput
    <3>2. Sets(heap, k, SetProto(heap, k, d, e, New, New2), F, {New}, d, e)
      BY <1>1, <1>3, <1>4, <1>5, SetProtoSets, Zenon
    <3> HIDE DEF out, G, F
    <3>3. Sets(heap, k, out, F, {New}, d, e)
      BY <3>1, <3>2, Zenon
    <3>4. Sets(heap, k, out, G, {New}, d, e)
      BY <1>5, <3>3, SetsMore, Zenon
    <3> QED
      BY <3>3, <3>4, Zenon DEF Sets
  <2>3. CASE how = "SetBytes"
    <3> DEFINE m == [heap EXCEPT ![New3] = d]
    <3>1. out = SetBytes(m, k, New3, e, New, New2)
      BY <2>3, Zenon DEF LoadOutput
    <3>2. /\ m \in [Bufs -> Seq(Byte)] /\ m[New3] = d /\ Ready(m, k)
          /\ \A y \in Bufs : y # New3 => m[y] = heap[y]
      BY <1>1, <1>3, <1>4, <1>5, Filled, Zenon
    <3> HIDE DEF m
    <3>3. Sets(m, k, SetBytes(m, k, New3, e, New, New2), F, {New}, m[New3], e)
      BY <1>1, <1>3, <1>5, <3>2, SetBytesSets, Zenon
    <3>4. \A y \in Bufs : y \notin G => m[y] = heap[y]
      BY <3>2, Zenon
    <3> HIDE DEF out, G, F
    <3>5. Sets(m, k, out, F, {New}, d, e)
      BY <3>1, <3>2, <3>3, Zenon
    <3>6. Sets(m, k, out, G, {New}, d, e)
      BY <1>5, <3>5, SetsMore, Zenon
    <3>7. Sets(heap, k, out, G, {New}, d, e)
      BY <3>4, <3>6, SetsAfterFill, Zenon
    <3>8. out.sink.buf \in F \cup {k.buf}
      BY <3>5, Zenon DEF Sets
    <3> QED
      BY <3>7, <3>8, Zenon
  <2> QED
    BY <2>1, <2>2, <2>3, Zenon
<1> QED
  BY <1>1, <1>5, <1>6, Zenon

\* The Getter's method populates the leader's destination; the view it leaves is
\* cached.
LEMMA LoadLocallyInv ==
  ASSUME IndInv, NEW c \in Callers, NEW how \in {"SetString", "SetBytes", "SetProto"},
         NEW d \in Data, NEW e \in Expiries, LoadLocally(c, how, d, e)
  PROVE  IndInv'
<1> DEFINE k == sink[c]
           out == LoadOutput(c, how, d, e)
           F == {New, New2, New3}
           B == {New}
           it == Item(out.sink.v, d, e, FALSE)
<1>0. TypeOK /\ SinkOK(c) /\ pc[c] = "fetch" /\ pc[c] # "idle" /\ CanAllocate
  BY Zenon DEF IndInv, Ownership, LoadLocally
<1>1. /\ New \in Fresh /\ New2 \in Fresh /\ New3 \in Fresh
      /\ New # New2 /\ New # New3 /\ New2 # New3
      /\ New \in Bufs /\ New2 \in Bufs /\ New3 \in Bufs
  BY <1>0, Allocated, Zenon
<1>2. getter \notin Fresh /\ \A u \in Callers : sink[u].buf \notin Fresh
  BY InUse, Zenon
<1>3. /\ DOMAIN pc = Callers /\ pc \in [Callers -> Phases]
      /\ got \in [Callers -> ItemType] /\ main \in ItemType
  BY <1>0, Zenon DEF TypeOK, Phases
<1>4. d \in Seq(Byte) /\ d # Nil /\ e \in Expiries \cup {0}
  BY DataAssumption, BufAssumption, Zenon
<1>5. Sets(heap, sink[c], out, F, B, d, e) /\ out.sink.buf # New3
  BY <1>0, <1>4, LoadSets, Zenon
<1>6. /\ sink' = [sink EXCEPT ![c] = out.sink]
      /\ getter' = IF how = "SetBytes" THEN New3 ELSE getter
      /\ Populated(c, out, d, e)
      /\ hot' = hot /\ flight' = flight /\ calls' = calls
      /\ Collect(out.heap)
  BY Zenon DEF LoadLocally, LoadOutput
<1> HIDE DEF out
<1>7. /\ pc' = [pc EXCEPT ![c] = IF out.ok THEN "publishDone" ELSE "fail"]
      /\ IF out.ok THEN got' = [got EXCEPT ![c] = it] /\ main' = got'[c]
                   ELSE got' = got /\ main' = main
  BY <1>6, Zenon DEF Populated
<1>8. /\ out \in Output
      /\ out.sink.buf \in {New, New2, New3, k.buf}
      /\ out.ok => out.sink.v.b \in {New, Nil}
      /\ out.ok /\ out.sink.v.b # Nil => out.sink.v.b # out.sink.buf
  BY <1>5, Zenon DEF Sets
<1>9. /\ pc'[c] = IF out.ok THEN "publishDone" ELSE "fail"
      /\ \A u \in Callers \ {c} : pc'[u] = pc[u]
      /\ pc' \in [Callers -> Phases]
  BY <1>3, <1>7, Zenon DEF Phases
<1>10. getter' \in {getter, New3} /\ (out.sink.buf # Nil => out.sink.buf # getter')
  <2>1. k.buf # Nil => k.buf # getter
    BY <1>0, Zenon DEF SinkOK
  <2>2. getter' \in {getter, New3}
    BY <1>6, Zenon
  <2> QED
    BY <1>1, <1>2, <1>5, <1>8, <2>1, <2>2, Zenon
<1>11. /\ heap' \in [Bufs -> Seq(Byte)]
       /\ Frame(Bufs \cap (Fresh \cup {sink[c].buf})) /\ Moves
       /\ sink'[c] = out.sink /\ (\A u \in Callers \ {c} : sink'[u] = sink[u])
       /\ sink' \in [Callers -> SinkType]
       /\ \A u \in Callers : sink'[u].kind = "trunc" => sink'[u].len <= sink'[u].room
       /\ out.sink.buf # Nil =>
            out.sink.buf # getter' /\ \A u \in Callers \ {c} : sink'[u].buf # out.sink.buf
       /\ out.ok => Holds(heap', out.sink, d, e)
  <2>1. F \in SUBSET Fresh /\ getter' \in {getter} \cup Fresh
    BY <1>1, <1>10, Zenon
  <2>2. Collect(out.heap) /\ sink' = [sink EXCEPT ![c] = out.sink]
    BY <1>6, Zenon
  <2> HIDE DEF F, B
  <2> QED
    BY <1>0, <1>5, <1>9, <1>10, <2>1, <2>2, AfterSet, Zenon
<1>12. out.sink.v \in Views
  BY <1>8, Zenon DEF Output, SinkType
<1>13. /\ it \in ItemType /\ it # NoItem /\ ~ it.shared
       /\ it.v = out.sink.v /\ it.d = d /\ it.e = e
  <2>1. it \in ItemType
    BY <1>4, <1>12, Zenon DEF Item, ItemType
  <2>2. it.v = out.sink.v /\ it.d = d /\ it.e = e /\ ~ it.shared
    BY Zenon DEF Item
  <2>3. NoItem.d = Nil
    BY Zenon DEF NoItem, Item
  <2> QED
    BY <1>4, <2>1, <2>2, <2>3, Zenon
<1> HIDE DEF it
<1>14. /\ \A u \in Callers \ {c} : got'[u] = got[u]
       /\ out.ok => got'[c] = it /\ main' = it
       /\ ~ out.ok => got' = got /\ main' = main
       /\ got' \in [Callers -> ItemType] /\ main' \in ItemType
  <2>1. CASE out.ok
    <3>1. got' = [got EXCEPT ![c] = it] /\ main' = got'[c]
      BY <1>7, <2>1, Zenon DEF it
    <3> QED
      BY <1>3, <1>13, <2>1, <3>1, Zenon
  <2>2. CASE ~ out.ok
    BY <1>3, <1>7, <2>2, Zenon
  <2> QED
    BY <2>1, <2>2, Zenon
<1>15. TypeOK'
  <2>1. getter' \in Bufs \cup {Nil}
    BY <1>0, <1>1, <1>10, Zenon DEF TypeOK
  <2> QED
    BY <1>0, <1>6, <1>9, <1>11, <1>14, <2>1, Zenon DEF TypeOK, Phases
<1>16. ASSUME out.ok, out.sink.v.b # Nil
       PROVE  out.sink.v.b # getter' /\ \A u \in Callers : out.sink.v.b # sink'[u].buf
  <2>1. out.sink.v.b = New
    BY <1>8, <1>16, Zenon
  <2>2. New # getter' /\ \A u \in Callers : New # sink[u].buf
    BY <1>1, <1>2, <1>10, Zenon
  <2> QED
    BY <1>8, <1>11, <1>16, <2>1, <2>2, Zenon
<1>17. \A other \in Items' : other \in Items \/ ItemOK(other)'
  <2>1. ASSUME out.ok, NEW x, x = it PROVE ItemOK(x)'
    <3>1. Bytes(heap', out.sink.v) = d /\ out.sink.v.e = e
      BY <1>11, <2>1, Zenon DEF Holds
    <3>2. x.v = out.sink.v /\ x.d = d /\ x.e = e
      BY <1>13, <2>1, Zenon
    <3> QED
      BY <1>16, <2>1, <3>1, <3>2, Zenon DEF ItemOK
  <2>2. \A other \in Items' : other \in Items \/ (out.ok /\ other = it)
    BY <1>6, <1>14, Zenon DEF Items
  <2> QED
    BY <2>1, <2>2, Zenon
<1>18. SinkOK(c)'
  <2>1. pc'[c] \notin Waiting /\ pc'[c] \notin {"publish", "deliver"}
        /\ (pc'[c] \in Full => out.ok)
    BY <1>9, Zenon DEF Waiting, Full
  <2>2. ASSUME pc'[c] \in Full, ~ got'[c].shared
        PROVE  /\ Holds(heap', sink'[c], got'[c].d, got'[c].e) /\ got'[c] # NoItem
               /\ sink'[c].v.b # Nil => sink'[c].v.b \notin Writable'
    <3>1. out.ok /\ got'[c] = it
      BY <1>14, <2>1, <2>2, Zenon
    <3>2. out.sink.v.b # Nil => out.sink.v.b \notin Writable'
      BY <1>16, <3>1, Zenon DEF Writable
    <3> QED
      BY <1>11, <1>13, <3>1, <3>2, Zenon
  <2>3. pc'[c] \in Full => got'[c] # NoItem
    BY <1>13, <1>14, <2>1, Zenon
  <2> QED
    BY <1>11, <2>1, <2>2, <2>3, Zenon DEF SinkOK
<1> DEFINE W == Bufs \cap (Fresh \cup {sink[c].buf})
<1>19. W \in SUBSET Bufs /\ W \subseteq Fresh \cup {sink[c].buf} /\ Frame(W)
  BY <1>11, Zenon
<1>20. \A u \in Callers \ {c} : sink'[u] = sink[u] /\ pc'[u] = pc[u] /\ got'[u] = got[u]
  BY <1>9, <1>11, <1>14, Zenon
<1> HIDE DEF W
<1> QED
  BY <1>0, <1>11, <1>15, <1>17, <1>18, <1>19, <1>20, StepOf, Zenon

\* x is an item with the value d, in buffer b.
InBuffer(x, b, d, e, shared) ==
  /\ x \in ItemType /\ x # NoItem /\ x.v.b = b /\ x.v.b # Nil
  /\ x.v.e = e /\ x.e = e /\ x.d = d /\ x.shared = shared
  /\ \A h : Bytes(h, x.v) = h[b]

\* What Item and ByteView make of a buffer.
LEMMA NewItem ==
  ASSUME NEW b \in Bufs, NEW d \in Seq(Byte), NEW e \in Expiries, NEW shared,
         shared \in BOOLEAN, d # Nil
  PROVE  InBuffer(Item(ByteView(b, <<>>, e), d, e, shared), b, d, e, shared)
<1> DEFINE v == ByteView(b, <<>>, e)
           x == Item(v, d, e, shared)
<1>1. v \in Views /\ v.b = b /\ v.e = e
  BY DEF ByteView, Views
<1> HIDE DEF v
<1>2. x.v = v /\ x.e = e /\ x.d = d /\ x.shared = shared
  BY Zenon DEF Item
<1>3. x \in ItemType
  BY <1>1, Zenon DEF Item, ItemType
<1>4. NoItem.d = Nil
  BY Zenon DEF NoItem, Item
<1>5. \A h : Bytes(h, v) = h[b]
  BY <1>1, BufAssumption, Zenon DEF Bytes
<1> HIDE DEF x
<1>6. InBuffer(x, b, d, e, shared)
  BY <1>1, <1>2, <1>3, <1>4, <1>5, BufAssumption, Zenon DEF InBuffer
<1> QED
  BY <1>6, Zenon DEF x, v

\* A peer's answer is in a buffer nobody else holds.
LEMMA LoadFromPeerInv ==
  ASSUME IndInv, NEW c \in Callers, NEW d \in Data, NEW e \in Expiries, LoadFromPeer(c, d, e)
  PROVE  IndInv'
<1> DEFINE unshared == FALSE
           it == Item(ByteView(New, <<>>, e), d, e, unshared)
           h == [heap EXCEPT ![New] = d]
<1>0. TypeOK /\ SinkOK(c) /\ pc[c] = "fetch" /\ CanAllocate
  BY Zenon DEF IndInv, Ownership, LoadFromPeer
<1>1. New \in Fresh /\ New \in Bufs
  BY <1>0, Allocated, Zenon
<1>2. getter \notin Fresh /\ \A u \in Callers : sink[u].buf \notin Fresh
  BY InUse, Zenon
<1>3. /\ DOMAIN pc = Callers /\ pc \in [Callers -> Phases]
      /\ got \in [Callers -> ItemType] /\ heap \in [Bufs -> Seq(Byte)]
  BY <1>0, Zenon DEF TypeOK, Phases
<1>4. d \in Seq(Byte) /\ d # Nil
  BY DataAssumption, BufAssumption, Zenon
<1>u. unshared \in BOOLEAN /\ ~ unshared
  BY Zenon
<1>6. /\ got' = [got EXCEPT ![c] = it] /\ hot' = got'[c]
      /\ pc' = [pc EXCEPT ![c] = "publish"]
      /\ main' = main /\ flight' = flight /\ sink' = sink /\ getter' = getter /\ calls' = calls
      /\ Collect(h)
  BY Zenon DEF LoadFromPeer
<1> HIDE DEF unshared
<1>i. InBuffer(it, New, d, e, unshared)
  BY <1>1, <1>4, <1>u, NewItem, Zenon
<1> HIDE DEF it
<1>5. /\ it \in ItemType /\ it # NoItem /\ it.v.b = New /\ it.v.b # Nil
      /\ it.v.e = e /\ it.e = e /\ it.d = d /\ ~ it.shared
      /\ \A m : Bytes(m, it.v) = m[New]
  BY <1>i, <1>u, Zenon DEF InBuffer
<1>7. /\ got'[c] = it /\ hot' = it /\ pc'[c] = "publish"
      /\ \A u \in Callers \ {c} : sink'[u] = sink[u] /\ pc'[u] = pc[u] /\ got'[u] = got[u]
      /\ got' \in [Callers -> ItemType] /\ pc' \in [Callers -> Phases]
  BY <1>3, <1>5, <1>6, Zenon DEF Phases
<1>8. /\ h \in [Bufs -> Seq(Byte)] /\ h[New] = d
      /\ \A y \in Bufs : y \notin Fresh => h[y] = heap[y]
  BY <1>1, <1>3, <1>4, Zenon
<1> HIDE DEF h
<1>9. /\ heap' \in [Bufs -> Seq(Byte)] /\ Frame(Fresh)
      /\ \A y \in Bufs : y \in Used' => heap'[y] = h[y]
  BY <1>6, <1>8, Collected, Zenon
<1>10. Moves
  BY <1>0, <1>6, <1>7, Zenon DEF Moves
<1>11. TypeOK'
  <2>1. hot' \in ItemType
    BY <1>5, <1>7, Zenon
  <2> QED
    BY <1>0, <1>6, <1>7, <1>9, <2>1, Zenon DEF TypeOK, Phases
<1>12. \A x \in Items' : x \in Items \/ ItemOK(x)'
  <2>1. ASSUME NEW x \in Items', x = it PROVE ItemOK(x)'
    <3>1. New \in Used'
      BY <1>5, <2>1, InUse, Zenon
    <3>2. Bytes(heap', x.v) = d
      BY <1>1, <1>5, <1>8, <1>9, <2>1, <3>1, Zenon
    <3>3. x.v.b # getter' /\ \A u \in Callers : x.v.b # sink'[u].buf
      BY <1>1, <1>2, <1>5, <1>6, <2>1, Zenon
    <3> QED
      BY <1>5, <2>1, <3>2, <3>3, Zenon DEF ItemOK
  <2>2. \A x \in Items' : x \in Items \/ x = it
    BY <1>6, <1>7, Zenon DEF Items
  <2> QED
    BY <2>1, <2>2, Zenon
<1>13. SinkOK(c)'
  <2>1. pc[c] \in Waiting /\ pc'[c] \notin Full /\ pc[c] \notin Full
    BY <1>0, <1>7, Zenon DEF Waiting, Full
  <2>2. \A u \in Callers \ {c} : sink'[u].buf \in {sink[u].buf, Nil} \cup Fresh
    BY <1>6, Zenon
  <2> QED
    BY <1>0, <1>2, <1>5, <1>6, <1>7, <1>9, <1>10, <2>1, <2>2, KeepSink, Zenon
<1>14. Fresh \in SUBSET Bufs
  BY Zenon DEF Fresh
<1> QED
  BY <1>7, <1>9, <1>10, <1>11, <1>12, <1>13, <1>14, StepOf, Zenon

\* The waiters get the leader's item, and no buffer.
LEMMA EndFlightInv == ASSUME IndInv, NEW c \in Callers, EndFlight(c) PROVE IndInv'
<1> DEFINE ends == IF pc[c] = "fail" THEN "failed" ELSE "deliver"
<1>0. TypeOK /\ (\A it \in Items : ItemOK(it)) /\ (\A u \in Callers : SinkOK(u))
  BY Zenon DEF IndInv, Ownership
<1>1. pc[c] \in {"publish", "publishDone", "fail"}
  BY Zenon DEF EndFlight
<1>2. /\ flight' = Nil /\ heap' = heap /\ main' = main /\ hot' = hot /\ sink' = sink
      /\ getter' = getter /\ calls' = calls
      /\ pc' = [u \in Callers |-> IF u = c /\ pc[c] = "publishDone" THEN "done"
                                  ELSE IF u = c \/ pc[u] = "wait" THEN ends ELSE pc[u]]
      /\ got' = [u \in Callers |->
                   IF pc[u] = "wait" /\ pc[c] # "fail" THEN got[c] ELSE got[u]]
  BY Zenon DEF EndFlight
<1>3. got[c] # NoItem \/ pc[c] = "fail"
  BY <1>0, <1>1, Zenon DEF SinkOK, Full
<1>4. /\ pc \in [Callers -> Phases] /\ got \in [Callers -> ItemType]
  BY <1>0, Zenon DEF TypeOK, Phases
<1>5. /\ pc' \in [Callers -> Phases] /\ got' \in [Callers -> ItemType]
  <2>1. \A u \in Callers : (IF u = c /\ pc[c] = "publishDone" THEN "done"
                            ELSE IF u = c \/ pc[u] = "wait" THEN ends ELSE pc[u]) \in Phases
    BY <1>4, Zenon DEF Phases
  <2>2. \A u \in Callers :
          (IF pc[u] = "wait" /\ pc[c] # "fail" THEN got[c] ELSE got[u]) \in ItemType
    BY <1>4, Zenon
  <2> QED
    BY <1>2, <2>1, <2>2, Zenon
<1>6. \A u \in Callers :
        /\ pc'[u] = IF u = c /\ pc[c] = "publishDone" THEN "done"
                    ELSE IF u = c \/ pc[u] = "wait" THEN ends ELSE pc[u]
        /\ got'[u] = IF pc[u] = "wait" /\ pc[c] # "fail" THEN got[c] ELSE got[u]
  BY <1>2, Zenon
<1>7. TypeOK'
  BY <1>0, <1>2, <1>5, Zenon DEF TypeOK, Phases
<1> DEFINE W == {}
<1>8. Frame(W) /\ Moves /\ (\A y : y \notin W)
  <2>1. \A u \in Callers : pc'[u] # "idle" => pc[u] # "idle"
    BY <1>1, <1>6, Zenon
  <2> QED
    BY <1>2, <2>1, Zenon DEF Frame, Moves
<1> HIDE DEF W
<1>9. ASSUME NEW u \in Callers PROVE SinkOK(u)'
  <2>1. pc'[u] \in Waiting => pc[u] \in Waiting
    BY <1>1, <1>6, Zenon DEF Waiting
  <2>2. pc'[u] \in Full => pc[u] \in Full /\ got'[u] = got[u]
    BY <1>1, <1>6, Zenon DEF Full
  <2>3. pc'[u] \in {"publish", "deliver"} => got'[u] # NoItem
    <3>1. pc[u] \in {"publish", "deliver"} => got[u] # NoItem
      BY <1>0, Zenon DEF SinkOK
    <3> QED
      BY <1>1, <1>3, <1>6, <3>1, Zenon
  <2>4. \A w \in Callers \ {u} : sink'[w].buf \in {sink[w].buf, Nil} \cup Fresh
    BY <1>2, Zenon
  <2>5. sink'[u] = sink[u] /\ SinkOK(u)
    BY <1>0, <1>2, Zenon
  <2> QED
    BY <1>0, <1>8, <2>1, <2>2, <2>3, <2>4, <2>5, KeepSink, Zenon
<1>10. ASSUME NEW it \in Items' PROVE ItemOK(it)'
  <2>1. it \in Items
    BY <1>2, <1>6, Zenon DEF Items
  <2>2. it.v.b \in Bufs \cup {Nil}
    BY <1>0, <2>1, Types, Zenon
  <2>3. ItemOK(it) /\ it \in Items'
    BY <1>0, <1>10, <2>1, Zenon
  <2> QED
    BY <1>8, <2>1, <2>2, <2>3, KeepItem, Zenon
<1> QED
  BY <1>7, <1>9, <1>10, Zenon DEF IndInv, Ownership

\* The caller keeps its destination, which no view shares.
LEMMA ReturnInv == ASSUME IndInv, NEW c \in Callers, Return(c) PROVE IndInv'
<1> DEFINE view == IF sink[c].kind = "view" THEN sink[c].v ELSE NoView
           it == IF sink[c].kind = "view" /\ pc[c] = "done" THEN got[c] ELSE NoItem
<1>0. TypeOK /\ SinkOK(c) /\ pc[c] \in {"done", "failed"}
  BY Zenon DEF IndInv, Ownership, Return
<1>1. /\ DOMAIN pc = Callers /\ pc \in [Callers -> Phases]
      /\ sink \in [Callers -> SinkType] /\ got \in [Callers -> ItemType]
      /\ heap \in [Bufs -> Seq(Byte)] /\ sink[c] \in SinkType
  BY <1>0, Zenon DEF TypeOK, Phases
<1>2. NoView \in Views /\ NoItem \in ItemType
  BY NoViewType, NoItemType, Zenon
<1>3. view \in Views /\ it \in ItemType
  BY <1>1, <1>2, Zenon DEF SinkType
<1>4. /\ pc' = [pc EXCEPT ![c] = "idle"]
      /\ sink' = [sink EXCEPT ![c].v = view]
      /\ got' = [got EXCEPT ![c] = it]
      /\ main' = main /\ hot' = hot /\ flight' = flight /\ getter' = getter /\ calls' = calls
      /\ Collect(heap)
  BY <1>1, Zenon DEF Return
<1> HIDE DEF view
<1>5. /\ sink'[c] = [sink[c] EXCEPT !.v = view]
      /\ \A u \in Callers \ {c} : sink'[u] = sink[u] /\ pc'[u] = pc[u] /\ got'[u] = got[u]
      /\ pc'[c] = "idle" /\ got'[c] = it
  BY <1>1, <1>4, Zenon
<1>6. sink'[c] \in SinkType
  BY <1>1, <1>3, <1>5, Zenon DEF SinkType
<1>7. /\ sink'[c].buf = sink[c].buf /\ sink'[c].kind = sink[c].kind
      /\ sink'[c].len = sink[c].len /\ sink'[c].room = sink[c].room
  BY <1>1, <1>5, Zenon DEF SinkType
<1> DEFINE W == {}
<1>8. heap' \in [Bufs -> Seq(Byte)] /\ Frame(W) /\ W \in SUBSET Bufs /\ W \subseteq Fresh
  BY <1>1, <1>4, Collected, Zenon
<1> HIDE DEF W
<1>9. Moves
  BY <1>4, <1>5, <1>7, Zenon DEF Moves
<1>10. TypeOK'
  <2>1. sink' \in [Callers -> SinkType]
    <3>1. DOMAIN sink' = Callers
      BY <1>1, <1>4, Zenon
    <3>2. \A u \in Callers : sink'[u] \in SinkType
      BY <1>1, <1>5, <1>6, Zenon
    <3>3. sink' = [u \in Callers |-> sink'[u]]
      BY <1>1, <1>4, Zenon
    <3> QED
      BY <3>2, <3>3, Zenon
  <2>2. /\ pc' \in [Callers -> Phases] /\ got' \in [Callers -> ItemType]
    BY <1>1, <1>3, <1>4, Zenon DEF Phases
  <2>3. \A u \in Callers : sink'[u].kind = "trunc" => sink'[u].len <= sink'[u].room
    BY <1>0, <1>5, <1>7, Zenon DEF TypeOK
  <2> QED
    BY <1>0, <1>4, <1>8, <2>1, <2>2, <2>3, Zenon DEF TypeOK, Phases
<1>11. \A x \in Items' : x \in Items \/ ItemOK(x)'
  <2>0. it \in {got[c], NoItem} /\ main' = main /\ hot' = hot
    BY <1>4, Zenon
  <2> HIDE DEF it
  <2>1. \A x \in Items' : x \in Items \/ x = NoItem
    BY <1>5, <2>0, Zenon DEF Items
  <2> QED
    BY <2>1, NoItemOK, Zenon
<1>12. SinkOK(c)'
  <2>1. pc'[c] \notin Waiting /\ pc'[c] \notin Full /\ pc'[c] \notin {"publish", "deliver"}
    BY <1>5, Zenon DEF Waiting, Full
  <2> QED
    BY <1>0, <1>4, <1>5, <1>7, <2>1, Zenon DEF SinkOK
<1> QED
  BY <1>5, <1>8, <1>9, <1>10, <1>11, <1>12, StepOf, Zenon

\* The slice given to Set is its caller's and the cache's.
LEMMA SetHereInv ==
  ASSUME IndInv, NEW c \in Callers, NEW d \in Data, NEW e \in Expiries, SetHere(c, d, e)
  PROVE  IndInv'
<1> DEFINE shared == TRUE
           it == Item(ByteView(New, <<>>, e), d, e, shared)
           k == [NoSink EXCEPT !.buf = New, !.len = Len(d)]
           h == [heap EXCEPT ![New] = d]
<1>0. TypeOK /\ pc[c] = "idle" /\ CanAllocate /\ calls[c] < MaxCalls
  BY Zenon DEF IndInv, Ownership, SetHere
<1>1. New \in Fresh /\ New \in Bufs
  BY <1>0, Allocated, Zenon
<1>2. getter \notin Fresh /\ \A u \in Callers : sink[u].buf \notin Fresh
  BY InUse, Zenon
<1>3. /\ DOMAIN pc = Callers /\ sink \in [Callers -> SinkType]
      /\ got \in [Callers -> ItemType] /\ heap \in [Bufs -> Seq(Byte)]
      /\ calls \in [Callers -> 0..MaxCalls]
  BY <1>0, Zenon DEF TypeOK
<1>4. d \in Seq(Byte) /\ d # Nil
  BY DataAssumption, BufAssumption, Zenon
<1>5. shared \in BOOLEAN /\ shared
  BY Zenon
<1>6. /\ main' = it /\ hot' = NoItem /\ sink' = [sink EXCEPT ![c] = k]
      /\ got' = [got EXCEPT ![c] = NoItem]
      /\ pc' = pc /\ flight' = flight /\ getter' = getter
      /\ calls' = [calls EXCEPT ![c] = @ + 1] /\ Collect(h)
  BY Zenon DEF SetHere
<1> HIDE DEF shared
<1>7. InBuffer(it, New, d, e, shared)
  BY <1>1, <1>4, <1>5, NewItem, Zenon
<1> HIDE DEF it
<1>8. /\ it \in ItemType /\ it.v.b = New /\ it.shared
  BY <1>5, <1>7, Zenon DEF InBuffer
<1>9. k \in SinkType /\ k.buf = New /\ k.kind # "trunc"
  <2>1. NoSink \in SinkType /\ NoSink.kind = "string"
    <3>1. <<>> \in Seq(Byte) /\ 0 \in Nat
      OBVIOUS
    <3> QED
      BY <3>1, NoViewType, Zenon DEF NoSink, Sink, SinkType, AllKinds
  <2>2. Len(d) \in Nat
    BY <1>4
  <2> QED
    BY <1>1, <2>1, <2>2, Zenon DEF SinkType
<1> HIDE DEF k
<1>10. /\ sink'[c] = k /\ got'[c] = NoItem
       /\ \A u \in Callers \ {c} : sink'[u] = sink[u] /\ pc'[u] = pc[u] /\ got'[u] = got[u]
       /\ sink' \in [Callers -> SinkType] /\ got' \in [Callers -> ItemType]
  BY <1>3, <1>6, <1>9, NoItemType, Zenon
<1>11. /\ h \in [Bufs -> Seq(Byte)]
       /\ \A y \in Bufs : y \notin Fresh => h[y] = heap[y]
  BY <1>1, <1>3, <1>4, Zenon
<1> HIDE DEF h
<1>12. heap' \in [Bufs -> Seq(Byte)] /\ Frame(Fresh)
  BY <1>6, <1>11, Collected, Zenon
<1>13. Moves
  BY <1>0, <1>1, <1>6, <1>9, <1>10, Zenon DEF Moves
<1>14. TypeOK'
  <2>1. calls' \in [Callers -> 0..MaxCalls]
    BY <1>0, <1>3, <1>6, BoundAssumption
  <2>2. \A u \in Callers : sink'[u].kind = "trunc" => sink'[u].len <= sink'[u].room
    BY <1>0, <1>9, <1>10, Zenon DEF TypeOK
  <2>3. main' \in ItemType /\ hot' \in ItemType
    BY <1>6, <1>8, NoItemType, Zenon
  <2> QED
    BY <1>0, <1>6, <1>10, <1>12, <2>1, <2>2, <2>3, Zenon DEF TypeOK
<1>15. \A x \in Items' : x \in Items \/ ItemOK(x)'
  <2>1. ASSUME NEW x, x = it PROVE ItemOK(x)'
    <3>1. x.v.b # getter'
      BY <1>1, <1>2, <1>6, <1>8, <2>1, Zenon
    <3>2. \A u \in Callers : pc'[u] # "idle" => x.v.b # sink'[u].buf
      BY <1>0, <1>1, <1>2, <1>6, <1>8, <1>10, <2>1, Zenon
    <3> QED
      BY <1>8, <2>1, <3>1, <3>2, Zenon DEF ItemOK
  <2>2. \A x \in Items' : x \in Items \/ x = it \/ x = NoItem
    BY <1>6, <1>10, Zenon DEF Items
  <2> QED
    BY <2>1, <2>2, NoItemOK, Zenon
<1>16. SinkOK(c)'
  <2>1. pc'[c] \notin Waiting /\ pc'[c] \notin Full /\ pc'[c] \notin {"publish", "deliver"}
    BY <1>0, <1>6, Zenon DEF Waiting, Full
  <2> QED
    BY <1>1, <1>2, <1>6, <1>9, <1>10, <2>1, Zenon DEF SinkOK
<1>17. Fresh \in SUBSET Bufs
  BY Zenon DEF Fresh
<1> QED
  BY <1>10, <1>12, <1>13, <1>14, <1>15, <1>16, <1>17, StepOf, Zenon

\* A step that no caller takes and that writes only new buffers.
LEMMA CallersKept ==
  ASSUME IndInv, NEW W, W \subseteq Fresh, Frame(W), TypeOK',
         UNCHANGED <<pc, sink, got, getter>>,
         \A it \in Items' : it \in Items \/ ItemOK(it)'
  PROVE  IndInv'
<1>0. TypeOK /\ (\A it \in Items : ItemOK(it)) /\ (\A u \in Callers : SinkOK(u))
  BY Zenon DEF IndInv, Ownership
<1>1. Moves
  BY Zenon DEF Moves
<1>2. ASSUME NEW it \in Items, it \in Items' PROVE ItemOK(it)'
  <2>1. it.v.b \in Bufs \cup {Nil} /\ it.v.b \notin W
    BY <1>0, Types, InUse, Zenon
  <2> QED
    BY <1>0, <1>1, <1>2, <2>1, KeepItem, Zenon
<1>3. ASSUME NEW u \in Callers PROVE SinkOK(u)'
  <2>1. sink[u].buf \notin W /\ sink[u].v.b \notin W
    BY InUse, Zenon
  <2>2. pc'[u] \in {"publish", "deliver"} => got'[u] # NoItem
    BY <1>0, Zenon DEF SinkOK
  <2>3. \A w \in Callers \ {u} : sink'[w].buf \in {sink[w].buf, Nil} \cup Fresh
    BY Zenon
  <2> QED
    BY <1>0, <1>1, <2>1, <2>2, <2>3, KeepSink, Zenon
<1> QED
  BY <1>2, <1>3, Zenon DEF IndInv, Ownership

\* The value of a request is in a buffer nobody else holds.
LEMMA RemoteSetInv ==
  ASSUME IndInv, NEW d \in Data, NEW e \in Expiries, RemoteSet(d, e)
  PROVE  IndInv'
<1> DEFINE unshared == FALSE
           it == Item(ByteView(New, <<>>, e), d, e, unshared)
           h == [heap EXCEPT ![New] = d]
<1>0. TypeOK /\ CanAllocate
  BY Zenon DEF IndInv, RemoteSet
<1>1. New \in Fresh /\ New \in Bufs
  BY <1>0, Allocated, Zenon
<1>2. getter \notin Fresh /\ \A u \in Callers : sink[u].buf \notin Fresh
  BY InUse, Zenon
<1>3. heap \in [Bufs -> Seq(Byte)]
  BY <1>0, Zenon DEF TypeOK
<1>4. d \in Seq(Byte) /\ d # Nil
  BY DataAssumption, BufAssumption, Zenon
<1>5. unshared \in BOOLEAN /\ ~ unshared
  BY Zenon
<1>6. /\ main' = it /\ hot' = NoItem /\ flight' = flight /\ pc' = pc /\ sink' = sink
      /\ got' = got /\ getter' = getter /\ calls' = calls /\ Collect(h)
  BY Zenon DEF RemoteSet
<1> HIDE DEF unshared
<1>7. InBuffer(it, New, d, e, unshared)
  BY <1>1, <1>4, <1>5, NewItem, Zenon
<1> HIDE DEF it
<1>8. /\ it \in ItemType /\ it.v.b = New /\ ~ it.shared /\ it.v.e = it.e /\ it.d = d
      /\ \A m : Bytes(m, it.v) = m[New]
  BY <1>5, <1>7, Zenon DEF InBuffer
<1>9. /\ h \in [Bufs -> Seq(Byte)] /\ h[New] = d
      /\ \A y \in Bufs : y \notin Fresh => h[y] = heap[y]
  BY <1>1, <1>3, <1>4, Zenon
<1> HIDE DEF h
<1>10. /\ heap' \in [Bufs -> Seq(Byte)] /\ Frame(Fresh)
       /\ \A y \in Bufs : y \in Used' => heap'[y] = h[y]
  BY <1>6, <1>9, Collected, Zenon
<1>11. TypeOK'
  <2>1. main' \in ItemType /\ hot' \in ItemType
    BY <1>6, <1>8, NoItemType, Zenon
  <2> QED
    BY <1>0, <1>6, <1>10, <2>1, Zenon DEF TypeOK
<1>12. \A x \in Items' : x \in Items \/ ItemOK(x)'
  <2>1. ASSUME NEW x \in Items', x = it PROVE ItemOK(x)'
    <3>1. New \in Used'
      BY <1>8, <2>1, InUse, Zenon
    <3>2. Bytes(heap', x.v) = d
      BY <1>1, <1>8, <1>9, <1>10, <2>1, <3>1, Zenon
    <3>3. x.v.b # getter' /\ \A u \in Callers : x.v.b # sink'[u].buf
      BY <1>1, <1>2, <1>6, <1>8, <2>1, Zenon
    <3> QED
      BY <1>8, <2>1, <3>2, <3>3, Zenon DEF ItemOK
  <2>2. \A x \in Items' : x \in Items \/ x = it \/ x = NoItem
    BY <1>6, Zenon DEF Items
  <2> QED
    BY <2>1, <2>2, NoItemOK, Zenon
<1>13. Fresh \subseteq Fresh
  BY Zenon
<1> QED
  BY <1>6, <1>10, <1>11, <1>12, <1>13, CallersKept, Zenon

\* Forgetting an item disturbs no other.
LEMMA EvictInv == ASSUME IndInv, Evict PROVE IndInv'
<1>0. TypeOK
  BY Zenon DEF IndInv
<1>1. /\ main' \in {main, NoItem} /\ hot' \in {hot, NoItem}
      /\ flight' = flight /\ pc' = pc /\ sink' = sink /\ got' = got /\ getter' = getter
      /\ calls' = calls /\ Collect(heap)
  BY Zenon DEF Evict
<1>2. heap \in [Bufs -> Seq(Byte)]
  BY <1>0, Zenon DEF TypeOK
<1>3. heap' \in [Bufs -> Seq(Byte)] /\ Frame(Fresh)
  BY <1>1, <1>2, Collected, Zenon
<1>4. TypeOK'
  <2>1. main' \in ItemType /\ hot' \in ItemType
    BY <1>0, <1>1, NoItemType, Zenon DEF TypeOK
  <2> QED
    BY <1>0, <1>1, <1>3, <2>1, Zenon DEF TypeOK
<1>5. \A x \in Items' : x \in Items \/ ItemOK(x)'
  <2>1. \A x \in Items' : x \in Items \/ x = NoItem
    BY <1>1, Zenon DEF Items
  <2> QED
    BY <2>1, NoItemOK, Zenon
<1>6. Fresh \subseteq Fresh
  BY Zenon
<1> QED
  BY <1>1, <1>3, <1>4, <1>5, <1>6, CallersKept, Zenon

\* What a slice's holder writes reaches no view but the one it gave to Set,
\* and no destination but its own.
LEMMA ScribbleInv == ASSUME IndInv, NEW x \in Bufs, Scribble(x) PROVE IndInv'
<1>0. TypeOK /\ (\A it \in Items : ItemOK(it)) /\ (\A u \in Callers : SinkOK(u))
  BY Zenon DEF IndInv, Ownership
<1>1. /\ main' = main /\ hot' = hot /\ flight' = flight /\ pc' = pc /\ sink' = sink
      /\ got' = got /\ getter' = getter /\ calls' = calls
      /\ x = getter \/ \E c \in Callers : pc[c] = "idle" /\ sink[c].buf = x
  BY Zenon DEF Scribble
<1>2. heap \in [Bufs -> Seq(Byte)] /\ x # Nil
  BY <1>0, BufAssumption, Zenon DEF TypeOK
<1>3. Overwritten(heap[x]) \in Seq(Byte)
  BY <1>2, DataAssumption DEF Overwritten
<1>4. heap' = [heap EXCEPT ![x] = Overwritten(heap[x])]
  BY Zenon DEF Scribble
<1>5. /\ heap' \in [Bufs -> Seq(Byte)] /\ \A y \in Bufs : y # x => heap'[y] = heap[y]
  BY <1>2, <1>3, <1>4, Zenon
<1>6. TypeOK'
  BY <1>0, <1>1, <1>5, Zenon DEF TypeOK
<1>7. ASSUME NEW it \in Items' PROVE ItemOK(it)'
  <2>1. it \in Items /\ ItemOK(it)
    BY <1>0, <1>1, Zenon DEF Items
  <2>2. it.v.b \in Bufs \cup {Nil}
    BY <1>0, <2>1, Types, Zenon
  <2>3. ~ it.shared => it.v.b # x
    BY <1>1, <1>2, <2>1, Zenon DEF ItemOK
  <2>4. ~ it.shared => Bytes(heap', it.v) = Bytes(heap, it.v)
    BY <1>5, <2>2, <2>3, Zenon DEF Bytes
  <2> QED
    BY <1>1, <2>1, <2>4, Zenon DEF ItemOK
<1> DEFINE W == {x}
<1>8. Frame(W) /\ Moves
  BY <1>1, <1>5, Zenon DEF Frame, Moves
<1>9. ASSUME NEW u \in Callers PROVE SinkOK(u)'
  <2>1. CASE pc[u] = "idle"
    <3>1. pc'[u] \notin Waiting /\ pc'[u] \notin Full /\ pc'[u] \notin {"publish", "deliver"}
      BY <1>1, <2>1, Zenon DEF Waiting, Full
    <3>2. SinkOK(u)
      BY <1>0, Zenon
    <3> QED
      BY <1>1, <3>1, <3>2, Zenon DEF SinkOK
  <2>2. CASE pc[u] # "idle"
    <3>0. SinkOK(u)
      BY <1>0, Zenon
    <3>1. sink[u].buf \notin W
      BY <1>1, <1>2, <2>2, <3>0, Zenon DEF SinkOK
    <3>2. pc[u] \in Full /\ ~ got[u].shared => sink[u].v.b \notin W
      <4>1. x \in Writable
        BY <1>1, Zenon DEF Writable
      <4> QED
        BY <1>2, <3>0, <4>1, Zenon DEF SinkOK
    <3>3. pc'[u] \in {"publish", "deliver"} => got'[u] # NoItem
      BY <1>1, <3>0, Zenon DEF SinkOK
    <3>4. /\ sink'[u] = sink[u] /\ pc'[u] = pc[u] /\ got'[u] = got[u]
          /\ \A w \in Callers \ {u} : sink'[w].buf \in {sink[w].buf, Nil} \cup Fresh
      BY <1>1, Zenon
    <3> HIDE DEF W
    <3> QED
      BY <1>0, <1>8, <3>0, <3>1, <3>2, <3>3, <3>4, KeepSink, Zenon
  <2> QED
    BY <2>1, <2>2, Zenon
<1> QED
  BY <1>6, <1>7, <1>9, Zenon DEF IndInv, Ownership

-------------------------------------------------------------------------------
(* The theorems *)

\* Nothing is held at first.
LEMMA InitInv == Init => IndInv
<1> SUFFICES ASSUME Init PROVE IndInv
  BY Zenon
<1>1. <<>> \in Seq(Byte) /\ 0 \in Nat /\ 0 \in 0..MaxCalls
  BY BoundAssumption
<1>2. NoSink \in SinkType /\ NoSink.kind = "string" /\ NoSink.buf = Nil
  BY <1>1, NoViewType, Zenon DEF NoSink, Sink, SinkType, AllKinds
<1> HIDE DEF NoSink
<1>3. /\ heap = [x \in Bufs |-> <<>>] /\ main = NoItem /\ hot = NoItem /\ flight = Nil
      /\ getter = Nil /\ pc = [c \in Callers |-> "idle"] /\ sink = [c \in Callers |-> NoSink]
      /\ got = [c \in Callers |-> NoItem] /\ calls = [c \in Callers |-> 0]
  BY Zenon DEF Init
<1>4. \A c \in Callers : sink[c] = NoSink /\ pc[c] = "idle" /\ got[c] = NoItem
  BY <1>3, Zenon
<1>5. TypeOK
  <2>1. /\ heap \in [Bufs -> Seq(Byte)] /\ sink \in [Callers -> SinkType]
        /\ got \in [Callers -> ItemType] /\ calls \in [Callers -> 0..MaxCalls]
        /\ main \in ItemType /\ hot \in ItemType
    BY <1>1, <1>2, <1>3, NoItemType, Zenon
  <2>2. pc \in [Callers -> Phases]
    BY <1>3, Zenon DEF Phases
  <2>3. \A c \in Callers : sink[c].kind # "trunc"
    BY <1>2, <1>4, Zenon
  <2> QED
    BY <1>3, <2>1, <2>2, <2>3, Zenon DEF TypeOK
<1>6. NoItem.v.b = Nil
  BY Zenon DEF NoItem, Item, NoView, ByteView
<1>7. \A it \in Items : it = NoItem
  BY <1>3, <1>4, Zenon DEF Items
<1>8. \A it \in Items : ItemOK(it)
  BY <1>6, <1>7, Zenon DEF ItemOK
<1>9. \A c \in Callers : SinkOK(c)
  BY <1>2, <1>4, Zenon DEF SinkOK, Waiting, Full
<1> QED
  BY <1>5, <1>8, <1>9, Zenon DEF IndInv, Ownership

\* A step that changes nothing.
LEMMA StutterInv == ASSUME IndInv, UNCHANGED vars PROVE IndInv'
<1>1. /\ heap' = heap /\ main' = main /\ hot' = hot /\ flight' = flight /\ pc' = pc
      /\ sink' = sink /\ got' = got /\ getter' = getter /\ calls' = calls
  BY Zenon DEF vars
<1>2. TypeOK /\ (\A it \in Items : ItemOK(it)) /\ (\A u \in Callers : SinkOK(u))
  BY Zenon DEF IndInv, Ownership
<1>3. TypeOK' /\ Items' = Items
  BY <1>1, <1>2, Zenon DEF TypeOK, Items
<1>4. \A it \in Items' : ItemOK(it)'
  BY <1>1, <1>2, <1>3, Zenon DEF ItemOK
<1>5. \A u \in Callers : SinkOK(u)'
  BY <1>1, <1>2, Zenon DEF SinkOK, Writable
<1> QED
  BY <1>3, <1>4, <1>5, Zenon DEF IndInv, Ownership

\* Every step keeps the invariant.
LEMMA NextInv == IndInv /\ [Next]_vars => IndInv'
<1> SUFFICES ASSUME IndInv, [Next]_vars PROVE IndInv'
  BY Zenon
<1>1. CASE UNCHANGED vars
  BY <1>1, StutterInv, Zenon
<1>2. ASSUME NEW c \in Callers, NEW kind \in Kinds,
             NEW len \in IF kind = "trunc" THEN Lengths ELSE {0}, Call(c, kind, len)
      PROVE  IndInv'
  <2>1. len \in Lengths \cup {0}
    BY Zenon
  <2> QED
    BY <1>2, <2>1, CallInv, Zenon
<1>3. ASSUME NEW c \in Callers,
             \/ Lookup(c) \/ Do(c) \/ Recheck(c) \/ LoadFails(c) \/ EndFlight(c) \/ Deliver(c)
             \/ Return(c)
      PROVE  IndInv'
  BY <1>3, LookupInv, DoInv, RecheckInv, LoadFailsInv, EndFlightInv, DeliverInv, ReturnInv, Zenon
<1>4. ASSUME NEW c \in Callers, NEW d \in Data, NEW e \in Expiries,
             \/ SetHere(c, d, e)
             \/ \E how \in {"SetString", "SetBytes", "SetProto"} : LoadLocally(c, how, d, e)
      PROVE  IndInv'
  BY <1>4, SetHereInv, LoadLocallyInv, Zenon
<1>5. ASSUME NEW d \in PeerData, NEW e \in Expiries,
             RemoteSet(d, e) \/ \E c \in Callers : LoadFromPeer(c, d, e)
      PROVE  IndInv'
  <2>1. d \in Data
    BY PeerAssumption, Zenon
  <2> QED
    BY <1>5, <2>1, LoadFromPeerInv, RemoteSetInv, Zenon
<1>6. ASSUME NEW x \in Bufs, Scribble(x) PROVE IndInv'
  BY <1>6, ScribbleInv, Zenon
<1> QED
  BY <1>1, <1>2, <1>3, <1>4, <1>5, <1>6, EvictInv, Zenon DEF Next

\* Who may write into which buffer, with the types: what Frozen and Delivered
\* rest on.
THEOREM OwnershipHolds == Spec => []IndInv
  BY InitInv, NextInv, PTL DEF Spec

\* Every variable stays in its type, and a truncating sink never grows the
\* slice it was given (truncBytesSink.setBytesCommon).
THEOREM TypesHold == Spec => []TypeOK
<1>1. IndInv => TypeOK
  BY Zenon DEF IndInv
<1> QED
  BY <1>1, OwnershipHolds, PTL

\* Cached and delivered views keep their bytes and their expiry for any number
\* of callers, buffers and values, whatever the holders of slices write: the
\* sinks clone what they are given and copy what they hand out.
THEOREM ViewsFrozen == Spec => []Frozen
<1>1. IndInv => Frozen
  BY Zenon DEF IndInv, Ownership, ItemOK, Frozen
<1> QED
  BY <1>1, OwnershipHolds, PTL

\* A Get that succeeds leaves its value in the caller's destination, with all
\* five sinks and the three methods a Getter may use, for leader and duplicate.
THEOREM ValuesDelivered == Spec => []Delivered
<1>1. IndInv => Delivered
  BY Zenon DEF IndInv, Ownership, SinkOK, Full, Delivered
<1> QED
  BY <1>1, OwnershipHolds, PTL

-------------------------------------------------------------------------------
(* The methods of ByteView *)

\* The bytes of a view are a sequence, and its length theirs.
LEMMA BytesType ==
  ASSUME NEW h \in [Bufs -> Seq(Byte)], NEW v \in Views
  PROVE  /\ Bytes(h, v) \in Seq(Byte) /\ ViewLen(h, v) = Len(Bytes(h, v))
         /\ v.b # Nil => Bytes(h, v) = h[v.b]
         /\ v.b = Nil => Bytes(h, v) = v.s
<1>1. v.b \in Bufs \cup {Nil} /\ v.s \in Seq(Byte)
  BY Zenon DEF Views
<1>2. CASE v.b = Nil
  BY <1>1, <1>2, Zenon DEF Bytes, ViewLen
<1>3. CASE v.b # Nil
  <2>1. h[v.b] \in Seq(Byte)
    BY <1>1, <1>3, Zenon
  <2> QED
    BY <1>3, <2>1, Zenon DEF Bytes, ViewLen
<1> QED
  BY <1>2, <1>3, Zenon

\* EqualString and EqualBytes compare byte by byte.
LEMMA SameBytes ==
  ASSUME NEW s \in Seq(Byte), NEW t \in Seq(Byte)
  PROVE  /\ s = t <=> Len(t) = Len(s) /\ \A i \in DOMAIN s : s[i] = t[i]
         /\ s = t <=> Len(t) = Len(s) /\ \A i \in DOMAIN t : t[i] = s[i]
<1>1. DOMAIN s = 1..Len(s) /\ DOMAIN t = 1..Len(t)
  OBVIOUS
<1>2. Len(t) = Len(s) /\ (\A i \in 1..Len(s) : s[i] = t[i]) => s = t
  BY SeqEqual, Zenon
<1> QED
  BY <1>1, <1>2, Zenon

\* Equal compares the bytes, whichever of the two forms the views have.
LEMMA EqualIsEquality ==
  ASSUME NEW h \in [Bufs -> Seq(Byte)], NEW v \in Views, NEW w \in Views
  PROVE  Equal(h, v, w) <=> Bytes(h, v) = Bytes(h, w)
<1> DEFINE d == Bytes(h, v)
           c == Bytes(h, w)
<1>1. /\ d \in Seq(Byte) /\ ViewLen(h, v) = Len(d)
      /\ v.b # Nil => d = h[v.b]
      /\ v.b = Nil => d = v.s
  BY BytesType, Zenon
<1>2. /\ c \in Seq(Byte)
      /\ w.b # Nil => c = h[w.b]
      /\ w.b = Nil => c = w.s
  BY BytesType, Zenon
<1> HIDE DEF d, c
<1>3. /\ d = c <=> Len(c) = Len(d) /\ \A i \in DOMAIN d : d[i] = c[i]
      /\ d = c <=> Len(c) = Len(d) /\ \A i \in DOMAIN c : c[i] = d[i]
  BY <1>1, <1>2, SameBytes, Zenon
<1>4. EqualString(h, v, c) <=> d = c
  <2>1. CASE v.b = Nil
    BY <1>1, <2>1, Zenon DEF EqualString
  <2>2. CASE v.b # Nil
    BY <1>1, <1>3, <2>2, Zenon DEF EqualString
  <2> QED
    BY <2>1, <2>2, Zenon
<1>5. EqualBytes(h, v, c) <=> d = c
  <2>1. CASE v.b = Nil
    BY <1>1, <1>3, <2>1, Zenon DEF EqualBytes
  <2>2. CASE v.b # Nil
    BY <1>1, <2>2, Zenon DEF EqualBytes
  <2> QED
    BY <2>1, <2>2, Zenon
<1>6. Equal(h, v, w) <=> d = c
  BY <1>2, <1>4, <1>5, Zenon DEF Equal
<1> QED
  BY <1>6, Zenon DEF d, c

\* SliceFrom: what is left from an offset.
LEMMA Rest ==
  ASSUME NEW d \in Seq(Byte), NEW off \in Nat, off < Len(d)
  PROVE  /\ SubSeq(d, off + 1, Len(d)) \in Seq(Byte)
         /\ Len(SubSeq(d, off + 1, Len(d))) = Len(d) - off
OBVIOUS

\* A part of a part.
LEMMA SubSeqTwice ==
  ASSUME NEW d \in Seq(Byte), NEW off \in Nat, NEW n \in Nat, off + n <= Len(d)
  PROVE  SubSeq(SubSeq(d, off + 1, Len(d)), 1, n) = SubSeq(d, off + 1, off + n)
<1> DEFINE t == SubSeq(d, off + 1, Len(d))
           a == SubSeq(t, 1, n)
           b == SubSeq(d, off + 1, off + n)
<1>1. \A i \in 1..Len(d) : d[i] \in Byte
  OBVIOUS
<1>2. /\ t \in Seq(Byte) /\ Len(t) = Len(d) - off
      /\ \A i \in 1..(Len(d) - off) : t[i] = d[off + i]
  OBVIOUS
<1>3. /\ b \in Seq(Byte) /\ Len(b) = n
      /\ \A i \in 1..n : b[i] = d[off + i]
  OBVIOUS
<1> HIDE DEF t, b
<1>4. /\ a \in Seq(Byte) /\ Len(a) = n
      /\ \A i \in 1..n : a[i] = t[i]
  BY <1>2
<1> HIDE DEF a
<1>5. ASSUME NEW i \in 1..n PROVE a[i] = b[i]
  <2>1. i \in 1..(Len(d) - off)
    OBVIOUS
  <2> QED
    BY <1>2, <1>3, <1>4, <2>1, Zenon
<1>6. a = b
  <2>1. Len(a) = Len(b) /\ \A i \in 1..Len(a) : a[i] = b[i]
    BY <1>3, <1>4, <1>5, Zenon
  <2> QED
    BY <1>3, <1>4, <2>1, SeqEqual, Zenon
<1> QED
  BY <1>6, Zenon DEF a, b, t

\* ReadAt reads what there is from the offset, at most n bytes, and reports
\* the end exactly when these are fewer than n or the offset is past the bytes.
LEMMA ReadAtExact ==
  ASSUME NEW h \in [Bufs -> Seq(Byte)], NEW v \in Views, NEW off \in Nat, NEW n \in Nat
  PROVE  LET d == Bytes(h, v)
             r == ReadAt(h, v, n, off)
         IN  /\ r.read = SubSeq(d, off + 1, Shorter(off + n, Len(d)))
             /\ r.err = IF off >= Len(d) \/ off + n > Len(d) THEN "EOF" ELSE "none"
<1> DEFINE d == Bytes(h, v)
           r == ReadAt(h, v, n, off)
           t == SubSeq(d, off + 1, Len(d))
           c == CopyFrom(h, v, off, n)
<1>1. /\ d \in Seq(Byte) /\ ViewLen(h, v) = Len(d)
      /\ v.b # Nil => d = h[v.b]
      /\ v.b = Nil => d = v.s
  BY BytesType, Zenon
<1>2. c = IF Len(t) < n THEN t ELSE SubSeq(t, 1, n)
  BY <1>1, Zenon DEF CopyFrom
<1>3. r = IF off >= Len(d) THEN [read |-> <<>>, err |-> "EOF"]
          ELSE [read |-> c, err |-> IF Len(c) < n THEN "EOF" ELSE "none"]
  <2>1. ~ (off < 0)
    BY SMTT(30)
  <2> QED
    BY <1>1, <2>1, Zenon DEF ReadAt
<1> HIDE DEF d, c, r
<1>4. CASE off >= Len(d)
  <2>1. Shorter(off + n, Len(d)) \in Int /\ Shorter(off + n, Len(d)) < off + 1
    BY <1>1, <1>4 DEF Shorter
  <2>2. SubSeq(d, off + 1, Shorter(off + n, Len(d))) = <<>>
    BY <2>1, SubSeqEmpty
  <2>3. r.read = <<>> /\ r.err = "EOF"
    BY <1>3, <1>4, Zenon
  <2> QED
    BY <1>4, <2>2, <2>3, Zenon DEF d, r
<1>5. CASE off < Len(d)
  <2>1. t \in Seq(Byte) /\ Len(t) = Len(d) - off
    BY <1>1, <1>5, Rest, Zenon
  <2>2. r.read = c /\ r.err = IF Len(c) < n THEN "EOF" ELSE "none"
    <3>1. ~ (off >= Len(d))
      BY <1>1, <1>5
    <3>2. r = [read |-> c, err |-> IF Len(c) < n THEN "EOF" ELSE "none"]
      BY <1>3, <3>1, Zenon
    <3> QED
      BY <3>2, Zenon
  <2> HIDE DEF t
  <2>3. CASE Len(d) < off + n
    <3>1. c = t
      BY <1>1, <1>2, <2>1, <2>3
    <3>2. Shorter(off + n, Len(d)) = Len(d)
      BY <1>1, <2>3 DEF Shorter
    <3>3. r.err = "EOF"
      BY <1>1, <2>1, <2>2, <2>3, <3>1
    <3>4. r.read = SubSeq(d, off + 1, Shorter(off + n, Len(d)))
      BY <2>2, <3>1, <3>2, Zenon DEF t
    <3> QED
      BY <1>1, <2>3, <3>3, <3>4, Zenon DEF d, r
  <2>4. CASE off + n <= Len(d)
    <3>1. c = SubSeq(t, 1, n)
      BY <1>1, <1>2, <2>1, <2>4
    <3>2. c = SubSeq(d, off + 1, off + n)
      BY <1>1, <2>4, <3>1, SubSeqTwice, Zenon DEF t
    <3>3. Len(c) = n
      BY <2>1, <2>4, <3>1, <1>1
    <3>4. Shorter(off + n, Len(d)) = off + n
      BY <1>1, <2>4 DEF Shorter
    <3>5. r.err = "none"
      BY <2>2, <3>3
    <3>6. r.read = SubSeq(d, off + 1, Shorter(off + n, Len(d)))
      BY <2>2, <3>2, <3>4, Zenon
    <3> QED
      BY <1>1, <1>5, <2>4, <3>5, <3>6 DEF d, r
  <2> QED
    BY <1>1, <2>3, <2>4
<1> QED
  BY <1>1, <1>4, <1>5

\* A view that went through a cache, a flight or a sink reads and compares by
\* its bytes.
LEMMA TypesHide == TypeOK => RepresentationHidden
<1> SUFFICES ASSUME TypeOK, NEW it \in Items \ {NoItem}
             PROVE  LET d == Bytes(heap, it.v) IN
                    /\ \A other \in Items \ {NoItem} :
                         Equal(heap, it.v, other.v) <=> d = Bytes(heap, other.v)
                    /\ \A off, n \in {0, 1, Len(d), Len(d) + 1} :
                         LET r == ReadAt(heap, it.v, n, off) IN
                         /\ r.read = SubSeq(d, off + 1, Shorter(off + n, Len(d)))
                         /\ r.err = IF off >= Len(d) \/ off + n > Len(d) THEN "EOF" ELSE "none"
                    /\ \A n \in {0, 1, Len(d)} :
                         ReadAt(heap, it.v, n, -1) = [read |-> <<>>, err |-> "offset"]
  BY Zenon DEF RepresentationHidden
<1> DEFINE d == Bytes(heap, it.v)
<1>1. heap \in [Bufs -> Seq(Byte)] /\ \A i \in Items : i.v \in Views
  BY Zenon DEF TypeOK, Items, ItemType
<1>2. ASSUME NEW other \in Items \ {NoItem}
      PROVE  Equal(heap, it.v, other.v) <=> d = Bytes(heap, other.v)
  BY <1>1, EqualIsEquality, Zenon
<1>3. d \in Seq(Byte)
  BY <1>1, BytesType, Zenon
<1> HIDE DEF d
<1>4. {0, 1, Len(d), Len(d) + 1} \subseteq Nat
  BY <1>3
<1>5. ASSUME NEW off \in Nat, NEW n \in Nat
      PROVE  LET r == ReadAt(heap, it.v, n, off) IN
             /\ r.read = SubSeq(d, off + 1, Shorter(off + n, Len(d)))
             /\ r.err = IF off >= Len(d) \/ off + n > Len(d) THEN "EOF" ELSE "none"
  BY <1>1, ReadAtExact, Zenon DEF d
<1>6. ASSUME NEW n PROVE ReadAt(heap, it.v, n, -1) = [read |-> <<>>, err |-> "offset"]
  <2>1. -1 < 0
    BY SMTT(30)
  <2> QED
    BY <2>1, Zenon DEF ReadAt
<1> QED
  BY <1>2, <1>4, <1>5, <1>6, Zenon DEF d

\* ByteView's two representations cannot be told apart in any view that a
\* cache, a flight or a caller holds, whatever happened to it on the way.
THEOREM RepresentationInvisible == Spec => []RepresentationHidden
  BY TypesHold, TypesHide, PTL

===============================================================================
