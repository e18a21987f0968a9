-------------------------------- MODULE Views ---------------------------------
(***************************************************************************)
(* What a Get hands to its caller: ByteView, the five sinks, and the way a *)
(* value travels from the Getter or a peer through the caches and the      *)
(* flight to every caller's own destination.                               *)
(*                                                                         *)
(* A []byte is a buffer of the heap; a string is a value.  A ByteView is   *)
(* "immutable" by convention only: whoever holds a buffer that a view      *)
(* points to can change it.  The holders are modelled: callers write into  *)
(* the slices they got (Scribble), the Getter reuses the slice it passed   *)
(* to SetBytes.                                                            *)
(*                                                                         *)
(* One key of one node.  An item is a view with, as a ghost, what it was   *)
(* made from; shared marks a view of the slice a caller gave to Set.       *)
(***************************************************************************)
EXTENDS Integers, Sequences

CONSTANTS
  Callers,
  Bufs,         \* buffers; one that nobody refers to is free
  Nil,
  Data,         \* what values may be: sequences of bytes
  PeerData,     \* bound: those that peers send
  Encodings,    \* the data proto.Unmarshal accepts
  Expiries,     \* 0 is the zero time.Time
  Kinds,        \* the sinks callers use
  Lengths,      \* len(*dst) of a TruncatingByteSliceSink
  Junk,         \* a byte a buffer's holder may write
  MaxCalls      \* bound: calls of each caller

AllKinds == {"string", "view", "proto", "alloc", "trunc"}

Byte == 0..255

ASSUME BufAssumption == Nil \notin Bufs /\ Nil \notin Data
ASSUME DataAssumption == Data \subseteq Seq(Byte) /\ Junk \in Byte
ASSUME PeerAssumption == PeerData \subseteq Data
ASSUME SinkAssumption == Kinds \subseteq AllKinds /\ Lengths \subseteq Nat
ASSUME BoundAssumption == MaxCalls \in Nat

VARIABLES
  heap,     \* heap[x]: the contents of buffer x
  main, hot,  \* the caches: an item or NoItem
  flight,   \* the leader of the flight for the key, or Nil
  pc,       \* what each caller does next
  sink,     \* each caller's sink, with its destination
  got,      \* the item each caller's Get ended with
  getter,   \* the slice the Getter last passed to SetBytes, or Nil
  calls     \* calls each caller has made

vars == <<heap, main, hot, flight, pc, sink, got, getter, calls>>

-------------------------------------------------------------------------------
(* ByteView *)

\* If b is non-nil, b is used, else s is used.
ByteView(b, s, e) == [b |-> b, s |-> s, e |-> e]

NoView == ByteView(Nil, <<>>, 0)

\* String, ByteSlice, Reader, WriteTo: the bytes of a view.
Bytes(h, v) == IF v.b # Nil THEN h[v.b] ELSE v.s

ViewLen(h, v) == IF v.b # Nil THEN Len(h[v.b]) ELSE Len(v.s)

\* SliceFrom, then Copy into n bytes: what is copied.
CopyFrom(h, v, off, n) ==
  LET d == IF v.b # Nil THEN SubSeq(h[v.b], off + 1, Len(h[v.b]))
                        ELSE SubSeq(v.s, off + 1, Len(v.s))
  IN  IF Len(d) < n THEN d ELSE SubSeq(d, 1, n)

\* Mutant of ReadAt: a read that ends with the data reports its end.
ReadAtEndsEarly(h, v, n, off) ==
  IF off < 0 THEN [read |-> <<>>, err |-> "offset"]
  ELSE IF off >= ViewLen(h, v) THEN [read |-> <<>>, err |-> "EOF"]
  ELSE LET d == CopyFrom(h, v, off, n)
       IN  [read |-> d, err |-> IF off + Len(d) = ViewLen(h, v) THEN "EOF" ELSE "none"]

\* Into n bytes from offset off.
ReadAt(h, v, n, off) ==
  IF off < 0 THEN [read |-> <<>>, err |-> "offset"]
  ELSE IF off >= ViewLen(h, v) THEN [read |-> <<>>, err |-> "EOF"]
  ELSE LET d == CopyFrom(h, v, off, n)
       IN  [read |-> d, err |-> IF Len(d) < n THEN "EOF" ELSE "none"]

EqualString(h, v, s) ==
  IF v.b = Nil THEN v.s = s
  ELSE /\ Len(s) = ViewLen(h, v)
       /\ \A i \in DOMAIN h[v.b] : h[v.b][i] = s[i]

EqualBytes(h, v, d) ==
  IF v.b # Nil THEN h[v.b] = d
  ELSE /\ Len(d) = ViewLen(h, v)
       /\ \A i \in DOMAIN d : d[i] = v.s[i]

Equal(h, v, w) ==
  IF w.b = Nil THEN EqualString(h, v, w.s) ELSE EqualBytes(h, v, h[w.b])

-------------------------------------------------------------------------------
(* Sinks.  val is the destination of a StringSink or a ProtoSink, (buf, len)  *)
(* the slice of the two byte slice sinks; a ByteViewSink's destination is v.  *)
(* f and g are fresh buffers.  A method gives the heap, the sink and success. *)

Sink(kind, buf, len) ==
  [kind |-> kind, v |-> NoView, val |-> <<>>, buf |-> buf, len |-> len, room |-> len]

NoSink == Sink("string", Nil, 0)

Done(h, k) == [heap |-> h, sink |-> k, ok |-> TRUE]

Shorter(m, n) == IF m < n THEN m ELSE n

\* Mutant of Truncated: *s.dst is resliced to the length of the value.
TruncatedToValue(h, k, d) ==
  LET n == Shorter(k.len, Len(d))
  IN  Done([h EXCEPT ![k.buf] = [i \in DOMAIN @ |-> IF i <= n THEN d[i] ELSE @[i]]],
           [k EXCEPT !.len = Len(d)])

\* copy(*s.dst, d), then shrink *s.dst to what was copied.
Truncated(h, k, d) ==
  LET n == Shorter(k.len, Len(d))
  IN  Done([h EXCEPT ![k.buf] = [i \in DOMAIN @ |-> IF i <= n THEN d[i] ELSE @[i]]],
           [k EXCEPT !.len = n])

WithView(out, v) == [out EXCEPT !.sink.v = v]

\* Of both byte slice sinks: f is the sink's to keep, g a copy for the caller.
setBytesOwned(h, k, f, e, g) ==
  IF k.kind = "alloc"
  THEN Done([h EXCEPT ![g] = h[f]],
            [k EXCEPT !.buf = g, !.len = Len(h[f]), !.v = ByteView(f, <<>>, e)])
  ELSE WithView(Truncated(h, k, h[f]), ByteView(f, <<>>, e))

\* proto.Unmarshal into the destination, which an error leaves undefined.
Unmarshalled(h, k, f, e) ==
  IF h[f] \in Encodings
  THEN Done(h, [k EXCEPT !.val = h[f], !.v = ByteView(f, <<>>, e)])
  ELSE [heap |-> h, sink |-> k, ok |-> FALSE]

SetString(h, k, d, e, f) ==
  LET v == ByteView(Nil, d, e)
      copied == [h EXCEPT ![f] = d]
  IN  CASE k.kind = "string" -> Done(h, [k EXCEPT !.val = d, !.v = v])
        [] k.kind = "view"   -> Done(h, [k EXCEPT !.v = v])
        [] k.kind = "proto"  -> Unmarshalled(copied, k, f, e)
        [] k.kind = "alloc"  -> Done(copied, [k EXCEPT !.buf = f, !.len = Len(d), !.v = v])
        [] k.kind = "trunc"  -> WithView(Truncated(h, k, d), v)

\* Mutant of SetBytes: the bytes are not copied, as if the sink owned them.
SetBytesAliased(h, k, x, e, f, g) ==
  CASE k.kind = "string" -> SetString(h, k, h[x], e, f)
    [] k.kind = "view"   -> Done(h, [k EXCEPT !.v = ByteView(x, <<>>, e)])
    [] k.kind = "proto"  -> Unmarshalled(h, k, x, e)
    [] k.kind \in {"alloc", "trunc"} -> setBytesOwned(h, k, x, e, g)

\* x is the caller's buffer: every sink clones it.
SetBytes(h, k, x, e, f, g) ==
  LET cloned == [h EXCEPT ![f] = h[x]] IN
  CASE k.kind = "string" -> SetString(h, k, h[x], e, f)
    [] k.kind = "view"   -> Done(cloned, [k EXCEPT !.v = ByteView(f, <<>>, e)])
    [] k.kind = "proto"  -> Unmarshalled(cloned, k, f, e)
    [] k.kind \in {"alloc", "trunc"} -> setBytesOwned(cloned, k, f, e, g)

\* proto.Marshal makes a new buffer of the message's encoding d.
SetProto(h, k, d, e, f, g) ==
  LET marshalled == [h EXCEPT ![f] = d] IN
  CASE k.kind = "string" -> Done(marshalled, [k EXCEPT !.val = d, !.v.b = f, !.v.e = e])
    [] k.kind = "view"   -> Done(marshalled, [k EXCEPT !.v = ByteView(f, <<>>, e)])
    [] k.kind = "proto"  -> Unmarshalled(marshalled, k, f, e)
    [] k.kind \in {"alloc", "trunc"} -> setBytesOwned(marshalled, k, f, e, g)

\* The sinks that keep the view itself.
setView(h, k, v, f) ==
  CASE k.kind = "view"  -> Done(h, [k EXCEPT !.v = v])
    [] k.kind = "alloc" -> Done([h EXCEPT ![f] = Bytes(h, v)],
                                [k EXCEPT !.buf = f, !.len = ViewLen(h, v), !.v = v])

\* Mutant of SetSinkView: the bytes go through, the expiry does not.
SetSinkViewNoExpiry(h, k, v, f, g) ==
  CASE k.kind \in {"view", "alloc"} -> setView(h, k, v, f)
    [] OTHER -> IF v.b # Nil THEN SetBytes(h, k, v.b, 0, f, g)
                             ELSE SetString(h, k, v.s, 0, f)

SetSinkView(h, k, v, f, g) ==
  CASE k.kind \in {"view", "alloc"} -> setView(h, k, v, f)
    [] OTHER -> IF v.b # Nil THEN SetBytes(h, k, v.b, v.e, f, g)
                             ELSE SetString(h, k, v.s, v.e, f)

-------------------------------------------------------------------------------
(* One key of a group *)

Item(v, d, e, shared) == [v |-> v, d |-> d, e |-> e, shared |-> shared]
NoItem == Item(NoView, Nil, 0, FALSE)

Init ==
  /\ heap = [x \in Bufs |-> <<>>]
  /\ main = NoItem /\ hot = NoItem /\ flight = Nil /\ getter = Nil
  /\ pc = [c \in Callers |-> "idle"]
  /\ sink = [c \in Callers |-> NoSink]
  /\ got = [c \in Callers |-> NoItem]
  /\ calls = [c \in Callers |-> 0]

\* Buffers somebody refers to; make and append return others.
Used == {getter, main.v.b, hot.v.b}
          \cup UNION {{sink[c].buf, sink[c].v.b, got[c].v.b} : c \in Callers}
Fresh == Bufs \ Used

\* Which buffer an allocation returns does not matter, only that it is new.
New == CHOOSE x \in Fresh : TRUE
New2 == CHOOSE x \in Fresh \ {New} : TRUE
New3 == CHOOSE x \in Fresh \ {New, New2} : TRUE
CanAllocate == Fresh \ {New, New2} # {}

\* The step leaves h, less the buffers it leaves without a reference.
Collect(h) == heap' = [x \in Bufs |-> IF x \in Used' THEN h[x] ELSE <<>>]

\* What a slice's holder may write into it: as many bytes as it has.
Overwritten(d) == [i \in DOMAIN d |-> Junk]

\* A call with a new sink.  A truncating sink comes with its own buffer.
Call(c, kind, len) ==
  /\ pc[c] = "idle" /\ calls[c] < MaxCalls /\ CanAllocate
  /\ calls' = [calls EXCEPT ![c] = @ + 1]
  /\ pc' = [pc EXCEPT ![c] = "lookup"]
  /\ got' = [got EXCEPT ![c] = NoItem]
  /\ IF kind = "trunc"
     THEN /\ sink' = [sink EXCEPT ![c] = Sink(kind, New, len)]
          /\ UNCHANGED <<main, hot, flight, getter>>
          /\ Collect([heap EXCEPT ![New] = [i \in 1..len |-> Junk]])
     ELSE /\ sink' = [sink EXCEPT ![c] = Sink(kind, Nil, 0)]
          /\ UNCHANGED <<main, hot, flight, getter>>
          /\ Collect(heap)

Cached == {it \in {main, hot} : it # NoItem}

\* lookupCache, main cache first.
LookupCache(c, hit, miss) ==
  /\ \/ \E it \in Cached : /\ (it = main \/ main = NoItem)
                           /\ got' = [got EXCEPT ![c] = it]
                           /\ pc' = [pc EXCEPT ![c] = hit]
     \/ /\ Cached = {}
        /\ pc' = [pc EXCEPT ![c] = miss]
        /\ UNCHANGED got
  /\ UNCHANGED <<heap, main, hot, flight, sink, getter, calls>>

\* Get's lookup: the view it finds is delivered by a later step.
Lookup(c) == pc[c] = "lookup" /\ LookupCache(c, "deliver", "do")

\* loadGroup.Do: lead the flight or wait for it.
Do(c) ==
  /\ pc[c] = "do"
  /\ flight' = IF flight = Nil THEN c ELSE flight
  /\ pc' = [pc EXCEPT ![c] = IF flight = Nil THEN "load" ELSE "wait"]
  /\ UNCHANGED <<heap, main, hot, sink, got, getter, calls>>

\* load's second lookup, by the leader.
Recheck(c) == pc[c] = "load" /\ LookupCache(c, "publish", "fetch")

\* The peer or the Getter returns an error of its own.
LoadFails(c) ==
  /\ pc[c] = "fetch"
  /\ pc' = [pc EXCEPT ![c] = "fail"]
  /\ UNCHANGED <<heap, main, hot, flight, sink, got, getter, calls>>

\* getLocally after the Getter: dest.View(), then populateCache.  The Getter
\* returns the error of the sink's method.
Populated(c, out, d, e) ==
  IF out.ok
  THEN /\ got' = [got EXCEPT ![c] = Item(out.sink.v, d, e, FALSE)]
       /\ main' = got'[c]
       /\ pc' = [pc EXCEPT ![c] = "publishDone"]
  ELSE /\ pc' = [pc EXCEPT ![c] = "fail"]
       /\ UNCHANGED <<main, got>>

\* getLocally: the Getter of the application sets the leader's own sink.  For
\* SetBytes it uses a slice of its own, which it may write again later.
LoadLocally(c, how, d, e) ==
  /\ pc[c] = "fetch" /\ CanAllocate
  /\ LET filled == [heap EXCEPT ![New3] = d]
         out == CASE how = "SetString" -> SetString(heap, sink[c], d, e, New)
                  [] how = "SetBytes"  -> SetBytes(filled, sink[c], New3, e, New, New2)
                  [] how = "SetProto"  -> SetProto(heap, sink[c], d, e, New, New2)
     IN  /\ how = "SetProto" => d \in Encodings
         /\ sink' = [sink EXCEPT ![c] = out.sink]
         /\ getter' = IF how = "SetBytes" THEN New3 ELSE getter
         /\ Populated(c, out, d, e)
         /\ UNCHANGED <<hot, flight, calls>>
         /\ Collect(out.heap)

\* getFromPeer: the owner's answer is a new buffer, and goes to the hot cache.
LoadFromPeer(c, d, e) ==
  /\ pc[c] = "fetch" /\ CanAllocate
  /\ got' = [got EXCEPT ![c] = Item(ByteView(New, <<>>, e), d, e, FALSE)]
  /\ hot' = got'[c]
  /\ pc' = [pc EXCEPT ![c] = "publish"]
  /\ UNCHANGED <<main, flight, sink, getter, calls>>
  /\ Collect([heap EXCEPT ![New] = d])

\* The flight ends: its waiters get the leader's view, or its error.  The
\* leader that ran the Getter has its destination populated already.
EndFlight(c) ==
  /\ pc[c] \in {"publish", "publishDone", "fail"} /\ flight = c
  /\ flight' = Nil
  /\ LET ends == IF pc[c] = "fail" THEN "failed" ELSE "deliver" IN
     pc' = [u \in Callers |-> IF u = c /\ pc[c] = "publishDone" THEN "done"
                             ELSE IF u = c \/ pc[u] = "wait" THEN ends ELSE pc[u]]
  /\ got' = [u \in Callers |->
               IF pc[u] = "wait" /\ pc[c] # "fail" THEN got[c] ELSE got[u]]
  /\ UNCHANGED <<heap, main, hot, sink, getter, calls>>

\* Get: return transport.SetSinkView(dest, value).
Deliver(c) ==
  /\ pc[c] = "deliver" /\ CanAllocate
  /\ LET out == SetSinkView(heap, sink[c], got[c].v, New, New2)
     IN  /\ sink' = [sink EXCEPT ![c] = out.sink]
         /\ pc' = [pc EXCEPT ![c] = IF out.ok THEN "done" ELSE "failed"]
         /\ UNCHANGED <<main, hot, flight, got, getter, calls>>
         /\ Collect(out.heap)

\* Get returns.  The caller keeps its destination; the sink is dropped.
Return(c) ==
  /\ pc[c] \in {"done", "failed"}
  /\ pc' = [pc EXCEPT ![c] = "idle"]
  /\ sink' = [sink EXCEPT ![c].v = IF sink[c].kind = "view" THEN @ ELSE NoView]
  /\ got' = [got EXCEPT ![c] =
               IF sink[c].kind = "view" /\ pc[c] = "done" THEN @ ELSE NoItem]
  /\ UNCHANGED <<main, hot, flight, getter, calls>>
  /\ Collect(heap)

\* Set, when the owner takes it: the view cached here is of the caller's slice
\* itself.
SetHere(c, d, e) ==
  /\ pc[c] = "idle" /\ calls[c] < MaxCalls /\ CanAllocate
  /\ calls' = [calls EXCEPT ![c] = @ + 1]
  /\ sink' = [sink EXCEPT ![c] = [NoSink EXCEPT !.buf = New, !.len = Len(d)]]
  /\ got' = [got EXCEPT ![c] = NoItem]
  /\ main' = Item(ByteView(New, <<>>, e), d, e, TRUE)
  /\ hot' = NoItem
  /\ UNCHANGED <<flight, pc, getter>>
  /\ Collect([heap EXCEPT ![New] = d])

\* RemoteSet, called by the transport's handler with the request's value.
RemoteSet(d, e) ==
  /\ CanAllocate
  /\ main' = Item(ByteView(New, <<>>, e), d, e, FALSE)
  /\ hot' = NoItem
  /\ UNCHANGED <<flight, pc, sink, got, getter, calls>>
  /\ Collect([heap EXCEPT ![New] = d])

\* Eviction, expiry or removal of the key, from one cache or, in two steps, both.
Evict ==
  /\ Cached # {}
  /\ \/ main' = NoItem /\ UNCHANGED hot
     \/ hot' = NoItem /\ UNCHANGED main
  /\ UNCHANGED <<flight, pc, sink, got, getter, calls>>
  /\ Collect(heap)

\* The holder of a slice writes into it: a caller into the destination it
\* got or the value it set, the Getter into its own.
Scribble(x) ==
  /\ \/ x = getter
     \/ \E c \in Callers : pc[c] = "idle" /\ sink[c].buf = x
  /\ x \in Bufs
  /\ heap' = [heap EXCEPT ![x] = Overwritten(@)]
  /\ UNCHANGED <<main, hot, flight, pc, sink, got, getter, calls>>

Next ==
  \/ \E c \in Callers :
       \/ \E kind \in Kinds : \E len \in IF kind = "trunc" THEN Lengths ELSE {0} : Call(c, kind, len)
       \/ Lookup(c) \/ Do(c) \/ Recheck(c) \/ LoadFails(c) \/ EndFlight(c) \/ Deliver(c) \/ Return(c)
       \/ \E d \in PeerData, e \in Expiries : LoadFromPeer(c, d, e)
       \/ \E d \in Data, e \in Expiries :
            \/ SetHere(c, d, e)
            \/ \E how \in {"SetString", "SetBytes", "SetProto"} : LoadLocally(c, how, d, e)
  \/ \E d \in PeerData, e \in Expiries : RemoteSet(d, e)
  \/ Evict
  \/ \E x \in Bufs : Scribble(x)

Spec == Init /\ [][Next]_vars

-------------------------------------------------------------------------------
(* Properties *)

Views == [b : Bufs \cup {Nil}, s : Seq(Byte), e : Expiries \cup {0}]
ItemType == [v : Views, d : Seq(Byte) \cup {Nil}, e : Expiries \cup {0}, shared : BOOLEAN]
SinkType == [kind : AllKinds, v : Views, val : Seq(Byte), buf : Bufs \cup {Nil},
             len : Nat, room : Nat]

Phases == {"idle", "lookup", "do", "load", "wait", "fetch", "publish", "publishDone",
           "fail", "deliver", "done", "failed"}

TypeOK ==
  /\ heap \in [Bufs -> Seq(Byte)]
  /\ main \in ItemType /\ hot \in ItemType
  /\ flight \in Callers \cup {Nil}
  /\ pc \in [Callers -> Phases]
  /\ sink \in [Callers -> SinkType]
  /\ \A c \in Callers : sink[c].kind = "trunc" => sink[c].len <= sink[c].room
  /\ got \in [Callers -> ItemType]
  /\ getter \in Bufs \cup {Nil}
  /\ calls \in [Callers -> 0..MaxCalls]

Items == {main, hot} \cup {got[c] : c \in Callers}

\* A view, in a cache, on its way to a caller or kept by one, has the bytes
\* and the expiry its value was given with, whatever the callers and the
\* Getter write into the slices they hold: "A ByteView holds an
\* immutable view of bytes".  The exception is the slice given to Set, which
\* the cache keeps without a copy.
Frozen ==
  \A it \in Items \ {NoItem} :
    it.shared \/ (Bytes(heap, it.v) = it.d /\ it.v.e = it.e)

Prefix(d, n) == [i \in 1..n |-> d[i]]

\* The destination of sink k has the value d, and its view d and the expiry e.
Holds(h, k, d, e) ==
  /\ CASE k.kind \in {"string", "proto"} -> k.val = d
       [] k.kind = "view"  -> Bytes(h, k.v) = d
       [] k.kind = "alloc" -> k.buf \in Bufs /\ h[k.buf] = d /\ k.len = Len(d)
       [] k.kind = "trunc" -> /\ k.buf \in Bufs /\ k.len = Shorter(k.room, Len(d))
                              /\ Prefix(h[k.buf], k.len) = Prefix(d, k.len)
  /\ Bytes(h, k.v) = d
  /\ k.v.e = e

\* A Get that succeeds leaves the whole value in the caller's destination, or
\* as much of it as a truncating sink has room for, and a view with the whole
\* value and its expiry in the sink, whoever ran the Getter and whichever
\* method and sinks the leader and the duplicates used.
Delivered ==
  \A c \in Callers :
    (pc[c] = "done" /\ ~ got[c].shared) => Holds(heap, sink[c], got[c].d, got[c].e)

\* "Internally it wraps either a []byte or a string, but that detail is
\* invisible to callers": Equal compares two views by their bytes in each of
\* the four pairings, and ReadAt returns the bytes there are from the offset,
\* with EOF exactly when the offset is past them or fewer than asked for are left,
\* and no other error unless the offset is negative.
RepresentationHidden ==
  \A it \in Items \ {NoItem} :
    LET d == Bytes(heap, it.v) IN
    /\ \A other \in Items \ {NoItem} :
         Equal(heap, it.v, other.v) <=> d = Bytes(heap, other.v)
    /\ \A off, n \in {0, 1, Len(d), Len(d) + 1} :
         LET r == ReadAt(heap, it.v, n, off) IN
         /\ r.read = SubSeq(d, off + 1, Shorter(off + n, Len(d)))
         /\ r.err = IF off >= Len(d) \/ off + n > Len(d) THEN "EOF" ELSE "none"
    /\ \A n \in {0, 1, Len(d)} : ReadAt(heap, it.v, n, -1) = [read |-> <<>>, err |-> "offset"]

===============================================================================
