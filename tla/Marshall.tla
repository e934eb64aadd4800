------------------------------ MODULE Marshall ------------------------------
(***************************************************************************)
(* marshall and unmarshall (rpc/marshall.h, rpc/rpc.cc), and the templates *)
(* of rpc.h that use them: rpcc::call shifts its arguments into a request, *)
(* the handler made by rpcs::reg shifts them out, and the result goes back *)
(* the same way; a request that dispatch turns down is answered by nothing *)
(* but a header.  The types of the caller and of the handler are chosen    *)
(* apart, since nothing but the encoding connects them.  A byte has Base   *)
(* values, the widths of the types are those of the code.                  *)
(***************************************************************************)
EXTENDS Naturals, Sequences, SequencesExt, FiniteSetsExt

CONSTANTS Base,             \* values of a byte
          DEFAULT_RPC_SZ,   \* capacity of a new buffer
          Type,             \* the types that are used
          Values,           \* for each, the values that are marshalled
          ReqHeader,        \* the headers of requests
          Ret,              \* the return values of handlers
          MaxArgs           \* bound: arguments of a call

VARIABLES
    pc,     \* where the call is
    m,      \* the marshall object in use
    u,      \* the unmarshall object in use
    sent,   \* the arguments, then the result, that were marshalled: [type, v]
    got,    \* those that were unmarshalled
    hdr,    \* the header that was packed
    seen    \* the header that was unpacked

vars == <<pc, m, u, sent, got, hdr, seen>>

SizeofInt == 4
RPC_HEADER_SZ == 5 * SizeofInt + SizeofInt
Power[k \in Nat] == IF k = 0 THEN 1 ELSE Base * Power[k - 1]
UintMod == Power[SizeofInt]
Uint == 0..UintMod - 1
Byte == 0..Base - 1
Junk == Base                 \* a byte that was never written
Cell == Byte \cup {Junk}
Width == [char |-> 1, short |-> 2, int |-> 4, ull |-> 8]

\* The ints of reply_header::ret as unsigned ints, and the failures that
\* dispatch reports without a call of the handler.
Negative(ret) == 2 * ret >= UintMod
atmostonce_failure == UintMod - 4
oldsrv_failure == UintMod - 5

\* The values a type has.
ValuesOf(type) ==
    IF type \in {"string", "vector"} THEN {v \in Seq(Byte) : Len(v) \in Uint}
    ELSE 0..Power[Width[type]] - 1

ASSUME MarshallAssumption ==
    /\ Base \in Nat \ {0, 1} /\ MaxArgs \in Nat
    /\ DEFAULT_RPC_SZ \in Nat /\ DEFAULT_RPC_SZ >= RPC_HEADER_SZ
    /\ Type \subseteq {"char", "short", "int", "ull", "string", "vector"}
    /\ DOMAIN Values = Type
    /\ \A type \in Type : \A v \in Values[type] : v \in ValuesOf(type)
    /\ \A h \in ReqHeader : h \in Seq(Uint) /\ Len(h) = 5
    /\ Ret \subseteq Uint

-----------------------------------------------------------------------------
(***************************************************************************)
(* marshall: buf has _capa bytes; a write at _capa or beyond is an overrun *)
(* and is left out.                                                        *)
(***************************************************************************)
NewMarshall == [buf |-> [i \in 1..DEFAULT_RPC_SZ |-> Junk], ind |-> RPC_HEADER_SZ]
Capa(x) == Len(x.buf)

Grow(buf, capa) == [i \in 1..capa |-> IF i <= Len(buf) THEN buf[i] ELSE Junk]
Store(buf, ind, p) ==
    [i \in 1..Len(buf) |-> IF i \in ind + 1..ind + Len(p) THEN p[i - ind] ELSE buf[i]]

\* rawbyte for each byte of p.
RawByte(x, p) ==
    LET capa[i \in Nat] ==
            IF i = 0 THEN Capa(x)
            ELSE LET c == capa[i - 1] IN IF x.ind + i - 1 >= c THEN 2 * c ELSE c
    IN  [buf |-> Store(Grow(x.buf, capa[Len(p)]), x.ind, p), ind |-> x.ind + Len(p)]

\* Faulty variant: the buffer grows to the size of what is added.
RawBytesTight(x, p) ==
    LET n == Len(p)
        capa == IF x.ind + n <= Capa(x) THEN Capa(x)
                ELSE IF Capa(x) > n THEN 2 * Capa(x) ELSE n
    IN  [buf |-> Store(Grow(x.buf, capa), x.ind, p), ind |-> x.ind + n]

RawBytes(x, p) ==
    LET n == Len(p)
        capa == IF x.ind + n <= Capa(x) THEN Capa(x)
                ELSE IF Capa(x) > n THEN 2 * Capa(x) ELSE Capa(x) + n
    IN  [buf |-> Store(Grow(x.buf, capa), x.ind, p), ind |-> x.ind + n]

\* A number shifted to the right by k bytes.
Shr(v, k) ==
    LET shr[i \in Nat] == IF i = 0 THEN v ELSE shr[i - 1] \div Base
    IN  shr[k]

\* The w bytes of a number, in network order.
BigEndian(v, w) == [i \in 1..w |-> Shr(v, w - i) % Base]

\* operator<< of a value of a type.
ShiftIn(x, type, v) ==
    CASE type = "string" -> RawBytes(RawByte(x, BigEndian(Len(v), SizeofInt)), v)
      [] type = "vector" -> RawByte(RawByte(x, BigEndian(Len(v), SizeofInt)), v)
      [] OTHER -> RawByte(x, BigEndian(v, Width[type]))

\* pack_req_header and pack_reply_header: the fields go between the size of
\* the PDU and the arguments.
PackHeader(x, h) ==
    LET p == FlattenSeq([i \in DOMAIN h |-> BigEndian(h[i], SizeofInt)])
    IN  [buf |-> RawByte([buf |-> x.buf, ind |-> SizeofInt], p).buf, ind |-> x.ind]

\* What connection::send puts on the stream: the size, and the rest.
Pdu(x) == BigEndian(x.ind, SizeofInt) \o SubSeq(x.buf, SizeofInt + 1, x.ind)

-----------------------------------------------------------------------------
(***************************************************************************)
(* unmarshall.  fault says that bytes outside the buffer were read.        *)
(***************************************************************************)
NewUnmarshall(pdu) == [buf |-> pdu, ind |-> 0, ok |-> TRUE, fault |-> FALSE]
Sz(x) == Len(x.buf)

\* The number whose bytes are p.
Number(p) ==
    LET value[i \in 0..Len(p)] == IF i = 0 THEN 0 ELSE value[i - 1] * Base + p[i]
    IN  value[Len(p)]

\* w calls of rawbyte; at the end of the buffer it returns 0.
ReadNumber(x, w) ==
    LET n == Min({w, Sz(x) - x.ind})
    IN  [u |-> [x EXCEPT !.ind = @ + n, !.ok = @ /\ n = w],
         v |-> Number([i \in 1..w |-> IF i <= n THEN x.buf[x.ind + i] ELSE 0])]

\* Faulty variant: only the length is compared with the size of the PDU.
FitsAlone(x, n) == n <= Sz(x)

\* The test of unmarshall::rawbytes, a sum of unsigned ints.
Fits(x, n) == (x.ind + n) % UintMod <= Sz(x)

ReadString(x) ==
    LET r == ReadNumber(x, SizeofInt)
    IN  IF ~r.u.ok THEN [u |-> r.u, v |-> <<>>]
        ELSE IF ~Fits(r.u, r.v) THEN [u |-> [r.u EXCEPT !.ok = FALSE], v |-> <<>>]
        ELSE IF r.u.ind + r.v > Sz(x) THEN [u |-> [r.u EXCEPT !.fault = TRUE], v |-> <<>>]
        ELSE [u |-> [r.u EXCEPT !.ind = @ + r.v],
              v |-> SubSeq(x.buf, r.u.ind + 1, r.u.ind + r.v)]

\* The elements of a vector are read one by one, past the end as well.
ReadVector(x) ==
    LET r == ReadNumber(x, SizeofInt)
        n == Min({r.v, Sz(x) - r.u.ind})
    IN  [u |-> [r.u EXCEPT !.ind = @ + n, !.ok = @ /\ n = r.v],
         v |-> [i \in 1..r.v |-> IF i <= n THEN x.buf[r.u.ind + i] ELSE 0]]

\* operator>> of a type.
ShiftOut(x, type) ==
    CASE type = "string" -> ReadString(x)
      [] type = "vector" -> ReadVector(x)
      [] OTHER -> ReadNumber(x, Width[type])

\* Faulty variant: the size of the PDU is skipped twice.
UnpackHeaderLate(x, n) ==
    LET Field(i) == [j \in 1..SizeofInt |->
                       LET k == (i + 1) * SizeofInt + j IN IF k <= Sz(x) THEN x.buf[k] ELSE 0]
    IN  [u |-> [x EXCEPT !.ind = RPC_HEADER_SZ, !.ok = @ /\ Sz(x) >= (n + 1) * SizeofInt],
         h |-> [i \in 1..n |-> Number(Field(i))]]

\* unpack_req_header and unpack_reply_header, of n fields.
UnpackHeader(x, n) ==
    LET Field(i) == [j \in 1..SizeofInt |->
                       LET k == i * SizeofInt + j IN IF k <= Sz(x) THEN x.buf[k] ELSE 0]
    IN  [u |-> [x EXCEPT !.ind = RPC_HEADER_SZ, !.ok = @ /\ Sz(x) >= (n + 1) * SizeofInt],
         h |-> [i \in 1..n |-> Number(Field(i))]]

\* Faulty variant: what is left over does not count.
OkDoneLoose(x) == x.ok

OkDone(x) == x.ok /\ x.ind = Sz(x)

TakeIn(x) == [x EXCEPT !.ind = RPC_HEADER_SZ, !.ok = Sz(x) >= RPC_HEADER_SZ]

-----------------------------------------------------------------------------
MarshallTypeOK ==
    /\ pc \in {"call", "dispatch", "handler", "ran", "aborted", "reply", "result", "returned",
              "refused", "fault"}
    /\ m.buf \in Seq(Cell) /\ m.ind \in Nat
    /\ u.buf \in Seq(Cell) /\ u.ind \in Nat /\ u.ok \in BOOLEAN /\ u.fault \in BOOLEAN
    /\ \A i \in DOMAIN sent : sent[i].type \in Type
    /\ \A i \in DOMAIN got : got[i].type \in Type
    /\ Len(sent) <= MaxArgs /\ Len(got) <= MaxArgs
    /\ hdr \in Seq(Uint) /\ seen \in Seq(Uint)

Init ==
    /\ pc = "call"
    /\ m = NewMarshall /\ u = NewUnmarshall(<<>>)
    /\ sent = <<>> /\ got = <<>> /\ hdr = <<>> /\ seen = <<>>

\* The templates rpcc::call: one argument more.
Shift(type, v) ==
    /\ pc = "call" /\ Len(sent) < MaxArgs
    /\ m' = ShiftIn(m, type, v)
    /\ sent' = Append(sent, [type |-> type, v |-> v])
    /\ UNCHANGED <<pc, u, got, hdr, seen>>

\* call1 packs the header and sends the request.
SendRequest(h) ==
    /\ pc = "call"
    /\ m' = PackHeader(m, h)
    /\ hdr' = h
    /\ u' = NewUnmarshall(Pdu(m'))
    /\ pc' = "dispatch"
    /\ UNCHANGED <<sent, got, seen>>

\* rpcs::dispatch unpacks the header; the handler is called if that worked.
Dispatch ==
    LET r == UnpackHeader(u, 5)
    IN  /\ pc = "dispatch"
        /\ u' = r.u /\ seen' = r.h
        /\ pc' = IF r.u.ok THEN "handler" ELSE "refused"
        /\ UNCHANGED <<m, sent, got, hdr>>

\* The handler shifts one argument more out, of the type it declares.
Unshift(type) ==
    LET r == ShiftOut(u, type)
    IN  /\ pc = "handler" /\ Len(got) < MaxArgs
        /\ u' = r.u
        /\ got' = Append(got, [type |-> type, v |-> r.v])
        /\ pc' = IF r.u.fault THEN "fault" ELSE pc
        /\ UNCHANGED <<m, sent, hdr, seen>>

\* It runs the method, or the server aborts on unmarshal_args_failure.
Run ==
    /\ pc = "handler" /\ got # <<>>
    /\ pc' = IF OkDone(u) THEN "ran" ELSE "refused"
    /\ UNCHANGED <<m, u, sent, got, hdr, seen>>

\* The result is marshalled and dispatch packs the header of the reply; the
\* server aborts if the method has returned a negative number.
SendReply(type, v, ret) ==
    /\ pc = "ran"
    /\ IF Negative(ret)
       THEN pc' = "aborted" /\ UNCHANGED <<m, u, sent, got, hdr, seen>>
       ELSE /\ hdr' = <<seen[1], ret>>
            /\ m' = PackHeader(ShiftIn(NewMarshall, type, v), hdr')
            /\ u' = NewUnmarshall(Pdu(m'))
            /\ sent' = <<[type |-> type, v |-> v]>>
            /\ got' = <<>> /\ seen' = <<>>
            /\ pc' = "reply"

\* dispatch turns the request down, before the handler looks at it: the reply
\* is a header.
SendFailure(ret) ==
    /\ pc = "handler" /\ got = <<>>
    /\ hdr' = <<seen[1], ret>>
    /\ m' = PackHeader(NewMarshall, hdr')
    /\ u' = NewUnmarshall(Pdu(m'))
    /\ sent' = <<>> /\ got' = <<>> /\ seen' = <<>>
    /\ pc' = "reply"

\* rpcc::got_pdu hands the reply to the caller.
GotReply ==
    LET r == UnpackHeader(u, 2)
    IN  /\ pc = "reply"
        /\ u' = TakeIn(r.u) /\ seen' = r.h
        /\ pc' = IF r.u.ok THEN "result" ELSE "refused"
        /\ UNCHANGED <<m, sent, got, hdr>>

\* Faulty variant: a failure is taken for a result.
CallMAlways(type) ==
    LET r == ShiftOut(u, type)
    IN  /\ pc = "result"
        /\ u' = r.u
        /\ got' = <<[type |-> type, v |-> r.v]>>
        /\ pc' = IF r.u.fault THEN "fault" ELSE IF OkDone(r.u) THEN "returned" ELSE "refused"
        /\ UNCHANGED <<m, sent, hdr, seen>>

\* call_m returns a failure as it is; else it shifts the result out, and aborts
\* if that does not work.
CallM(type) ==
    LET r == ShiftOut(u, type)
    IN  /\ pc = "result"
        /\ IF Negative(seen[2])
           THEN pc' = "returned" /\ UNCHANGED <<u, got>>
           ELSE /\ u' = r.u
                /\ got' = <<[type |-> type, v |-> r.v]>>
                /\ pc' = IF r.u.fault THEN "fault"
                         ELSE IF OkDone(r.u) THEN "returned" ELSE "refused"
        /\ UNCHANGED <<m, sent, hdr, seen>>

Next ==
    \/ \E type \in Type : \E v \in Values[type] : Shift(type, v)
    \/ \E h \in ReqHeader : SendRequest(h)
    \/ Dispatch
    \/ \E type \in Type : Unshift(type)
    \/ Run
    \/ \E type \in Type, ret \in Ret : \E v \in Values[type] : SendReply(type, v, ret)
    \/ \E ret \in {atmostonce_failure, oldsrv_failure} : SendFailure(ret)
    \/ GotReply
    \/ \E type \in Type : CallM(type)

Spec == Init /\ [][Next]_vars

-----------------------------------------------------------------------------
(***************************************************************************)
(* The growth rules of rawbyte and rawbytes: whatever is added in whatever *)
(* order, nothing is written past the end of the buffer.                   *)
(***************************************************************************)
NoOverrun == m.ind <= Capa(m)

\* The encoding of typed values, as the format defines it.
Code(x) == IF x.type \in {"string", "vector"}
           THEN BigEndian(Len(x.v), SizeofInt) \o x.v
           ELSE BigEndian(x.v, Width[x.type])
Encoding(xs) == FlattenSeq([i \in DOMAIN xs |-> Code(xs[i])])
Types(xs) == [i \in DOMAIN xs |-> xs[i].type]

(***************************************************************************)
(* A handler runs, and a call returns, only with the header the other side *)
(* packed (last, at the front of a buffer that may have moved) and with    *)
(* values that encode to the bytes of what it wrote, all of them; with the *)
(* same types they are the same values.  A call that returns a failure has *)
(* no result, and none was sent.                                           *)
(***************************************************************************)
ReadsWhatWasWritten ==
    pc \in {"ran", "returned"} =>
        /\ seen = hdr
        /\ Encoding(got) = Encoding(sent)
        /\ Types(got) = Types(sent) => got = sent

(***************************************************************************)
(* The assertions on unmarshal_args_failure and unmarshal_reply_failure    *)
(* (rpc.cc:597, rpc.h:154) fail only if the two sides disagree on the      *)
(* types.  A failure that dispatch reports to a caller is never taken for  *)
(* such a disagreement, although its reply has no result at all.           *)
(***************************************************************************)
RefusalIsMismatch ==
    /\ pc = "refused" => Types(got) # Types(sent)
    /\ pc = "refused" /\ Len(hdr) = 2 => ~Negative(hdr[2])
    /\ pc = "fault" => ~IsPrefix(Types(got), Types(sent))

(***************************************************************************)
(* unmarshall::rawbytes reads outside the buffer only if the unsigned sum  *)
(* in its test wraps around: a number taken for the length of a string.    *)
(***************************************************************************)
FaultIsWrap ==
    u.fault => LET n == Number(SubSeq(u.buf, u.ind - SizeofInt + 1, u.ind))
               IN  u.ind + n >= UintMod
=============================================================================
