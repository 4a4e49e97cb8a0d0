---------------------------- MODULE WireEnvelope ----------------------------
(***************************************************************************)
(* The binary envelope events travel in between gateways                   *)
(* (internal/distribution/redisbus/wire_envelope.go): fields preceded by   *)
(* little-endian lengths, then the trace context.  A byte is a digit to a  *)
(* small Radix, so that lengths take more than one.  The trace context is  *)
(* the sequence of its entries in the order in which the map was ranged.   *)
(* A behaviour marshals one envelope and loses its last bytes one by one.  *)
(***************************************************************************)
EXTENDS Integers, SequencesExt

CONSTANTS Radix, Envelopes

VARIABLES envelope, data

vars == <<envelope, data>>

-----------------------------------------------------------------------------
\* PutUint16, PutUint32, PutUint64: n in w bytes.
Put(n, w) == [i \in 1..w |-> (n \div Radix^(i - 1)) % Radix]

\* Uint16, Uint32, Uint64 of the w bytes after the offset.
Get(d, at, w) == FoldLeft(LAMBDA sum, i : sum + d[at + i] * Radix^(i - 1), 0,
                          [i \in 1..w |-> i])

Counted(s, w) == Put(Len(s), w) \o s

MarshalBinary(e) ==
    Counted(e.symbol, 2) \o Counted(e.type, 2) \o Put(e.seq, 8) \o Put(e.timestamp, 8)
    \o Counted(e.json, 4) \o Counted(e.protobuf, 4) \o Counted(e.flatBuffers, 4)
    \o Put(Len(e.trace), 2)
    \o FlattenSeq([i \in DOMAIN e.trace |->
                      Counted(e.trace[i][1], 2) \o Counted(e.trace[i][2], 2)])

-----------------------------------------------------------------------------
(* UnmarshalBinary threads a cursor: an offset, the fields read so far, and *)
(* ok while no length was out of bounds.                                    *)

Fail(c) == [c EXCEPT !.ok = FALSE]

\* A field with a length of w bytes.
Field(d, c, w) ==
    IF ~c.ok \/ Len(d) < c.at + w THEN Fail(c)
    ELSE LET n == Get(d, c.at, w)
         IN  IF Len(d) < c.at + w + n THEN Fail(c)
             ELSE [ok |-> TRUE, at |-> c.at + w + n,
                   read |-> Append(c.read, SubSeq(d, c.at + w + 1, c.at + w + n))]

\* Sequence number and timestamp, tested together.
Numbers(d, c) ==
    IF ~c.ok \/ Len(d) < c.at + 16 THEN Fail(c)
    ELSE [ok |-> TRUE, at |-> c.at + 16,
          read |-> c.read \o <<Get(d, c.at, 8), Get(d, c.at + 8, 8)>>]

\* The trace context: its size, then a key and a value per entry.
TraceCtx(d, c) ==
    IF ~c.ok \/ Len(d) < c.at + 2 THEN Fail(c)
    ELSE LET n == Get(d, c.at, 2)
         IN FoldLeft(LAMBDA cur, i : Field(d, Field(d, cur, 2), 2),
                     [c EXCEPT !.at = @ + 2], [i \in 1..n |-> i])

UnmarshalBinary(d) ==
    LET c1 == Field(d, [ok |-> TRUE, at |-> 0, read |-> <<>>], 2)
        c2 == Numbers(d, Field(d, c1, 2))
        c3 == Field(d, Field(d, Field(d, c2, 4), 4), 4)
        c4 == TraceCtx(d, c3)
        r == c4.read
    IN  IF ~c4.ok THEN [ok |-> FALSE]
        ELSE [ok |-> TRUE,
              env |-> [symbol |-> r[1], type |-> r[2], seq |-> r[3], timestamp |-> r[4],
                       json |-> r[5], protobuf |-> r[6], flatBuffers |-> r[7],
                       trace |-> [i \in 1..((Len(r) - 7) \div 2) |->
                                     <<r[6 + 2 * i], r[7 + 2 * i]>>]]]

-----------------------------------------------------------------------------
Init == envelope \in Envelopes /\ data = MarshalBinary(envelope)

Truncate == data # <<>> /\ data' = Front(data) /\ UNCHANGED envelope

Next == Truncate

Spec == Init /\ [][Next]_vars

-----------------------------------------------------------------------------
complete == Len(data) = Len(MarshalBinary(envelope))

\* What MarshalBinary writes, UnmarshalBinary reads back unchanged (for fields
\* shorter than their length can tell).
RoundTrip == complete => UnmarshalBinary(data) = [ok |-> TRUE, env |-> envelope]

\* An envelope that was cut short anywhere is an error, and no byte beyond the
\* end is read (UnmarshalBinary, handleMessage).
CutRejected == ~complete => ~UnmarshalBinary(data).ok
=============================================================================
