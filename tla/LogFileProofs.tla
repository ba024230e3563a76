--------------------------- MODULE LogFileProofs ---------------------------
(***************************************************************************)
(* Proofs about the binary log as a file, for every set of outputs, every  *)
(* width of integers and of the bitmap's bytes and every length of a run:  *)
(* a log that is offered is whole, and the CSV made of it shows what the   *)
(* FMU gave.                                                               *)
(*                                                                         *)
(* The inductive invariant says where in the file the record of a step is  *)
(* and what is in it (ImageInv), of a file that is being written without   *)
(* loss or is offered; that the rows of an export in progress are the      *)
(* steps so far (ConvInv); and what published CSVs and reports say.        *)
(***************************************************************************)
EXTENDS LogFile, SequenceTheorems, TLAPS

IsSeq(s) == \E S : s \in Seq(S)

\* The k-th step of a run that gave g: its record, what precedes it in the
\* file, and its row of the CSV.
Record(d, g, k) == RecordCells(d, k - 1, NormalizeLogSample(d, g[k]))
Before(d, k) == 1 + Len(d.types) + (k - 1) * RecordSize(d)
Row(d, g, k) ==
    [sequence |-> k - 1,
     columns |-> [o \in DOMAIN d.types |->
                    IF InRange(d.types[o], g[k][o])
                      THEN [value |-> g[k][o], valid |-> TRUE]
                      ELSE [value |-> Substitute(d.types[o]), valid |-> FALSE]]]

\* As far as the cells go, they are the records of the steps, in order; they
\* are all of them.
Image(d, cells, g) ==
    /\ IsSeq(cells) /\ IsSeq(g)
    /\ Len(cells) <= Before(d, Len(g) + 1)
    /\ \A k \in 1..Len(g) :
         /\ g[k] \in RawSamples(d)
         /\ \A j \in 1..RecordSize(d) :
              Before(d, k) + j <= Len(cells) => cells[Before(d, k) + j] = Record(d, g, k)[j]

Whole(d, cells, g) == Len(cells) = Before(d, Len(g) + 1)

BaseInv ==
    /\ loaded \in Descriptors /\ file.descriptor \in Descriptors
    /\ file = [descriptor |-> file.descriptor, cells |-> file.cells]
    /\ writer \in {"off", "header", "records", "broken"}
    /\ dropped \in BOOLEAN /\ offered \in BOOLEAN /\ cut \in BOOLEAN
    /\ writer # "off" => ~offered /\ ~cut /\ csv = NoCsv
    /\ conv # Idle => offered
    /\ writer \in {"header", "records"} => file.descriptor = loaded
    /\ writer = "header" => file.cells = <<>> /\ given = <<>> /\ ~dropped

ImageInv ==
    LET d == file.descriptor IN
    /\ writer = "records" /\ ~dropped =>
         Image(d, file.cells, given) /\ Whole(d, file.cells, given)
    /\ offered => Image(d, file.cells, given) /\ (~cut => Whole(d, file.cells, given))

\* Rows that show the first steps.
Shows(rows, d, g) ==
    /\ IsSeq(rows) /\ Len(rows) <= Len(g)
    /\ \A i \in 1..Len(rows) : rows[i] = Row(d, g, i)

ConvInv ==
    conv # Idle =>
        /\ conv = [at |-> "rows", pos |-> conv.pos, rows |-> conv.rows, missing |-> 0]
        /\ Shows(conv.rows, file.descriptor, given)
        /\ conv.pos = Before(file.descriptor, Len(conv.rows) + 1)
        /\ conv.pos <= Len(file.cells)

LogFileInv == /\ BaseInv /\ ImageInv /\ ConvInv
              /\ CsvIsFaithful /\ ContentNeverRefused

-----------------------------------------------------------------------------
(* Sequences, whatever they hold.                                            *)

\* One sequence after another.
LEMMA SeqConcat ==
  ASSUME NEW s, NEW t, IsSeq(s), IsSeq(t)
  PROVE  /\ IsSeq(s \o t) /\ Len(s) \in Nat /\ Len(t) \in Nat
         /\ Len(s \o t) = Len(s) + Len(t)
         /\ \A i \in 1..Len(s) : (s \o t)[i] = s[i]
         /\ \A i \in 1..Len(t) : (s \o t)[Len(s) + i] = t[i]
<1>1. PICK S : s \in Seq(S)
  BY DEF IsSeq
<1>2. PICK T : t \in Seq(T)
  BY DEF IsSeq
<1> DEFINE U == S \cup T
<1>3. s \in Seq(U) /\ t \in Seq(U)
  BY <1>1, <1>2, SeqMonotonic
<1> HIDE DEF U
<1>4. /\ s \o t \in Seq(U) /\ Len(s \o t) = Len(s) + Len(t)
      /\ \A i \in 1..(Len(s) + Len(t)) :
            (s \o t)[i] = IF i <= Len(s) THEN s[i] ELSE t[i - Len(s)]
  BY <1>3, ConcatProperties
<1>5. Len(s) \in Nat /\ Len(t) \in Nat
  BY <1>3
<1>6. ASSUME NEW i \in 1..Len(s) PROVE (s \o t)[i] = s[i]
  <2>1. i \in 1..(Len(s) + Len(t)) /\ i <= Len(s)
    BY <1>5
  <2> QED BY <1>4, <2>1
<1>7. ASSUME NEW i \in 1..Len(t) PROVE (s \o t)[Len(s) + i] = t[i]
  <2>1. /\ Len(s) + i \in 1..(Len(s) + Len(t)) /\ ~(Len(s) + i <= Len(s))
        /\ (Len(s) + i) - Len(s) = i
    BY <1>5
  <2> QED BY <1>4, <2>1
<1> QED BY <1>4, <1>5, <1>6, <1>7 DEF IsSeq

\* One element more.
LEMMA SeqAppend ==
  ASSUME NEW s, IsSeq(s), NEW e
  PROVE  /\ IsSeq(Append(s, e)) /\ Len(s) \in Nat /\ Len(Append(s, e)) = Len(s) + 1
         /\ \A i \in 1..Len(s) : Append(s, e)[i] = s[i]
         /\ Append(s, e)[Len(s) + 1] = e
<1>1. PICK S : s \in Seq(S)
  BY DEF IsSeq
<1> DEFINE U == S \cup {e}
<1>2. s \in Seq(U) /\ e \in U
  BY <1>1, SeqMonotonic
<1> HIDE DEF U
<1>3. /\ Append(s, e) \in Seq(U) /\ Len(Append(s, e)) = Len(s) + 1
      /\ \A i \in 1..Len(s) : Append(s, e)[i] = s[i]
      /\ Append(s, e)[Len(s) + 1] = e
  BY <1>2, AppendProperties
<1>4. Len(s) \in Nat
  BY <1>2
<1> QED BY <1>3, <1>4 DEF IsSeq

\* A beginning.
LEMMA SeqPrefix ==
  ASSUME NEW s, IsSeq(s), NEW k \in 0..Len(s)
  PROVE  /\ IsSeq(SubSeq(s, 1, k)) /\ Len(s) \in Nat /\ Len(SubSeq(s, 1, k)) = k
         /\ \A i \in 1..k : SubSeq(s, 1, k)[i] = s[i]
         /\ k = Len(s) => SubSeq(s, 1, k) = s
<1>1. PICK S : s \in Seq(S)
  BY DEF IsSeq
<1>2. Len(s) \in Nat /\ k \in Nat
  BY <1>1
<1>3. \A i \in 1..k : s[i] \in S
  BY <1>1, <1>2
<1>4. /\ SubSeq(s, 1, k) \in Seq(S) /\ Len(SubSeq(s, 1, k)) = (IF 1 <= k THEN k - 1 + 1 ELSE 0)
      /\ \A i \in 1..(k - 1 + 1) : SubSeq(s, 1, k)[i] = s[1 + i - 1]
  BY <1>2, <1>3, SubSeqProperties
<1>5. k - 1 + 1 = k /\ (1 <= k \/ k = 0) /\ \A i \in 1..k : 1 + i - 1 = i
  BY <1>2
<1>6. Len(SubSeq(s, 1, k)) = k /\ \A i \in 1..k : SubSeq(s, 1, k)[i] = s[i]
  BY <1>4, <1>5
<1>7. k = Len(s) => SubSeq(s, 1, k) = s
  BY <1>1, SubSeqFull
<1> QED BY <1>2, <1>4, <1>6, <1>7 DEF IsSeq

-----------------------------------------------------------------------------
(* One record.                                                               *)

\* The bitmap has one bit in use for every output.
LEMMA BitsAreOutputs ==
  ASSUME NEW d \in Descriptors
  PROVE  /\ Len(d.types) \in Nat /\ DOMAIN d.types = 1..Len(d.types)
         /\ BitsInUse(d) = 1..Len(d.types)
<1>0. d.types \in Seq(Types) /\ BitsPerByte \in Nat \ {0}
  BY LogFileAssumption
<1>1. Len(d.types) \in Nat /\ DOMAIN d.types = 1..Len(d.types)
  BY <1>0
<1> DEFINE L == Len(d.types)
           B == BitsPerByte
           q == L \div B
           r == L % B
<1>2. L \in Nat /\ B \in Nat \ {0}
  BY <1>0, <1>1
<1> HIDE DEF L, B
<1>3. q \in Nat /\ r \in 0..(B - 1) /\ L = B * q + r
  BY <1>2
<1>4. (q + 1) * B = B * q + B /\ (q - 1) * B = B * q - B /\ q * B = B * q /\ B * q \in Nat
  BY <1>2, <1>3
<1>5. CASE r = 0
  <2>1. (L + B - 1) \div B = q
    <3>1. L + B - 1 = B * q + (B - 1)
      BY <1>2, <1>3, <1>4, <1>5
    <3>2. \A x, y, z \in Int : y > 0 /\ 0 <= z /\ z < y => (y * x + z) \div y = x
      OBVIOUS
    <3>3. q \in Int /\ B \in Int /\ B - 1 \in Int /\ B > 0 /\ 0 <= B - 1 /\ B - 1 < B
      BY <1>2, <1>3
    <3> QED BY <3>1, <3>2, <3>3
  <2>2. ((L + B - 1) \div B - 1) * B + B = L
    BY <1>2, <1>3, <1>4, <1>5, <2>1
  <2> QED BY <1>1, <1>5, <2>2 DEF BitsInUse, QualityBytes, QualityMask, L, B
<1>6. CASE r # 0
  <2>1. (L + B - 1) \div B = q + 1
    <3>1. L + B - 1 = B * (q + 1) + (r - 1)
      BY <1>2, <1>3, <1>4, <1>6
    <3>2. \A x, y, z \in Int : y > 0 /\ 0 <= z /\ z < y => (y * x + z) \div y = x
      OBVIOUS
    <3>3. /\ q + 1 \in Int /\ B \in Int /\ r - 1 \in Int /\ B > 0 /\ 0 <= r - 1 /\ r - 1 < B
      BY <1>2, <1>3, <1>6
    <3> HIDE DEF r, q
    <3> QED BY ZenonT(60), <3>1, <3>2, <3>3
  <2>2. ((L + B - 1) \div B - 1) * B + r = L
    <3>1. (q + 1 - 1) = q
      BY <1>3
    <3> QED BY <1>3, <1>4, <2>1, <3>1
  <2> QED BY <1>1, <1>6, <2>2 DEF BitsInUse, QualityBytes, QualityMask, L, B
<1> QED BY <1>5, <1>6

\* What the sample holds of an output.
Normal(type, v) == IF InRange(type, v) THEN v ELSE Substitute(type)

\* DecodeI32 undoes the conversion to an unsigned number.
LEMMA IntegerRoundTrip ==
  ASSUME NEW v \in Int32Min..Int32Max
  PROVE  DecodeI32(v % (UInt32Max + 1)) = v
<1>0. Int32Max \in Nat
  BY LogFileAssumption
<1> DEFINE m == UInt32Max + 1
<1>1. m = 2 * Int32Max + 2 /\ m \in Nat \ {0} /\ v \in Int /\ v < m /\ -m < v
  BY <1>0 DEF UInt32Max, Int32Min
<1>2. CASE v >= 0
  <2>1. v % m = v
    BY <1>1, <1>2
  <2> QED BY <1>0, <1>2, <2>1 DEF DecodeI32
<1>3. CASE v < 0
  <2>1. v % m = v + m
    BY <1>1, <1>3
  <2> QED BY <1>0, <1>1, <1>3, <2>1 DEF DecodeI32, UInt32Max, Int32Min
<1> QED BY <1>1, <1>2, <1>3

\* A value survives the file: what is read back is what the sample held, the
\* reader finds it consistent with its mark, and the writer marks nothing that
\* NormalizeLogSample did not.
LEMMA ValueRoundTrip ==
  ASSUME NEW type \in Types, NEW v \in Raw(type), NEW cell,
         cell.v = EncodeValue(type, Normal(type, v), ~InRange(type, v))
  PROVE  /\ ReadValue(type, cell) = Normal(type, v)
         /\ Consistent(type, Normal(type, v), ~InRange(type, v))
         /\ ~InRange(type, Normal(type, v)) => ~InRange(type, v)
<1>0. Int32Max \in Nat
  BY LogFileAssumption
<1>1. CASE type = "Real"
  <2>1. (InRange(type, v) <=> v = Finite) /\ Substitute(type) = NaN
    BY <1>1 DEF InRange, Substitute
  <2>2. cell.v = Normal(type, v) /\ ReadValue(type, cell) = cell.v
    BY <1>1, <2>1 DEF EncodeValue, Normal, ReadValue
  <2>3. Consistent(type, Normal(type, v), ~InRange(type, v))
    BY <1>1, <2>1 DEF Consistent, Normal
  <2>4. ~InRange(type, Normal(type, v)) => ~InRange(type, v)
    BY <2>1 DEF Normal
  <2> QED BY <2>2, <2>3, <2>4
<1>2. CASE type = "Boolean"
  <2>1. /\ InRange(type, v) <=> v \in 0..1
        /\ Substitute(type) = 0 /\ v \in 0..2
    BY <1>2 DEF InRange, Substitute, Raw
  <2>2. cell.v = Normal(type, v) /\ ReadValue(type, cell) = cell.v
    BY <1>2, <2>1 DEF EncodeValue, Normal, ReadValue
  <2>3. Consistent(type, Normal(type, v), ~InRange(type, v))
    BY <1>2, <2>1 DEF Consistent, Normal
  <2>4. ~InRange(type, Normal(type, v)) => ~InRange(type, v)
    BY <2>1 DEF Normal
  <2> QED BY <2>2, <2>3, <2>4
<1>3. CASE type = "Integer"
  <2>1. /\ InRange(type, v) <=> v \in Int32Min..Int32Max
        /\ Substitute(type) = 0 /\ 0 \in Int32Min..Int32Max
    BY <1>0, <1>3 DEF InRange, Substitute, Int32Min
  <2>2. Normal(type, v) \in Int32Min..Int32Max
    BY <2>1 DEF Normal
  <2>3. ReadValue(type, cell) = Normal(type, v)
    <3>1. CASE InRange(type, v)
      <4>1. cell.v = v % (UInt32Max + 1) /\ Normal(type, v) = v
        BY <1>3, <3>1 DEF EncodeValue, Normal
      <4>2. ReadValue(type, cell) = DecodeI32(v % (UInt32Max + 1))
        BY <1>3, <4>1 DEF ReadValue
      <4> QED BY <2>1, <3>1, <4>1, <4>2, IntegerRoundTrip
    <3>2. CASE ~InRange(type, v)
      <4>1. cell.v = 0 /\ Normal(type, v) = 0
        BY <2>1, <3>2 DEF EncodeValue, Normal
      <4> QED BY <1>0, <1>3, <4>1 DEF ReadValue, DecodeI32
    <3> QED BY <3>1, <3>2
  <2>4. Consistent(type, Normal(type, v), ~InRange(type, v))
    BY <1>3, <2>1 DEF Consistent, Normal
  <2>5. ~InRange(type, Normal(type, v)) => ~InRange(type, v)
    BY DEF Normal
  <2> QED BY <2>3, <2>4, <2>5
<1> QED BY <1>1, <1>2, <1>3 DEF Types

\* The outputs whose value is out of range.
Bad(d, raw) == {i \in DOMAIN d.types : ~InRange(d.types[i], raw[i])}

\* The fields of a record.
LEMMA RecordFields ==
  ASSUME NEW d \in Descriptors, NEW raw \in RawSamples(d), NEW n
  PROVE  LET rec == RecordCells(d, n, NormalizeLogSample(d, raw)) IN
         /\ IsSeq(rec) /\ Len(rec) = RecordSize(d)
         /\ rec[1].v = n /\ rec[2].v = Bad(d, raw)
         /\ \A i \in 1..Len(d.types) :
              rec[2 + i].v = EncodeValue(d.types[i], Normal(d.types[i], raw[i]),
                                         ~InRange(d.types[i], raw[i]))
<1> DEFINE sample == NormalizeLogSample(d, raw)
           first == <<[field |-> "sequence", v |-> n],
                      [field |-> "quality", v |-> Marked(d, sample)]>>
           rest == [i \in DOMAIN d.types |->
                      [field |-> "value",
                       v |-> EncodeValue(d.types[i], sample.values[i],
                                         i \in Marked(d, sample))]]
           rec == RecordCells(d, n, sample)
<1>1. /\ Len(d.types) \in Nat /\ DOMAIN d.types = 1..Len(d.types)
      /\ BitsInUse(d) = 1..Len(d.types)
  BY BitsAreOutputs
<1>2. \A i \in DOMAIN d.types : d.types[i] \in Types /\ raw[i] \in Raw(d.types[i])
  <2>1. d.types \in Seq(Types)
    BY LogFileAssumption
  <2>2. \A i \in DOMAIN d.types : raw[i] \in Raw(d.types[i])
    BY DEF RawSamples
  <2> QED BY <1>1, <2>1, <2>2
<1>3. /\ sample.marks = Bad(d, raw)
      /\ \A i \in DOMAIN d.types : sample.values[i] = Normal(d.types[i], raw[i])
  <2>1. sample = [values |-> [i \in DOMAIN d.types |->
                                IF i \in Bad(d, raw) THEN Substitute(d.types[i]) ELSE raw[i]],
                  marks |-> Bad(d, raw)]
    BY DEF NormalizeLogSample, Bad
  <2> HIDE DEF sample
  <2>2. sample.marks = Bad(d, raw)
    BY <2>1
  <2>3. sample.values = [i \in DOMAIN d.types |->
                           IF i \in Bad(d, raw) THEN Substitute(d.types[i]) ELSE raw[i]]
    BY <2>1
  <2>4. ASSUME NEW i \in DOMAIN d.types
        PROVE  sample.values[i] = Normal(d.types[i], raw[i])
    BY <2>3 DEF Normal, Bad
  <2> QED BY <2>2, <2>4
<1> HIDE DEF sample
<1>4. Marked(d, sample) = Bad(d, raw)
  <2>1. Bad(d, raw) \subseteq BitsInUse(d)
    BY <1>1 DEF Bad
  <2>2. ASSUME NEW i \in DOMAIN d.types, ~InRange(d.types[i], sample.values[i])
        PROVE  i \in Bad(d, raw)
    <3>1. ~InRange(d.types[i], Normal(d.types[i], raw[i]))
      BY <1>3, <2>2
    <3>2. ~InRange(d.types[i], raw[i])
      <4> DEFINE cell == [v |-> EncodeValue(d.types[i], Normal(d.types[i], raw[i]),
                                            ~InRange(d.types[i], raw[i]))]
      <4>1. cell.v = EncodeValue(d.types[i], Normal(d.types[i], raw[i]),
                                 ~InRange(d.types[i], raw[i]))
        OBVIOUS
      <4> HIDE DEF cell
      <4> QED BY <1>2, <3>1, <4>1, ValueRoundTrip
    <3> QED BY <3>2 DEF Bad
  <2> QED BY <1>3, <2>1, <2>2 DEF Marked
<1>5. rec = first \o rest
  BY DEF RecordCells
<1>6. IsSeq(first) /\ Len(first) = 2
  <2>1. first \in Seq({first[1], first[2]}) /\ Len(first) = 2
    OBVIOUS
  <2> QED BY <2>1 DEF IsSeq
<1>7. first[1].v = n /\ first[2].v = Bad(d, raw)
  BY <1>4
<1>8. IsSeq(rest) /\ Len(rest) = Len(d.types)
  <2> DEFINE S == {rest[i] : i \in 1..Len(d.types)}
  <2>1. DOMAIN rest = 1..Len(d.types) /\ \A i \in 1..Len(d.types) : rest[i] \in S
    BY <1>1
  <2>2. rest = [i \in 1..Len(d.types) |-> rest[i]]
    BY <1>1
  <2> HIDE DEF S, rest
  <2>3. rest \in Seq(S) /\ Len(rest) = Len(d.types)
    BY <1>1, <2>1, <2>2
  <2> QED BY <2>3 DEF IsSeq
<1>9. \A i \in 1..Len(d.types) :
         rest[i].v = EncodeValue(d.types[i], Normal(d.types[i], raw[i]),
                                 ~InRange(d.types[i], raw[i]))
  <2> SUFFICES ASSUME NEW i \in 1..Len(d.types)
               PROVE  rest[i].v = EncodeValue(d.types[i], Normal(d.types[i], raw[i]),
                                              ~InRange(d.types[i], raw[i]))
    OBVIOUS
  <2>1. rest[i].v = EncodeValue(d.types[i], Normal(d.types[i], raw[i]), i \in Bad(d, raw))
    BY <1>1, <1>3, <1>4
  <2>2. i \in Bad(d, raw) <=> ~InRange(d.types[i], raw[i])
    BY <1>1 DEF Bad
  <2> HIDE DEF rest
  <2> QED BY <2>1, <2>2 DEF EncodeValue
<1> HIDE DEF first, rest, rec
<1>10. /\ IsSeq(rec) /\ Len(rec) = 2 + Len(d.types)
       /\ \A i \in 1..2 : rec[i] = first[i]
       /\ \A i \in 1..Len(d.types) : rec[2 + i] = rest[i]
  <2>1. /\ IsSeq(first \o rest) /\ Len(first \o rest) = Len(first) + Len(rest)
        /\ \A i \in 1..Len(first) : (first \o rest)[i] = first[i]
        /\ \A i \in 1..Len(rest) : (first \o rest)[Len(first) + i] = rest[i]
    <3>0. IsSeq(first) /\ IsSeq(rest)
      BY <1>6, <1>8
    <3>1. IsSeq(first \o rest)
      BY <3>0, SeqConcat
    <3>2. Len(first \o rest) = Len(first) + Len(rest)
      BY <3>0, SeqConcat
    <3>3. \A i \in 1..Len(first) : (first \o rest)[i] = first[i]
      BY <3>0, SeqConcat
    <3>4. \A i \in 1..Len(rest) : (first \o rest)[Len(first) + i] = rest[i]
      BY <3>0, SeqConcat
    <3> QED BY <3>1, <3>2, <3>3, <3>4
  <2> QED BY <1>5, <1>6, <1>8, <2>1
<1>11. rec[1] = first[1] /\ rec[2] = first[2]
  BY <1>10
<1> QED BY <1>7, <1>9, <1>10, <1>11 DEF RecordSize, rec, sample

\* A record that is in the file is read without complaint, and shown as the
\* values the FMU gave.
LEMMA RecordReads ==
  ASSUME NEW d \in Descriptors, NEW g, NEW k, g[k] \in RawSamples(d),
         NEW cells, IsSeq(cells), NEW pos \in Nat,
         pos + RecordSize(d) <= Len(cells),
         \A j \in 1..RecordSize(d) : cells[pos + j] = Record(d, g, k)[j]
  PROVE  /\ ReadRecord(d, cells, pos) = "ok"
         /\ CsvRow(d, cells, pos) = Row(d, g, k)
<1> DEFINE raw == g[k]
           n == k - 1
<1>0. /\ raw \in RawSamples(d)
      /\ \A j \in 1..RecordSize(d) :
           cells[pos + j] = RecordCells(d, n, NormalizeLogSample(d, raw))[j]
      /\ Row(d, g, k)
           = [sequence |-> n,
              columns |-> [o \in DOMAIN d.types |->
                 IF InRange(d.types[o], raw[o]) THEN [value |-> raw[o], valid |-> TRUE]
                 ELSE [value |-> Substitute(d.types[o]), valid |-> FALSE]]]
  BY DEF Record, Row
<1> HIDE DEF raw, n
<1>1. /\ Len(d.types) \in Nat /\ DOMAIN d.types = 1..Len(d.types)
      /\ BitsInUse(d) = 1..Len(d.types) /\ RecordSize(d) = 2 + Len(d.types)
      /\ Len(cells) \in Nat
  BY BitsAreOutputs DEF RecordSize, IsSeq
<1>2. \A i \in DOMAIN d.types : d.types[i] \in Types /\ raw[i] \in Raw(d.types[i])
  <2>1. d.types \in Seq(Types)
    BY LogFileAssumption
  <2>2. \A i \in DOMAIN d.types : raw[i] \in Raw(d.types[i])
    BY <1>0 DEF RawSamples
  <2> QED BY <1>1, <2>1, <2>2
<1>3. /\ cells[pos + 1].v = n /\ cells[pos + 2].v = Bad(d, raw)
      /\ \A i \in 1..Len(d.types) :
           cells[pos + 2 + i].v = EncodeValue(d.types[i], Normal(d.types[i], raw[i]),
                                              ~InRange(d.types[i], raw[i]))
  <2> DEFINE rec == RecordCells(d, n, NormalizeLogSample(d, raw))
  <2>1. /\ rec[1].v = n /\ rec[2].v = Bad(d, raw)
        /\ \A i \in 1..Len(d.types) :
             rec[2 + i].v = EncodeValue(d.types[i], Normal(d.types[i], raw[i]),
                                        ~InRange(d.types[i], raw[i]))
    BY <1>0, RecordFields
  <2>2. \A j \in 1..(2 + Len(d.types)) : cells[pos + j] = rec[j]
    BY <1>0, <1>1
  <2> HIDE DEF rec
  <2>3. 1 \in 1..(2 + Len(d.types)) /\ 2 \in 1..(2 + Len(d.types))
    BY <1>1
  <2>4. ASSUME NEW i \in 1..Len(d.types)
        PROVE  cells[pos + 2 + i] = rec[2 + i]
    <3>1. 2 + i \in 1..(2 + Len(d.types)) /\ pos + 2 + i = pos + (2 + i)
      BY <1>1
    <3> QED BY <2>2, <3>1
  <2> QED BY <2>1, <2>2, <2>3, <2>4
<1>4. \A i \in 1..Len(d.types) :
        /\ ReadValue(d.types[i], cells[pos + 2 + i]) = Normal(d.types[i], raw[i])
        /\ Consistent(d.types[i], Normal(d.types[i], raw[i]), ~InRange(d.types[i], raw[i]))
        /\ i \in Bad(d, raw) <=> ~InRange(d.types[i], raw[i])
  BY <1>1, <1>2, <1>3, ValueRoundTrip DEF Bad
<1>5. ReadBytes(cells, pos, RecordSize(d)) = "ok"
  <2>1. ~(Len(cells) <= pos) /\ ~(Len(cells) < pos + RecordSize(d))
    BY <1>1
  <2> QED BY <2>1 DEF ReadBytes
<1>6. ReadRecord(d, cells, pos) = "ok"
  <2>1. Bad(d, raw) \subseteq BitsInUse(d)
    BY <1>1 DEF Bad
  <2>2. ASSUME NEW i \in DOMAIN d.types
        PROVE  Consistent(d.types[i], ReadValue(d.types[i], cells[pos + 2 + i]),
                          i \in cells[pos + 2].v)
    <3>1. /\ Consistent(d.types[i], Normal(d.types[i], raw[i]), ~InRange(d.types[i], raw[i]))
          /\ i \in Bad(d, raw) <=> ~InRange(d.types[i], raw[i])
      BY <1>1, <1>4
    <3>2. Consistent(d.types[i], Normal(d.types[i], raw[i]), i \in Bad(d, raw))
      BY <1>2, <3>1 DEF Consistent, Types
    <3> QED BY <1>1, <1>3, <1>4, <3>2
  <2> QED BY <1>3, <1>5, <2>1, <2>2 DEF ReadRecord
<1> DEFINE shown == [i \in DOMAIN d.types |->
                       [value |-> IF i \in cells[pos + 2].v THEN Substitute(d.types[i])
                                  ELSE ReadValue(d.types[i], cells[pos + 2 + i]),
                        valid |-> i \notin cells[pos + 2].v]]
           expected == [o \in DOMAIN d.types |->
                          IF InRange(d.types[o], raw[o]) THEN [value |-> raw[o], valid |-> TRUE]
                          ELSE [value |-> Substitute(d.types[o]), valid |-> FALSE]]
<1>7. CsvRow(d, cells, pos) = [sequence |-> n, columns |-> shown]
  BY <1>3 DEF CsvRow
<1>8. shown = expected
  <2> SUFFICES ASSUME NEW i \in DOMAIN d.types
               PROVE  shown[i] = expected[i]
    OBVIOUS
  <2>1. i \in cells[pos + 2].v <=> ~InRange(d.types[i], raw[i])
    BY <1>1, <1>3, <1>4
  <2>2. ReadValue(d.types[i], cells[pos + 2 + i]) = Normal(d.types[i], raw[i])
    BY <1>1, <1>4
  <2>3. CASE InRange(d.types[i], raw[i])
    BY <2>1, <2>2, <2>3 DEF Normal
  <2>4. CASE ~InRange(d.types[i], raw[i])
    BY <2>1, <2>4
  <2> QED BY <2>3, <2>4
<1> QED BY <1>0, <1>6, <1>7, <1>8

-----------------------------------------------------------------------------
(* The file.                                                                 *)

\* Where the records are.
LEMMA Places ==
  ASSUME NEW d \in Descriptors
  PROVE  /\ RecordSize(d) \in Nat \ {0} /\ Len(HeaderCells(d)) = Before(d, 1)
         /\ \A n \in Nat : /\ Before(d, n + 1) \in Nat
                           /\ Before(d, n + 1) = Before(d, 1) + n * RecordSize(d)
                           /\ Before(d, n + 2) = Before(d, n + 1) + RecordSize(d)
         /\ \A a, b \in Nat : a < b => Before(d, a + 1) + RecordSize(d) <= Before(d, b + 1)
<1>1. Len(d.types) \in Nat
  BY BitsAreOutputs
<1> DEFINE r == RecordSize(d)
           h == 1 + Len(d.types)
<1>2. r \in Nat \ {0} /\ h \in Nat
  BY <1>1 DEF RecordSize
<1>3. Len(HeaderCells(d)) = h
  BY <1>1 DEF HeaderCells
<1> HIDE DEF h, r
<1>4. ASSUME NEW k \in Int PROVE Before(d, k) = h + (k - 1) * r
  BY DEF Before, h, r
<1>5. Before(d, 1) = h
  <2>1. (1 - 1) * r = 0
    BY <1>2
  <2> QED BY <1>2, <1>4, <2>1
<1>6. ASSUME NEW n \in Nat
      PROVE  /\ Before(d, n + 1) \in Nat /\ Before(d, n + 1) = h + n * r
             /\ Before(d, n + 2) = Before(d, n + 1) + r
  <2>1. n * r \in Nat /\ (n + 1) * r = n * r + r
    BY <1>2
  <2>2. Before(d, n + 1) = h + n * r
    <3>1. (n + 1) - 1 = n /\ n + 1 \in Int
      OBVIOUS
    <3> QED BY <1>4, <3>1
  <2>3. Before(d, n + 2) = h + (n + 1) * r
    <3>1. (n + 2) - 1 = n + 1 /\ n + 2 \in Int
      OBVIOUS
    <3> QED BY <1>4, <3>1
  <2> HIDE DEF Before
  <2> QED BY <1>2, <2>1, <2>2, <2>3
<1>7. ASSUME NEW a \in Nat, NEW b \in Nat, a < b
      PROVE  Before(d, a + 1) + r <= Before(d, b + 1)
  <2> DEFINE c == b - a - 1
  <2>1. c \in Nat /\ b = a + 1 + c
    BY <1>7
  <2> HIDE DEF c
  <2>2. c * r \in Nat /\ a * r \in Nat /\ (a + 1 + c) * r = a * r + r + c * r
    BY <1>2, <2>1
  <2>3. b * r = a * r + r + c * r
    BY <2>1, <2>2
  <2>4. Before(d, a + 1) = h + a * r /\ Before(d, b + 1) = h + b * r
    BY <1>6
  <2> QED BY <1>2, <2>2, <2>3, <2>4
<1> QED BY <1>2, <1>3, <1>5, <1>6, <1>7 DEF r, h

\* Updating the cells of a file.
LEMMA FileUpdate ==
  ASSUME BaseInv, NEW c
  PROVE  LET f == [file EXCEPT !.cells = c] IN
         /\ f.descriptor = file.descriptor /\ f.cells = c
         /\ f = [descriptor |-> f.descriptor, cells |-> f.cells]
<1> DEFINE D == file.descriptor
           C == file.cells
<1>1. file = [descriptor |-> D, cells |-> C]
  BY DEF BaseInv
<1> HIDE DEF D, C
<1>2. [file EXCEPT !.cells = c] = [descriptor |-> D, cells |-> c]
  BY <1>1
<1> QED BY <1>1, <1>2

\* A beginning of an image is one.
LEMMA ImagePrefix ==
  ASSUME NEW d \in Descriptors, NEW cells, NEW g, Image(d, cells, g),
         NEW k \in 0..Len(cells)
  PROVE  Image(d, SubSeq(cells, 1, k), g)
<1> DEFINE c == SubSeq(cells, 1, k)
<1>1. IsSeq(cells) /\ Len(cells) \in Nat /\ Len(g) \in Nat
  BY DEF Image, IsSeq
<1>2. IsSeq(c) /\ Len(c) = k /\ \A i \in 1..k : c[i] = cells[i]
  BY <1>1, SeqPrefix
<1> HIDE DEF c
<1>3. Before(d, Len(g) + 1) \in Nat /\ RecordSize(d) \in Nat
  BY <1>1, Places
<1>4. Len(c) <= Before(d, Len(g) + 1)
  BY <1>1, <1>2, <1>3 DEF Image
<1>5. ASSUME NEW m \in 1..Len(g), NEW j \in 1..RecordSize(d), Before(d, m) + j <= Len(c)
      PROVE  c[Before(d, m) + j] = Record(d, g, m)[j]
  <2>1. Before(d, m) \in Nat
    <3>1. m - 1 \in Nat /\ (m - 1) + 1 = m
      BY <1>1
    <3> QED BY <3>1, Places
  <2>2. Before(d, m) + j \in 1..k /\ Before(d, m) + j <= Len(cells)
    BY <1>1, <1>2, <1>3, <1>5, <2>1
  <2>3. cells[Before(d, m) + j] = Record(d, g, m)[j]
    BY <2>2 DEF Image
  <2> QED BY <1>2, <2>2, <2>3
<1> QED BY <1>2, <1>4, <1>5 DEF Image, c

\* A run without steps: only the header.
LEMMA ImageOfHeader ==
  ASSUME NEW d \in Descriptors
  PROVE  /\ IsSeq(HeaderCells(d)) /\ Image(d, HeaderCells(d), <<>>)
         /\ Whole(d, HeaderCells(d), <<>>)
<1>1. Len(d.types) \in Nat
  BY BitsAreOutputs
<1> DEFINE c == HeaderCells(d)
           S == {[field |-> "header"]}
<1>2. c \in Seq(S)
  BY <1>1 DEF HeaderCells
<1>3. IsSeq(c)
  BY <1>2 DEF IsSeq
<1>4. Len(c) = Before(d, 1) /\ Before(d, 0 + 1) \in Nat
  BY Places
<1>5. <<>> \in Seq(S) /\ Len(<<>>) = 0
  OBVIOUS
<1>6. IsSeq(<<>>)
  BY <1>5 DEF IsSeq
<1> HIDE DEF c
<1> QED BY <1>3, <1>4, <1>5, <1>6 DEF Image, Whole, c

\* LogFormatWriteRecord after a whole image: the image of one step more.
LEMMA ImageGrows ==
  ASSUME NEW d \in Descriptors, NEW cells, NEW g, NEW raw \in RawSamples(d),
         Image(d, cells, g), Whole(d, cells, g)
  PROVE  LET rec == RecordCells(d, Len(g), NormalizeLogSample(d, raw))
         IN  /\ IsSeq(rec)
             /\ Image(d, cells \o rec, Append(g, raw))
             /\ Whole(d, cells \o rec, Append(g, raw))
<1> DEFINE n == Len(g)
           rec == RecordCells(d, n, NormalizeLogSample(d, raw))
           c == cells \o rec
           h == Append(g, raw)
           r == RecordSize(d)
<1>1. IsSeq(cells) /\ IsSeq(g) /\ n \in Nat /\ Len(cells) = Before(d, n + 1)
  BY DEF Image, Whole, IsSeq
<1>2. IsSeq(rec) /\ Len(rec) = r
  BY RecordFields
<1>3. /\ IsSeq(h) /\ Len(h) = n + 1 /\ h[n + 1] = raw
      /\ \A i \in 1..n : h[i] = g[i]
  BY <1>1, SeqAppend
<1>4. \A m : Record(d, h, m) = RecordCells(d, m - 1, NormalizeLogSample(d, h[m]))
  BY DEF Record
<1>5. \A m : Record(d, g, m) = RecordCells(d, m - 1, NormalizeLogSample(d, g[m]))
  BY DEF Record
<1>6. Record(d, h, n + 1) = rec
  <2>1. (n + 1) - 1 = n
    BY <1>1
  <2> QED BY <1>3, <1>4, <2>1
<1>7. \A m \in 1..n : Record(d, h, m) = Record(d, g, m)
  BY <1>3, <1>4, <1>5
<1> HIDE DEF rec, h
<1>8. /\ IsSeq(c) /\ Len(c) = Len(cells) + r
      /\ \A i \in 1..Len(cells) : c[i] = cells[i]
  BY <1>1, <1>2, SeqConcat
<1>9. \A i \in 1..r : c[Len(cells) + i] = rec[i]
  BY <1>1, <1>2, SeqConcat
<1> HIDE DEF c
<1>10. /\ r \in Nat \ {0} /\ Before(d, n + 1) \in Nat
       /\ Before(d, n + 2) = Before(d, n + 1) + r
  BY <1>1, Places
<1>11. Len(c) = Before(d, Len(h) + 1)
  <2>1. Len(h) + 1 = n + 2
    BY <1>1, <1>3
  <2> QED BY <1>1, <1>8, <1>10, <2>1
<1>12. ASSUME NEW m \in 1..(n + 1)
       PROVE  /\ h[m] \in RawSamples(d)
              /\ \A j \in 1..r : Before(d, m) + j <= Len(c)
                     => c[Before(d, m) + j] = Record(d, h, m)[j]
  <2>1. CASE m = n + 1
    BY <1>1, <1>3, <1>6, <1>9, <2>1
  <2>2. CASE m \in 1..n
    <3>1. h[m] = g[m] /\ g[m] \in RawSamples(d)
      BY <1>3, <2>2 DEF Image
    <3>2. ASSUME NEW j \in 1..r
          PROVE  c[Before(d, m) + j] = Record(d, h, m)[j]
      <4> DEFINE a == m - 1
      <4>1. a \in Nat /\ a + 1 = m /\ a < n
        BY <1>1, <2>2
      <4> HIDE DEF a
      <4>2. Before(d, m) \in Nat /\ Before(d, m) + r <= Before(d, n + 1)
        BY <1>1, <4>1, Places
      <4>3. Before(d, m) + j \in 1..Len(cells) /\ Before(d, m) + j <= Len(cells)
        BY <1>1, <1>10, <4>2
      <4>4. cells[Before(d, m) + j] = Record(d, g, m)[j]
        BY <2>2, <4>3 DEF Image
      <4> QED BY <1>7, <1>8, <2>2, <4>3, <4>4
    <3> QED BY <3>1, <3>2
  <2>3. m = n + 1 \/ m \in 1..n
    BY <1>1
  <2> QED BY <2>1, <2>2, <2>3
<1>13. Len(c) <= Before(d, Len(h) + 1)
  BY <1>1, <1>8, <1>10, <1>11
<1>14. Image(d, c, h)
  BY <1>3, <1>8, <1>12, <1>13 DEF Image
<1> QED BY <1>2, <1>11, <1>14 DEF Whole, c, h, rec

-----------------------------------------------------------------------------
(* The steps.                                                                *)

\* The fields in turn: if none fails, all of them are at the end of the file.
LEMMA PutWhole ==
  ASSUME BaseInv, NEW c, IsSeq(c), Put(c)
  PROVE  /\ file'.descriptor = file.descriptor
         /\ file' = [descriptor |-> file'.descriptor, cells |-> file'.cells]
         /\ writer' \in {"records", "broken"}
         /\ writer' = "records" => file'.cells = file.cells \o c
<1>1. PICK k \in 0..Len(c) :
         /\ file' = [file EXCEPT !.cells = file.cells \o SubSeq(c, 1, k)]
         /\ writer' = IF k = Len(c) THEN "records" ELSE "broken"
  BY DEF Put
<1> DEFINE e == file.cells \o SubSeq(c, 1, k)
<1>2. k = Len(c) => e = file.cells \o c
  BY SeqPrefix
<1>3. file' = [file EXCEPT !.cells = e]
  BY <1>1
<1> HIDE DEF e
<1>4. /\ file'.descriptor = file.descriptor /\ file'.cells = e
      /\ file' = [descriptor |-> file'.descriptor, cells |-> file'.cells]
  BY <1>3, FileUpdate
<1> QED BY <1>1, <1>2, <1>4

\* A row of the CSV as the property states it.
LEMMA ExpectedIsRow ==
  ASSUME NEW d, NEW i
  PROVE  Expected(d, i) = Row(d, given, i)
BY DEF Expected, Row

\* The threads' places, the descriptors and the flags stay consistent.
LEMMA BaseStep ==
  ASSUME BaseInv, Next
  PROVE  BaseInv'
<1>1. CASE ChangeDescriptor
  BY <1>1 DEF BaseInv, ChangeDescriptor, Quiet
<1>2. CASE StartRun
  <2>1. /\ conv = Idle /\ conv' = conv /\ loaded' = loaded /\ dropped' = FALSE
        /\ offered' = FALSE /\ csv' = NoCsv /\ given' = <<>> /\ cut' = FALSE
    BY <1>2 DEF StartRun, Quiet
  <2>2. CASE writer' = "header" /\ file' = [descriptor |-> loaded, cells |-> <<>>]
    <3>1. /\ file'.descriptor = loaded /\ file'.cells = <<>>
          /\ file' = [descriptor |-> file'.descriptor, cells |-> file'.cells]
      BY <2>2
    <3> QED BY <2>1, <2>2, <3>1 DEF BaseInv
  <2>3. CASE writer' = "broken" /\ UNCHANGED file
    BY <2>1, <2>3 DEF BaseInv
  <2> QED BY <1>2, <2>2, <2>3 DEF StartRun
<1>3. CASE WriteHeader
  <2> DEFINE d == file.descriptor
  <2>1. IsSeq(HeaderCells(d))
    BY ImageOfHeader DEF BaseInv
  <2>2. writer = "header" /\ Put(HeaderCells(d))
        /\ UNCHANGED <<loaded, dropped, offered, conv, report, csv, given, cut, inputError>>
    BY <1>3 DEF WriteHeader
  <2>3. /\ file'.descriptor = file.descriptor
        /\ file' = [descriptor |-> file'.descriptor, cells |-> file'.cells]
        /\ writer' \in {"records", "broken"}
    BY <2>1, <2>2, PutWhole
  <2> QED BY <2>2, <2>3 DEF BaseInv
<1>4. CASE Sample
  <2>1. /\ writer \in {"records", "broken"}
        /\ UNCHANGED <<loaded, offered, conv, report, csv, cut, inputError>>
    BY <1>4 DEF Sample
  <2>2. CASE UNCHANGED <<file, writer>> /\ dropped' \in BOOLEAN
    BY <2>1, <2>2 DEF BaseInv
  <2>3. CASE /\ writer = "records" /\ UNCHANGED dropped
             /\ \E raw \in RawSamples(loaded) :
                   Put(RecordCells(loaded, Len(given), NormalizeLogSample(loaded, raw)))
    <3>1. PICK raw \in RawSamples(loaded) :
             Put(RecordCells(loaded, Len(given), NormalizeLogSample(loaded, raw)))
      BY <2>3
    <3> DEFINE rec == RecordCells(loaded, Len(given), NormalizeLogSample(loaded, raw))
    <3>2. IsSeq(rec)
      BY RecordFields DEF BaseInv
    <3>3. Put(rec)
      BY <3>1
    <3> HIDE DEF rec
    <3>4. /\ file'.descriptor = file.descriptor
          /\ file' = [descriptor |-> file'.descriptor, cells |-> file'.cells]
          /\ writer' \in {"records", "broken"}
      BY <3>2, <3>3, PutWhole
    <3> QED BY <2>1, <2>3, <3>4 DEF BaseInv
  <2> QED BY <1>4, <2>2, <2>3 DEF Sample, BaseInv
<1>5. CASE FinishRun
  <2>1. /\ writer \in {"records", "broken"} /\ writer' = "off"
        /\ UNCHANGED <<loaded, dropped, conv, report, csv, given, cut, inputError>>
    BY <1>5 DEF FinishRun
  <2>2. offered' \in BOOLEAN
    BY <1>5 DEF FinishRun, Offered, BaseInv
  <2>3. /\ file'.descriptor = file.descriptor
        /\ file' = [descriptor |-> file'.descriptor, cells |-> file'.cells]
    <3>1. CASE UNCHANGED file
      BY <3>1 DEF BaseInv
    <3>2. CASE \E k \in 0..Len(file.cells) :
                  file' = [file EXCEPT !.cells = SubSeq(file.cells, 1, k)]
      BY <3>2, FileUpdate
    <3> QED BY <1>5, <3>1, <3>2 DEF FinishRun
  <2>4. conv = Idle
    BY <2>1 DEF BaseInv
  <2> QED BY <2>1, <2>2, <2>3, <2>4 DEF BaseInv
<1>6. CASE AbortRun
  BY <1>6 DEF BaseInv, AbortRun
<1>7. CASE Crash
  BY <1>7 DEF BaseInv, Crash
<1>8. CASE CutTail
  <2>1. /\ file'.descriptor = file.descriptor
        /\ file' = [descriptor |-> file'.descriptor, cells |-> file'.cells]
    BY <1>8, FileUpdate DEF CutTail
  <2> QED BY <1>8, <2>1 DEF CutTail, Quiet, BaseInv
<1>9. CASE ExportBegin
  <2>1. /\ writer = "off" /\ offered = TRUE
        /\ UNCHANGED <<loaded, file, writer, dropped, offered, given, cut>>
    BY <1>9 DEF ExportBegin, Quiet, BaseInv
  <2> QED BY <2>1 DEF BaseInv
<1>10. CASE ExportRow
  <2>1. conv # Idle
    BY <1>10 DEF ExportRow, Idle
  <2>2. writer = "off" /\ offered = TRUE
    BY <2>1 DEF BaseInv
  <2> QED BY <1>10, <2>2 DEF ExportRow, BaseInv
<1>11. CASE ExportPublish
  <2>1. conv # Idle
    BY <1>11 DEF ExportPublish, Idle
  <2>2. writer = "off" /\ offered = TRUE
    BY <2>1 DEF BaseInv
  <2> QED BY <1>11, <2>2 DEF ExportPublish, BaseInv
<1> QED BY <1>1, <1>2, <1>3, <1>4, <1>5, <1>6, <1>7, <1>8, <1>9, <1>10, <1>11 DEF Next

\* The records stay where they are and what they are.
LEMMA ImageStep ==
  ASSUME BaseInv, ImageInv, Next
  PROVE  ImageInv'
<1> DEFINE d == file.descriptor
<1>0. d \in Descriptors
  BY DEF BaseInv
<1>1. CASE /\ UNCHANGED <<file, dropped, given, cut>>
           /\ offered' => offered
           /\ writer' = "records" => writer = "records"
  BY <1>1 DEF ImageInv
<1>2. CASE ChangeDescriptor
  <2>1. offered' = offered \/ offered' = FALSE
    BY <1>2 DEF ChangeDescriptor
  <2> QED BY <1>2, <2>1 DEF ChangeDescriptor, ImageInv
<1>3. CASE StartRun
  BY <1>3 DEF StartRun, ImageInv
<1>4. CASE WriteHeader
  <2>1. /\ writer = "header" /\ Put(HeaderCells(d))
        /\ UNCHANGED <<loaded, dropped, offered, conv, report, csv, given, cut, inputError>>
    BY <1>4 DEF WriteHeader
  <2>2. ~offered /\ file.cells = <<>> /\ given = <<>>
    BY <2>1 DEF BaseInv
  <2>3. /\ IsSeq(HeaderCells(d)) /\ Image(d, HeaderCells(d), <<>>)
        /\ Whole(d, HeaderCells(d), <<>>)
    BY <1>0, ImageOfHeader
  <2>4. /\ file'.descriptor = d
        /\ writer' = "records" => file'.cells = file.cells \o HeaderCells(d)
    BY <2>1, <2>3, PutWhole
  <2>5. <<>> \o HeaderCells(d) = HeaderCells(d)
    BY <2>3 DEF IsSeq
  <2> QED BY <2>1, <2>2, <2>3, <2>4, <2>5 DEF ImageInv
<1>5. CASE Sample
  <2>1. /\ writer \in {"records", "broken"}
        /\ UNCHANGED <<loaded, offered, conv, report, csv, cut, inputError>>
    BY <1>5 DEF Sample
  <2>2. ~offered
    BY <2>1 DEF BaseInv
  <2>3. CASE dropped' = TRUE
    BY <2>1, <2>2, <2>3 DEF ImageInv
  <2>4. CASE writer = "broken" /\ writer' = writer
    BY <2>1, <2>2, <2>4 DEF ImageInv
  <2>5. CASE /\ writer = "records" /\ UNCHANGED dropped
             /\ \E raw \in RawSamples(loaded) :
                   /\ given' = Append(given, raw)
                   /\ Put(RecordCells(loaded, Len(given), NormalizeLogSample(loaded, raw)))
    <3>1. PICK raw \in RawSamples(loaded) :
             /\ given' = Append(given, raw)
             /\ Put(RecordCells(loaded, Len(given), NormalizeLogSample(loaded, raw)))
      BY <2>5
    <3>2. d = loaded
      BY <2>5 DEF BaseInv
    <3> DEFINE rec == RecordCells(d, Len(given), NormalizeLogSample(d, raw))
    <3>3. IsSeq(rec)
      BY <1>0, <3>2, RecordFields
    <3>4. Put(rec)
      BY <3>1, <3>2
    <3>5. ~dropped => /\ Image(d, file.cells \o rec, Append(given, raw))
                      /\ Whole(d, file.cells \o rec, Append(given, raw))
      BY <1>0, <2>5, <3>2, ImageGrows DEF ImageInv
    <3> HIDE DEF rec
    <3>6. file'.descriptor = d /\ (writer' = "records" => file'.cells = file.cells \o rec)
      BY <3>3, <3>4, PutWhole
    <3> QED BY <2>1, <2>2, <2>5, <3>1, <3>5, <3>6 DEF ImageInv
  <2> QED BY <1>5, <2>3, <2>4, <2>5 DEF Sample
<1>6. CASE FinishRun
  <2>1. /\ writer' = "off"
        /\ UNCHANGED <<loaded, dropped, conv, report, csv, given, cut, inputError>>
    BY <1>6 DEF FinishRun
  <2>2. CASE offered'
    <3>1. writer = "records" /\ ~dropped /\ file' = file
      BY <1>6, <2>2 DEF FinishRun, Offered
    <3> QED BY <2>1, <3>1 DEF ImageInv
  <2>3. CASE ~offered'
    BY <2>1, <2>3 DEF ImageInv
  <2> QED BY <2>2, <2>3
<1>7. CASE AbortRun
  BY <1>1, <1>7 DEF AbortRun
<1>8. CASE Crash
  BY <1>1, <1>8 DEF Crash
<1>9. CASE CutTail
  <2>1. /\ offered /\ writer = "off" /\ cut' = TRUE
        /\ UNCHANGED <<loaded, writer, dropped, offered, conv, report, csv, given, inputError>>
    BY <1>9 DEF CutTail, Quiet
  <2>2. Image(d, file.cells, given)
    BY <2>1 DEF ImageInv
  <2>3. PICK k \in 0..(Len(file.cells) - 1) :
           file' = [file EXCEPT !.cells = SubSeq(file.cells, 1, k)]
    BY <1>9 DEF CutTail
  <2>4. file'.descriptor = d /\ file'.cells = SubSeq(file.cells, 1, k)
    BY <2>3, FileUpdate
  <2>5. k \in 0..Len(file.cells)
    <3>1. Len(file.cells) \in Nat
      BY <2>2 DEF Image, IsSeq
    <3> QED BY <3>1
  <2>6. Image(d, SubSeq(file.cells, 1, k), given)
    BY <1>0, <2>2, <2>5, ImagePrefix
  <2> QED BY <2>1, <2>4, <2>6 DEF ImageInv
<1>10. CASE ExportBegin
  BY <1>1, <1>10 DEF ExportBegin
<1>11. CASE ExportRow
  BY <1>1, <1>11 DEF ExportRow
<1>12. CASE ExportPublish
  BY <1>1, <1>12 DEF ExportPublish
<1> QED BY <1>2, <1>3, <1>4, <1>5, <1>6, <1>7, <1>8, <1>9, <1>10, <1>11, <1>12 DEF Next

\* One read of the converter: while there is a whole record it is the next
\* step's and no gap precedes it; the end of the file comes after the last
\* step or after a cut, and an end inside a record only after a cut.
LEMMA NextRead ==
  ASSUME BaseInv, ImageInv, ConvInv, conv # Idle
  PROVE  LET d == file.descriptor
             n == Len(conv.rows)
         IN  /\ ReadStatus \in {"ok", "inconsistent"}
                  => /\ n < Len(given) /\ conv.pos + RecordSize(d) <= Len(file.cells)
                     /\ ReadStatus = "ok" /\ NextRow = Row(d, given, n + 1) /\ Gap = 0
             /\ ReadStatus = "end" /\ ~cut => n = Len(given)
             /\ ReadStatus = "end" => Len(file.cells) = conv.pos
             /\ ReadStatus = "truncated"
                  => /\ cut /\ n < Len(given)
                     /\ Len(file.cells) > conv.pos
                     /\ Len(file.cells) < conv.pos + RecordSize(d)
<1> DEFINE d == file.descriptor
           n == Len(conv.rows)
           m == Len(given)
           r == RecordSize(d)
           L == Len(file.cells)
           bytes == ReadBytes(file.cells, conv.pos, r)
<1>1. d \in Descriptors /\ offered /\ cut \in BOOLEAN
  BY DEF BaseInv
<1>2. Image(d, file.cells, given) /\ (~cut => Whole(d, file.cells, given))
  BY <1>1 DEF ImageInv
<1>3. /\ IsSeq(conv.rows) /\ n <= m
      /\ \A i \in 1..n : conv.rows[i] = Row(d, given, i)
      /\ conv.pos = Before(d, n + 1) /\ conv.pos <= L
  BY DEF ConvInv, Shows
<1>4. n \in Nat /\ m \in Nat /\ L \in Nat /\ IsSeq(file.cells)
  BY <1>2, <1>3 DEF Image, IsSeq
<1>5. /\ r \in Nat \ {0} /\ conv.pos \in Nat /\ Before(d, m + 1) \in Nat
      /\ n < m => conv.pos + r <= Before(d, m + 1)
  BY <1>1, <1>3, <1>4, Places
<1>6. L <= Before(d, m + 1) /\ (~cut => L = Before(d, m + 1))
  BY <1>2 DEF Image, Whole
<1>7. n = m \/ n < m
  BY <1>3, <1>4
<1>8. /\ bytes \in {"end", "truncated", "ok"}
      /\ bytes = "end" <=> L <= conv.pos
      /\ bytes = "ok" <=> conv.pos + r <= L
  <2>1. CASE L <= conv.pos
    <3>1. bytes = "end" /\ ~(conv.pos + r <= L)
      BY <1>4, <1>5, <2>1 DEF ReadBytes
    <3> QED BY <2>1, <3>1
  <2>2. CASE L > conv.pos /\ L < conv.pos + r
    <3>1. bytes = "truncated" /\ ~(conv.pos + r <= L) /\ ~(L <= conv.pos)
      BY <1>4, <1>5, <2>2 DEF ReadBytes
    <3> QED BY <3>1
  <2>3. CASE L > conv.pos /\ conv.pos + r <= L
    <3>1. bytes = "ok" /\ ~(L <= conv.pos)
      BY <1>4, <1>5, <2>3 DEF ReadBytes
    <3> QED BY <2>3, <3>1
  <2> QED BY <1>4, <1>5, <2>1, <2>2, <2>3
<1>9. /\ ReadStatus \in {bytes, "inconsistent"}
      /\ bytes # "ok" => ReadStatus = bytes
  <2> HIDE DEF bytes
  <2>1. ReadBytes(file.cells, conv.pos, RecordSize(file.descriptor)) = bytes
    BY DEF bytes
  <2> QED BY <2>1 DEF ReadStatus, ReadRecord
<1> HIDE DEF d, n, m, r, L, bytes
<1>10. ASSUME ReadStatus \in {"ok", "inconsistent"}
       PROVE  /\ n < m /\ conv.pos + r <= L /\ ReadStatus = "ok"
              /\ NextRow = Row(d, given, n + 1) /\ Gap = 0
  <2>1. bytes = "ok"
    BY <1>8, <1>9, <1>10
  <2>2. conv.pos + r <= L
    BY <1>8, <2>1
  <2>3. n < m
    BY <1>3, <1>4, <1>5, <1>6, <1>7, <2>2
  <2>4. n + 1 \in 1..m
    BY <1>4, <2>3
  <2>5. given[n + 1] \in RawSamples(d)
    BY <1>2, <2>4 DEF Image, m
  <2>6. ASSUME NEW j \in 1..r
        PROVE  file.cells[conv.pos + j] = Record(d, given, n + 1)[j]
    <3>1. Before(d, n + 1) + j <= L
      BY <1>3, <1>4, <1>5, <2>2
    <3> QED BY <1>2, <1>3, <2>4, <3>1 DEF Image, m, r, L
  <2>7. /\ ReadRecord(d, file.cells, conv.pos) = "ok"
        /\ CsvRow(d, file.cells, conv.pos) = Row(d, given, n + 1)
    BY ZenonT(60), <1>1, <1>4, <1>5, <2>2, <2>5, <2>6, RecordReads DEF r, L
  <2>8. ReadStatus = "ok" /\ NextRow = Row(d, given, n + 1)
    BY <2>7 DEF ReadStatus, NextRow, d
  <2>9. Gap = 0
    <3>1. CASE conv.rows = <<>>
      BY <3>1 DEF Gap
    <3>2. CASE conv.rows # <<>>
      <4>1. n \in 1..n
        <5>1. PICK S : conv.rows \in Seq(S)
          BY <1>3 DEF IsSeq
        <5> QED BY <3>2, <5>1, EmptySeq DEF n
      <4>2. Last(conv.rows) = conv.rows[n]
        BY DEF Last, n
      <4>3. Last(conv.rows).sequence = n - 1
        <5>1. Last(conv.rows) = Row(d, given, n)
          BY <1>3, <4>1, <4>2
        <5> QED BY <5>1 DEF Row
      <4>4. NextRow.sequence = (n + 1) - 1
        BY <2>8 DEF Row
      <4>5. Gap = ((n + 1) - 1) - (n - 1) - 1
        BY <3>2, <4>3, <4>4 DEF Gap
      <4> QED BY <1>4, <4>5
    <3> QED BY <3>1, <3>2
  <2> QED BY <2>2, <2>3, <2>8, <2>9
<1>11. ASSUME ReadStatus = "end", ~cut
       PROVE  n = m
  <2>1. L <= conv.pos
    BY <1>8, <1>9, <1>11
  <2> QED BY <1>4, <1>5, <1>6, <1>7, <1>11, <2>1
<1>13. ASSUME ReadStatus = "end"
       PROVE  L = conv.pos
  <2>1. L <= conv.pos
    BY <1>8, <1>9, <1>13
  <2> QED BY <1>3, <1>4, <1>5, <2>1
<1>12. ASSUME ReadStatus = "truncated"
       PROVE  cut /\ n < m /\ L > conv.pos /\ L < conv.pos + r
  <2>1. ~(L <= conv.pos) /\ ~(conv.pos + r <= L)
    BY <1>8, <1>9, <1>12
  <2>2. n < m
    <3>1. CASE n = m
      <4>1. L <= conv.pos
        BY <1>3, <1>6, <3>1
      <4> QED BY <2>1, <4>1
    <3> QED BY <1>7, <3>1
  <2>3. CASE ~cut
    BY <1>4, <1>5, <1>6, <2>1, <2>2, <2>3
  <2>4. L > conv.pos /\ L < conv.pos + r
    BY <1>4, <1>5, <2>1
  <2> QED BY <2>2, <2>3, <2>4
<1> QED BY <1>10, <1>11, <1>12, <1>13 DEF d, n, m, r, L

\* The rows of an export in progress are the first steps of the run.
LEMMA ConvStep ==
  ASSUME BaseInv, ImageInv, ConvInv, Next
  PROVE  ConvInv'
<1> DEFINE d == file.descriptor
<1>0. d \in Descriptors
  BY DEF BaseInv
<1>1. CASE UNCHANGED <<file, conv, given>>
  BY <1>1 DEF ConvInv
<1>2. CASE conv' = Idle
  BY <1>2 DEF ConvInv
<1>3. CASE ChangeDescriptor
  BY <1>1, <1>3 DEF ChangeDescriptor
<1>4. CASE StartRun
  BY <1>2, <1>4 DEF StartRun, Quiet
<1>5. writer # "off" => conv = Idle
  BY DEF BaseInv
<1>6. CASE WriteHeader
  BY <1>2, <1>5, <1>6 DEF WriteHeader
<1>7. CASE Sample
  BY <1>2, <1>5, <1>7 DEF Sample
<1>8. CASE FinishRun
  BY <1>2, <1>5, <1>8 DEF FinishRun
<1>9. CASE AbortRun
  BY <1>2, <1>5, <1>9 DEF AbortRun
<1>10. CASE Crash
  BY <1>2, <1>10 DEF Crash
<1>11. CASE CutTail
  BY <1>2, <1>11 DEF CutTail, Quiet
<1>12. CASE ExportBegin
  <2>1. UNCHANGED <<file, given>> /\ offered
    BY <1>12 DEF ExportBegin
  <2> DEFINE p == Len(HeaderCells(d))
  <2>2. CASE /\ HeaderReadable
             /\ conv' = [Idle EXCEPT !.at = "rows", !.pos = p]
    <3>1. p = Before(d, 1) /\ p <= Len(file.cells)
      BY <1>0, <2>2, Places DEF HeaderReadable
    <3> HIDE DEF p
    <3>2. conv' = [at |-> "rows", pos |-> p, rows |-> <<>>, missing |-> 0]
      BY <2>2 DEF Idle
    <3>3. /\ conv'.pos = p /\ conv'.rows = <<>> /\ Len(<<>>) = 0
          /\ conv' = [at |-> "rows", pos |-> conv'.pos, rows |-> conv'.rows, missing |-> 0]
      BY <3>2
    <3>4. Shows(<<>>, d, given)
      <4>1. Len(given) \in Nat
        BY <2>1 DEF ImageInv, Image, IsSeq
      <4>2. <<>> \in Seq({}) /\ Len(<<>>) = 0
        OBVIOUS
      <4>3. IsSeq(<<>>)
        BY <4>2 DEF IsSeq
      <4> QED BY <4>1, <4>2, <4>3 DEF Shows
    <3>5. conv'.pos = Before(d, Len(conv'.rows) + 1)
      BY <3>1, <3>3
    <3> QED BY <2>1, <3>1, <3>3, <3>4, <3>5 DEF ConvInv
  <2> QED BY <1>2, <1>12, <2>2 DEF ExportBegin, End
<1>13. CASE ExportRow
  <2>1. conv # Idle /\ ReadStatus \in {"ok", "inconsistent"} /\ UNCHANGED <<file, given>>
    BY <1>13 DEF ExportRow, Idle
  <2> DEFINE n == Len(conv.rows)
             r == RecordSize(d)
  <2>2. /\ n < Len(given) /\ conv.pos + r <= Len(file.cells)
        /\ NextRow = Row(d, given, n + 1) /\ Gap = 0
    BY <2>1, NextRead
  <2>3. CASE conv' = [conv EXCEPT !.pos = @ + RecordSize(file.descriptor),
                                  !.rows = Append(@, NextRow), !.missing = @ + Gap]
    <3> DEFINE P == conv.pos
               R == conv.rows
    <3>1. conv = [at |-> "rows", pos |-> P, rows |-> R, missing |-> 0]
      BY <2>1 DEF ConvInv
    <3>2. /\ IsSeq(R) /\ n = Len(R) /\ P = Before(d, n + 1)
          /\ \A i \in 1..n : R[i] = Row(d, given, i)
      BY <2>1 DEF ConvInv, Shows
    <3>3. n \in Nat /\ Len(given) \in Nat
      <4>1. offered
        BY <2>1 DEF BaseInv
      <4> QED BY <3>2, <4>1 DEF ImageInv, Image, IsSeq
    <3> DEFINE Q == Append(R, NextRow)
    <3>4. /\ IsSeq(Q) /\ Len(Q) = n + 1 /\ Q[n + 1] = NextRow
          /\ \A i \in 1..n : Q[i] = R[i]
      BY <3>2, SeqAppend
    <3>5. conv' = [conv EXCEPT !.pos = P + r, !.rows = Q, !.missing = conv.missing + Gap]
      BY <2>3
    <3>6. P + r = Before(d, n + 2) /\ P + r <= Len(file.cells) /\ n + 1 <= Len(given)
      <4>1. Before(d, n + 2) = Before(d, n + 1) + r
        BY <1>0, <3>3, Places
      <4>2. P + r = Before(d, n + 2)
        BY <3>2, <4>1
      <4>3. P + r <= Len(file.cells) /\ n < Len(given)
        BY <2>2
      <4> HIDE DEF P, R, r, n
      <4>4. n + 1 <= Len(given)
        BY <3>3, <4>3
      <4> QED BY <4>2, <4>3, <4>4
    <3>7. ASSUME NEW i \in 1..(n + 1) PROVE Q[i] = Row(d, given, i)
      <4>1. i \in 1..n \/ i = n + 1
        BY <3>3
      <4> QED BY <2>2, <3>2, <3>4, <4>1
    <3>8. conv.missing + Gap = 0
      BY <2>2, <3>1
    <3> HIDE DEF P, Q, R, r, n
    <3>9. conv' = [at |-> "rows", pos |-> P + r, rows |-> Q, missing |-> 0]
      BY <3>1, <3>5, <3>8
    <3>10. /\ conv'.pos = P + r /\ conv'.rows = Q
           /\ conv' = [at |-> "rows", pos |-> conv'.pos, rows |-> conv'.rows, missing |-> 0]
      BY <3>9
    <3>11. Shows(Q, d, given)
      BY <3>4, <3>6, <3>7 DEF Shows
    <3>12. conv'.pos = Before(d, Len(conv'.rows) + 1)
      <4>1. (n + 1) + 1 = n + 2
        BY <3>3
      <4> QED BY <3>4, <3>6, <3>10, <4>1
    <3> QED BY <2>1, <3>6, <3>10, <3>11, <3>12 DEF ConvInv
  <2> QED BY <1>2, <1>13, <2>3 DEF ExportRow, End, InputFails
<1>14. CASE ExportPublish
  BY <1>2, <1>14 DEF ExportPublish, End, InputFails
<1> QED BY <1>3, <1>4, <1>6, <1>7, <1>8, <1>9, <1>10, <1>11, <1>12, <1>13, <1>14 DEF Next

\* What a conversion publishes and reports.
LEMMA ReportStep ==
  ASSUME BaseInv, ImageInv, ConvInv, CsvIsFaithful, ContentNeverRefused, Next
  PROVE  CsvIsFaithful' /\ ContentNeverRefused'
<1> DEFINE d == file.descriptor
<1>1. ASSUME UNCHANGED <<file, csv, given, cut>> PROVE CsvIsFaithful'
  BY <1>1 DEF CsvIsFaithful, Expected
<1>2. ASSUME csv' = NoCsv PROVE CsvIsFaithful'
  BY <1>2 DEF CsvIsFaithful, NoCsv
<1>3. writer # "off" => csv = NoCsv
  BY DEF BaseInv
<1>4. CASE ChangeDescriptor
  BY <1>1, <1>4 DEF ChangeDescriptor, ContentNeverRefused
<1>5. CASE StartRun
  BY <1>2, <1>5 DEF StartRun, ContentNeverRefused
<1>6. CASE WriteHeader
  BY <1>2, <1>3, <1>6 DEF WriteHeader, ContentNeverRefused
<1>7. CASE Sample
  BY <1>2, <1>3, <1>7 DEF Sample, ContentNeverRefused
<1>8. CASE FinishRun
  BY <1>2, <1>3, <1>8 DEF FinishRun, ContentNeverRefused
<1>9. CASE AbortRun
  BY <1>2, <1>3, <1>9 DEF AbortRun, ContentNeverRefused
<1>10. CASE Crash
  BY <1>1, <1>10 DEF Crash, ContentNeverRefused
<1>11. CASE CutTail
  <2>1. file'.descriptor = d
    BY <1>11, FileUpdate DEF CutTail
  <2>2. UNCHANGED <<csv, given, report>> /\ cut' = TRUE
    BY <1>11 DEF CutTail
  <2>3. inputError' = inputError
    BY <1>11 DEF CutTail
  <2>4. CsvIsFaithful'
    BY <2>1, <2>2 DEF CsvIsFaithful, Expected
  <2> QED BY <2>2, <2>3, <2>4 DEF ContentNeverRefused
<1>12. CASE ExportBegin
  <2>1. UNCHANGED <<file, csv, given, cut>> /\ offered
    BY <1>12 DEF ExportBegin, End
  <2>2. HeaderReadable \/ cut
    <3> SUFFICES ASSUME ~cut PROVE HeaderReadable
      OBVIOUS
    <3>1. d \in Descriptors /\ Image(d, file.cells, given) /\ Whole(d, file.cells, given)
      BY <2>1 DEF BaseInv, ImageInv
    <3>2. Len(given) \in Nat
      BY <3>1 DEF Image, IsSeq
    <3>3. /\ Len(HeaderCells(d)) = Before(d, 1) /\ Before(d, 1) \in Nat
          /\ RecordSize(d) \in Nat
          /\ Before(d, Len(given) + 1) = Before(d, 1) + Len(given) * RecordSize(d)
      BY <3>1, <3>2, Places
    <3>4. Len(given) * RecordSize(d) \in Nat
      BY <3>2, <3>3
    <3>5. Len(file.cells) >= Len(HeaderCells(d))
      BY <3>1, <3>3, <3>4 DEF Whole
    <3> QED BY <3>5 DEF HeaderReadable
  <2>3. /\ report' # "structural"
        /\ report' = "header" => inputError' \/ cut
    BY <1>12, <2>2 DEF ExportBegin, End
  <2> QED BY <1>1, <2>1, <2>3 DEF ContentNeverRefused
<1>13. CASE ExportRow
  <2>1. conv # Idle /\ ReadStatus \in {"ok", "inconsistent"} /\ UNCHANGED <<file, given, cut>>
    BY <1>13 DEF ExportRow, Idle
  <2>2. ReadStatus = "ok" /\ Gap = 0
    BY <2>1, NextRead
  <2>3. ~(ReadStatus = "inconsistent" \/ Gap < 0)
    BY <2>2
  <2>4. UNCHANGED csv
    BY <1>13, <2>3 DEF ExportRow, End, InputFails
  <2>5. ContentNeverRefused'
    <3>1. CASE InputFails
      BY <3>1 DEF InputFails, End, ContentNeverRefused
    <3>2. CASE End("failed") /\ UNCHANGED inputError
      BY <3>2 DEF End, ContentNeverRefused
    <3>3. CASE UNCHANGED <<report, inputError>>
      BY <2>1, <3>3 DEF ContentNeverRefused
    <3> QED BY <1>13, <2>3, <3>1, <3>2, <3>3 DEF ExportRow
  <2> QED BY <1>1, <2>1, <2>4, <2>5
<1>14. CASE ExportPublish
  <2>1. /\ conv # Idle /\ ReadStatus \in {"end", "truncated"}
        /\ UNCHANGED <<file, given, cut>>
    BY <1>14 DEF ExportPublish, Idle
  <2> DEFINE status == IF ReadStatus = "end" THEN "ok" ELSE "partial"
  <2>2. ContentNeverRefused'
    <3>1. CASE InputFails
      BY <3>1 DEF InputFails, End, ContentNeverRefused
    <3>2. CASE report' \in {"failed", "ok", "partial"}
      BY <3>2 DEF ContentNeverRefused
    <3> QED BY <1>14, <3>1, <3>2 DEF ExportPublish, End
  <2>3. CASE UNCHANGED csv
    BY <1>1, <2>1, <2>2, <2>3
  <2>4. CASE csv' = [status |-> status, rows |-> conv.rows, missing |-> conv.missing,
                     end |-> Len(file.cells)]
    <3>1. /\ csv'.status = status /\ csv'.rows = conv.rows /\ csv'.missing = conv.missing
          /\ csv'.end = Len(file.cells)
      BY <2>4
    <3>2. conv = [at |-> "rows", pos |-> conv.pos, rows |-> conv.rows, missing |-> 0]
      BY <2>1 DEF ConvInv
    <3>3. conv.missing = 0
      BY <3>2
    <3> DEFINE n == Len(conv.rows)
    <3>4. /\ n <= Len(given) /\ \A i \in 1..n : conv.rows[i] = Row(d, given, i)
      BY <2>1 DEF ConvInv, Shows
    <3>5. \A i \in 1..n : conv.rows[i] = Expected(d, i)
      BY <3>4, ExpectedIsRow
    <3>6. /\ ReadStatus = "end" /\ ~cut => n = Len(given)
          /\ ReadStatus = "end" => Len(file.cells) = conv.pos
          /\ ReadStatus = "truncated" =>
               /\ cut /\ n < Len(given)
               /\ Len(file.cells) > conv.pos
               /\ Len(file.cells) < conv.pos + RecordSize(d)
      BY <2>1, NextRead
    <3>7. n \in Nat /\ Len(given) \in Nat /\ cut \in BOOLEAN
      <4>1. offered
        BY <2>1 DEF BaseInv
      <4> QED BY <2>1, <4>1 DEF ConvInv, Shows, ImageInv, Image, IsSeq, BaseInv
    <3>8. (n < Len(given) => cut) /\ (status = "partial" => cut /\ n < Len(given))
      BY <2>1, <3>6, <3>7
    <3>9. \A i : Expected(d, i)' = Expected(d, i)
      BY <2>1 DEF Expected
    <3>10. conv.pos = Len(HeaderCells(d)) + n * RecordSize(d)
      <4>1. d \in Descriptors
        BY DEF BaseInv
      <4>2. conv.pos = Before(d, n + 1)
        BY <2>1 DEF ConvInv
      <4> HIDE DEF n, d
      <4> QED BY <3>7, <4>1, <4>2, Places
    <3> DEFINE rowsEnd == Len(HeaderCells(d)) + n * RecordSize(d)
    <3>11. /\ status = "ok" => csv'.end = rowsEnd
           /\ status = "partial" => csv'.end > rowsEnd /\ csv'.end < rowsEnd + RecordSize(d)
      BY <2>1, <3>1, <3>6, <3>10
    <3> QED BY <2>1, <2>2, <3>1, <3>3, <3>4, <3>5, <3>8, <3>9, <3>11 DEF CsvIsFaithful
  <2> QED BY <1>14, <2>3, <2>4 DEF ExportPublish, End, InputFails
<1> QED BY <1>4, <1>5, <1>6, <1>7, <1>8, <1>9, <1>10, <1>11, <1>12, <1>13, <1>14 DEF Next

-----------------------------------------------------------------------------
(* The theorems.                                                             *)

\* LogFileInv always holds: while a run logs without loss the file is the
\* header and one record per step, each where LogFormatWriteRecord put it, and
\* the converter's loop has read the records of the first steps.
THEOREM LogFileInvariant == Spec => []LogFileInv
<1>1. Init => LogFileInv
  <2> SUFFICES ASSUME Init PROVE LogFileInv
    OBVIOUS
  <2>1. /\ file = [descriptor |-> loaded, cells |-> <<>>] /\ loaded \in Descriptors
        /\ writer = "off" /\ dropped = FALSE /\ offered = FALSE /\ cut = FALSE
        /\ conv = Idle /\ report = "none" /\ csv = NoCsv
    BY DEF Init
  <2>2. file.descriptor = loaded /\ file = [descriptor |-> file.descriptor, cells |-> file.cells]
    BY <2>1
  <2>3. BaseInv
    BY <2>1, <2>2 DEF BaseInv
  <2>4. ImageInv /\ ConvInv
    BY <2>1 DEF ImageInv, ConvInv
  <2>5. CsvIsFaithful /\ ContentNeverRefused
    BY <2>1 DEF CsvIsFaithful, ContentNeverRefused, NoCsv
  <2> QED BY <2>3, <2>4, <2>5 DEF LogFileInv
<1>2. LogFileInv /\ [Next]_vars => LogFileInv'
  <2> SUFFICES ASSUME LogFileInv, [Next]_vars PROVE LogFileInv'
    OBVIOUS
  <2>1. CASE Next
    BY <2>1, BaseStep, ImageStep, ConvStep, ReportStep DEF LogFileInv
  <2>2. CASE UNCHANGED vars
    BY <2>2 DEF vars, LogFileInv, BaseInv, ImageInv, ConvInv, CsvIsFaithful, Expected,
                ContentNeverRefused
  <2> QED BY <2>1, <2>2
<1> QED BY <1>1, <1>2, PTL DEF Spec

\* A log that is offered for export holds a record of every step, whatever
\* writes, flushes or closes failed and however many samples the ring lost
\* (RunLoggingFinish, ExecutionSessionHasClosedBinaryLog).
THEOREM LogFileOfferedIsWhole == Spec => []OfferedIsWhole
<1>1. LogFileInv => OfferedIsWhole
  <2> SUFFICES ASSUME LogFileInv, offered, ~cut
               PROVE  Len(file.cells) = Len(HeaderCells(file.descriptor))
                                          + Len(given) * RecordSize(file.descriptor)
    BY DEF OfferedIsWhole
  <2> DEFINE d == file.descriptor
  <2>1. /\ d \in Descriptors /\ Image(d, file.cells, given)
        /\ Len(file.cells) = Before(d, Len(given) + 1)
    BY DEF LogFileInv, BaseInv, ImageInv, Whole
  <2>2. Len(given) \in Nat
    BY <2>1 DEF Image, IsSeq
  <2> HIDE DEF d
  <2>3. /\ Len(HeaderCells(d)) = Before(d, 1)
        /\ Before(d, Len(given) + 1) = Before(d, 1) + Len(given) * RecordSize(d)
    BY <2>1, <2>2, Places
  <2> QED BY <2>1, <2>3 DEF d
<1> QED BY <1>1, LogFileInvariant, PTL

\* The CSV that LogConverterConvert publishes shows the run from its first
\* step on, and exactly the values out of range as invalid, for every set of
\* outputs and every width of integers and of the bitmap's bytes.
THEOREM LogFileCsvIsFaithful == Spec => []CsvIsFaithful
<1>1. LogFileInv => CsvIsFaithful
  BY DEF LogFileInv
<1> QED BY <1>1, LogFileInvariant, PTL

\* LogFormatReadRecord and the test of the sequence accept every record that
\* LogFormatWriteRecord writes, and LogFormatReadHeader every header that was not
\* cut: LOG_CONVERTER_STATUS_STRUCTURAL and _HEADER come of fread and fclose.
THEOREM LogFileContentNeverRefused == Spec => []ContentNeverRefused
<1>1. LogFileInv => ContentNeverRefused
  BY DEF LogFileInv
<1> QED BY <1>1, LogFileInvariant, PTL
=============================================================================
