----------------------- MODULE DiagnosticWriterProofs -----------------------
(* Proofs about DiagnosticWriter, for any diagnostics, texts of any length *)
(* and writes of any size.  What is buffered and what is still to be       *)
(* written are together the lines of what the page has yet to get.         *)
EXTENDS DiagnosticWriter, SequenceTheorems, TLAPS

\* What the page has yet to get, and the bytes on their way to it.
Owed   == SubSeq(emitted, Len(diags) + 1, Len(emitted))
Stream == pending \o rest

LineLen == Parts + 1
At(m, p) == LineLen * (m - 1) + p

\* The bytes s are the lines of the diagnostics ds, one after the other.
LinesOf(s, ds) ==
  /\ Len(s) = LineLen * Len(ds)
  /\ \A m \in 1..Len(ds), p \in 1..LineLen : s[At(m, p)] = Line(ds[m])[p]

Prefix == Len(diags) <= Len(emitted) /\ \A i \in DOMAIN diags : diags[i] = emitted[i]

WriterInv ==
  /\ WriterTypeOK
  /\ Prefix
  /\ IF alive THEN LinesOf(Stream, Owed) ELSE rest = <<>> /\ pending = <<>>

----------------------------------------------------------------------------
(* Lines                                                                   *)

\* Products of natural numbers, as much of them as positions in a stream need.
LEMMA Products ==
  ASSUME NEW a \in Nat, NEW b \in Nat
  PROVE  /\ a * b \in Nat
         /\ a * (b + 1) = a * b + a
         /\ \A c \in Nat : b <= c => a * b <= a * c
<1>1. a * b \in Nat /\ a * (b + 1) = a * b + a
  OBVIOUS
<1>2. ASSUME NEW c \in Nat, b <= c PROVE a * b <= a * c
  <2>1. PICK k \in Nat : c = b + k
    BY <1>2
  <2>2. a * c = a * b + a * k /\ a * k \in Nat
    BY <2>1
  <2> QED BY <2>2, <1>1
<1> QED BY <1>1, <1>2

\* A line is the text of its diagnostic and then the newline, which no text has
\* in it, and a text tells its diagnostic.
LEMMA LineShape ==
  ASSUME NEW d \in Diagnostics
  PROVE  /\ Text(d) \in Seq(Bytes) /\ Len(Text(d)) = Parts
         /\ Line(d) \in Seq(Bytes) /\ Len(Line(d)) = LineLen
         /\ Line(d)[LineLen] = Newline
         /\ \A p \in 1..Parts : Line(d)[p] = Text(d)[p] /\ Line(d)[p] # Newline
         /\ \A e \in Diagnostics : Text(d) = Text(e) => d = e
<1>1. Parts \in Nat \ {0}
  BY WriterAssumption
<1>2. \A p \in 1..Parts : [of |-> d, part |-> p] \in Bytes
  BY DEF Bytes
<1>3. Text(d) \in Seq(Bytes) /\ Len(Text(d)) = Parts
  <2> DEFINE byte(p) == [of |-> d, part |-> p]
  <2>1. \A p \in 1..Parts : byte(p) \in Bytes
    BY <1>2
  <2> HIDE DEF byte
  <2>2. [p \in 1..Parts |-> byte(p)] \in Seq(Bytes)
    BY <1>1, <2>1, IsASeq
  <2>3. Text(d) = [p \in 1..Parts |-> byte(p)]
    BY DEF Text, byte
  <2>4. DOMAIN Text(d) = 1..Parts
    BY DEF Text
  <2> QED BY <2>2, <2>3, <2>4, <1>1, LenProperties
<1>4. Newline \in Bytes
  BY DEF Bytes
<1>5. \A p \in 1..Parts : Text(d)[p] = [of |-> d, part |-> p] /\ Text(d)[p] # Newline
  BY <1>1 DEF Text, Newline
<1>6. \A e \in Diagnostics : Text(d) = Text(e) => d = e
  <2> SUFFICES ASSUME NEW e \in Diagnostics, Text(d) = Text(e) PROVE d = e
    OBVIOUS
  <2>1. Text(d)[1].of = d /\ Text(e)[1].of = e
    BY <1>1 DEF Text
  <2> QED BY <2>1
<1>7. /\ Line(d) \in Seq(Bytes) /\ Len(Line(d)) = Parts + 1
      /\ \A p \in 1..Parts : Line(d)[p] = Text(d)[p]
      /\ Line(d)[Parts + 1] = Newline
  BY <1>3, <1>4, AppendProperties DEF Line
<1> QED BY <1>3, <1>5, <1>6, <1>7 DEF LineLen

\* No bytes, no diagnostics, and the other way round.
LEMMA LinesOfNothing ==
  /\ LinesOf(<<>>, <<>>)
  /\ \A s \in Seq(Bytes), ds \in Seq(Diagnostics) : LinesOf(s, ds) => (s = <<>> <=> ds = <<>>)
<1>1. LineLen \in Nat \ {0}
  BY WriterAssumption DEF LineLen
<1>2. LinesOf(<<>>, <<>>)
  BY <1>1 DEF LinesOf
<1>3. ASSUME NEW s \in Seq(Bytes), NEW ds \in Seq(Diagnostics), LinesOf(s, ds)
      PROVE  s = <<>> <=> ds = <<>>
  <2>1. Len(s) = LineLen * Len(ds) /\ Len(ds) \in Nat
    BY <1>3 DEF LinesOf
  <2>2. Len(ds) # 0 => LineLen * Len(ds) >= LineLen
    <3>1. SUFFICES ASSUME Len(ds) # 0 PROVE LineLen * Len(ds) >= LineLen
      OBVIOUS
    <3>2. LineLen * 1 <= LineLen * Len(ds)
      BY <1>1, <2>1, <3>1, Products
    <3> QED BY <1>1, <3>2
  <2>3. Len(s) = 0 <=> Len(ds) = 0
    BY <1>1, <2>1, <2>2
  <2> QED BY <2>3, EmptySeq
<1> QED BY <1>2, <1>3

\* A diagnostic more, a line more.
LEMMA LinesOfAppend ==
  ASSUME NEW s \in Seq(Bytes), NEW ds \in Seq(Diagnostics), NEW d \in Diagnostics,
         LinesOf(s, ds)
  PROVE  LinesOf(s \o Line(d), Append(ds, d))
<1> DEFINE n == Len(ds)
           t == s \o Line(d)
           es == Append(ds, d)
<1>1. LineLen \in Nat \ {0} /\ n \in Nat
  BY WriterAssumption DEF LineLen
<1>2. Line(d) \in Seq(Bytes) /\ Len(Line(d)) = LineLen
  BY LineShape
<1>3. Len(s) = LineLen * n /\ LineLen * n \in Nat
  BY <1>1, Products DEF LinesOf
<1>4. /\ Len(t) = Len(s) + LineLen
      /\ \A i \in 1..(Len(s) + LineLen) :
           t[i] = IF i <= Len(s) THEN s[i] ELSE Line(d)[i - Len(s)]
  BY <1>2, ConcatProperties
<1>5. Len(es) = n + 1 /\ es[n + 1] = d /\ \A m \in 1..n : es[m] = ds[m]
  BY AppendProperties
<1>6. Len(t) = LineLen * Len(es)
  BY <1>1, <1>3, <1>4, <1>5, Products
<1>7. ASSUME NEW m \in 1..(n + 1), NEW p \in 1..LineLen
      PROVE  t[At(m, p)] = Line(es[m])[p]
  <2>1. CASE m = n + 1
    <3>1. At(m, p) = Len(s) + p
      BY <1>1, <1>3, <2>1 DEF At
    <3> QED BY <3>1, <1>1, <1>3, <1>4, <1>5, <2>1
  <2>2. CASE m \in 1..n
    <3>1. LineLen * (m - 1) \in Nat /\ LineLen * ((m - 1) + 1) <= LineLen * n
      BY <1>1, <2>2, Products
    <3>2. LineLen * ((m - 1) + 1) = LineLen * (m - 1) + LineLen
      BY <1>1, <2>2, Products
    <3>3. At(m, p) \in 1..Len(s)
      BY <1>1, <1>3, <3>1, <3>2 DEF At
    <3>4. s[At(m, p)] = Line(ds[m])[p]
      BY <2>2 DEF LinesOf
    <3> QED BY <3>3, <3>4, <1>1, <1>3, <1>4, <1>5, <2>2
  <2>3. m = n + 1 \/ m \in 1..n
    BY <1>1
  <2> QED BY <2>1, <2>2, <2>3
<1> HIDE DEF t, es, n
<1>8. LinesOf(t, es)
  BY <1>5, <1>6, <1>7 DEF LinesOf
<1> QED BY <1>8 DEF t, es

\* The first line, and the lines that remain when it is taken away.
LEMMA LinesOfTail ==
  ASSUME NEW s \in Seq(Bytes), NEW ds \in Seq(Diagnostics), ds # <<>>, LinesOf(s, ds)
  PROVE  /\ Len(s) >= LineLen
         /\ \A p \in 1..LineLen : s[p] = Line(ds[1])[p]
         /\ LinesOf(SubSeq(s, LineLen + 1, Len(s)), Tail(ds))
<1> DEFINE n == Len(ds)
           t == SubSeq(s, LineLen + 1, Len(s))
           es == Tail(ds)
<1>1. LineLen \in Nat \ {0} /\ n \in Nat \ {0}
  BY WriterAssumption, EmptySeq DEF LineLen
<1>2. Len(s) = LineLen * n /\ Len(s) \in Nat
  BY DEF LinesOf
<1>3. LineLen * n = LineLen * (n - 1) + LineLen /\ LineLen * (n - 1) \in Nat
  BY <1>1, Products
<1>4. \A p \in 1..LineLen : s[p] = Line(ds[1])[p]
  <2> SUFFICES ASSUME NEW p \in 1..LineLen PROVE s[p] = Line(ds[1])[p]
    OBVIOUS
  <2>1. At(1, p) = p
    BY <1>1 DEF At
  <2> QED BY <2>1, <1>1 DEF LinesOf
<1>5. Len(es) = n - 1 /\ \A m \in 1..(n - 1) : es[m] = ds[m + 1]
  BY HeadTailProperties, <1>1
<1>6. /\ Len(t) = Len(s) - LineLen
      /\ \A i \in 1..(Len(s) - LineLen) : t[i] = s[i + LineLen]
  <2>1. \A i \in (LineLen + 1)..Len(s) : s[i] \in Bytes
    BY <1>1, <1>2, ElementOfSeq
  <2>2. /\ Len(t) = IF LineLen + 1 <= Len(s) THEN Len(s) - (LineLen + 1) + 1 ELSE 0
        /\ \A i \in 1..(Len(s) - (LineLen + 1) + 1) : t[i] = s[LineLen + 1 + i - 1]
    BY <2>1, <1>1, <1>2, SubSeqProperties
  <2> QED BY <2>2, <1>1, <1>2, <1>3
<1>7. Len(t) = LineLen * Len(es)
  BY <1>2, <1>3, <1>5, <1>6, <1>1
<1>8. ASSUME NEW m \in 1..(n - 1), NEW p \in 1..LineLen
      PROVE  t[At(m, p)] = Line(es[m])[p]
  <2>1. LineLen * (m - 1) \in Nat /\ LineLen * m <= LineLen * (n - 1)
    BY <1>1, Products
  <2>2. LineLen * m = LineLen * (m - 1) + LineLen
    BY <1>1, Products
  <2>3. At(m, p) \in 1..(Len(s) - LineLen)
    BY <1>1, <1>2, <1>3, <2>1, <2>2 DEF At
  <2>4. At(m, p) + LineLen = At(m + 1, p)
    BY <1>1, <2>2 DEF At
  <2>5. s[At(m + 1, p)] = Line(ds[m + 1])[p]
    BY <1>1 DEF LinesOf
  <2> QED BY <2>3, <2>4, <2>5, <1>5, <1>6
<1> HIDE DEF t, es, n
<1>9. LinesOf(t, es)
  BY <1>5, <1>7, <1>8 DEF LinesOf
<1> QED BY <1>1, <1>2, <1>3, <1>4, <1>9 DEF t, es

----------------------------------------------------------------------------
(* The steps of the writer                                                 *)

LEMMA StreamType == WriterInv => Stream \in Seq(Bytes) /\ Owed \in Seq(Diagnostics)
<1> SUFFICES ASSUME WriterInv PROVE Stream \in Seq(Bytes) /\ Owed \in Seq(Diagnostics)
  OBVIOUS
<1>1. Stream \in Seq(Bytes)
  BY ConcatProperties DEF WriterInv, WriterTypeOK, Stream
<1>2. Len(diags) \in Nat /\ Len(emitted) \in Nat
  BY DEF WriterInv, WriterTypeOK
<1>3. \A i \in (Len(diags) + 1)..Len(emitted) : emitted[i] \in Diagnostics
  BY <1>2, ElementOfSeq DEF WriterInv, WriterTypeOK
<1>4. Owed \in Seq(Diagnostics)
  BY <1>2, <1>3, SubSeqProperties DEF Owed
<1> QED BY <1>1, <1>4

\* What is owed, position by position.
LEMMA OwedShape ==
  ASSUME WriterInv
  PROVE  /\ Len(Owed) = Len(emitted) - Len(diags)
         /\ \A m \in 1..Len(Owed) : Owed[m] = emitted[Len(diags) + m]
<1>1. Len(diags) \in Nat /\ Len(emitted) \in Nat /\ Len(diags) <= Len(emitted)
  BY DEF WriterInv, WriterTypeOK, Prefix
<1>2. \A i \in (Len(diags) + 1)..Len(emitted) : emitted[i] \in Diagnostics
  BY <1>1, ElementOfSeq DEF WriterInv, WriterTypeOK
<1>3. /\ Len(Owed) = IF Len(diags) + 1 <= Len(emitted)
                      THEN Len(emitted) - (Len(diags) + 1) + 1 ELSE 0
      /\ \A m \in 1..(Len(emitted) - (Len(diags) + 1) + 1) :
           Owed[m] = emitted[Len(diags) + 1 + m - 1]
  BY <1>1, <1>2, SubSeqProperties DEF Owed
<1> QED BY <1>1, <1>3

\* Nothing in the buffer looks like the end of a line before a whole line is there.
LEMMA FirstLine ==
  ASSUME WriterInv, alive, Owed # <<>>
  PROVE  /\ Stream[LineLen] = Newline /\ LineLen <= Len(Stream)
         /\ \A p \in 1..(LineLen - 1) : Stream[p] = Text(Owed[1])[p] /\ Stream[p] # Newline
         /\ Owed[1] \in Diagnostics
<1>1. LinesOf(Stream, Owed) /\ Stream \in Seq(Bytes) /\ Owed \in Seq(Diagnostics)
  BY StreamType DEF WriterInv
<1>2. LineLen \in Nat \ {0} /\ LineLen - 1 = Parts
  BY WriterAssumption DEF LineLen
<1>3. Owed[1] \in Diagnostics
  BY <1>1, EmptySeq, ElementOfSeq
<1>4. Len(Stream) >= LineLen /\ \A p \in 1..LineLen : Stream[p] = Line(Owed[1])[p]
  BY <1>1, LinesOfTail
<1> QED BY <1>2, <1>3, <1>4, LineShape

LEMMA ReadyMeans ==
  ASSUME WriterInv, alive
  PROVE  /\ Ready => /\ Owed # <<>> /\ LineEnd = LineLen /\ LineLen <= Len(pending)
                      /\ SubSeq(pending, 1, LineEnd - 1) = Text(Owed[1])
         /\ rest = <<>> /\ ~Ready => Owed = <<>> /\ pending = <<>>
<1>1. /\ pending \in Seq(Bytes) /\ rest \in Seq(Bytes) /\ Stream \in Seq(Bytes)
      /\ Owed \in Seq(Diagnostics) /\ LinesOf(Stream, Owed)
  BY StreamType DEF WriterInv, WriterTypeOK
<1>2. LineLen \in Nat \ {0, 1} /\ LineLen - 1 = Parts
  BY WriterAssumption DEF LineLen
<1>3. /\ Len(pending) \in Nat /\ Len(Stream) = Len(pending) + Len(rest)
      /\ \A i \in 1..Len(pending) : Stream[i] = pending[i]
  BY <1>1, ConcatProperties DEF Stream
<1>4. ASSUME Ready
      PROVE  /\ Owed # <<>> /\ LineEnd = LineLen /\ LineLen <= Len(pending)
             /\ SubSeq(pending, 1, LineEnd - 1) = Text(Owed[1])
  <2>1. PICK i \in 1..Len(pending) : pending[i] = Newline
    BY <1>1, <1>4 DEF Ready
  <2>2. Owed # <<>>
    <3>1. Stream # <<>>
      BY <1>1, <1>3, <2>1, EmptySeq
    <3> QED BY <3>1, <1>1, LinesOfNothing
  <2>3. LineLen <= i
    BY <2>1, <2>2, <1>2, <1>3, FirstLine
  <2>4. LineLen \in 1..Len(pending) /\ pending[LineLen] = Newline
    BY <1>2, <1>3, <2>1, <2>2, <2>3, FirstLine
  <2>5. \A p \in 1..(LineLen - 1) : pending[p] = Text(Owed[1])[p] /\ pending[p] # Newline
    BY <1>2, <1>3, <2>2, <2>4, FirstLine
  <2>6. LineEnd = LineLen
    <3> DEFINE Ends(k) == pending[k] = Newline /\ \A j \in 1..(k - 1) : pending[j] # Newline
    <3>1. Ends(LineLen)
      BY <2>4, <2>5
    <3>2. \A k \in 1..Len(pending) : Ends(k) => k = LineLen
      BY <2>4, <2>5, <1>2
    <3>3. DOMAIN pending = 1..Len(pending)
      BY <1>1
    <3> QED BY <3>1, <3>2, <3>3, <2>4 DEF LineEnd
  <2>7. SubSeq(pending, 1, Parts) = Text(Owed[1])
    <3>1. \A j \in 1..Parts : pending[j] \in Bytes
      BY <1>1, <1>2, <2>4, ElementOfSeq
    <3>2. /\ SubSeq(pending, 1, Parts) \in Seq(Bytes)
          /\ Len(SubSeq(pending, 1, Parts)) = Parts
          /\ \A j \in 1..Parts : SubSeq(pending, 1, Parts)[j] = pending[j]
      BY <3>1, <1>2, SubSeqProperties, WriterAssumption
    <3>3. Text(Owed[1]) \in Seq(Bytes) /\ Len(Text(Owed[1])) = Parts
      BY <2>2, FirstLine, LineShape
    <3> QED BY <3>2, <3>3, <2>5, <1>2, SeqEqual
  <2> QED BY <2>2, <2>4, <2>6, <2>7, <1>2
<1>5. ASSUME rest = <<>>, ~Ready
      PROVE  Owed = <<>> /\ pending = <<>>
  <2>1. Stream = pending
    BY <1>1, <1>5, ConcatEmptySeq DEF Stream
  <2>2. Owed = <<>>
    <3>1. SUFFICES ASSUME Owed # <<>> PROVE Ready
      BY <1>5
    <3>2. pending[LineLen] = Newline /\ LineLen \in 1..Len(pending)
      BY <3>1, <2>1, <1>2, FirstLine
    <3> QED BY <3>2, <1>1 DEF Ready
  <2> QED BY <2>1, <2>2, <1>1, LinesOfNothing
<1> QED BY <1>4, <1>5

LEMMA WriterInitial == WriterInit => WriterInv
<1> SUFFICES ASSUME WriterInit PROVE WriterInv
  OBVIOUS
<1>1. emitted = <<>> /\ rest = <<>> /\ pending = <<>> /\ diags = <<>> /\ alive = TRUE
  BY DEF WriterInit
<1>2. Stream = <<>> /\ Owed = <<>>
  BY <1>1, ConcatEmptySeq, SubSeqEmpty DEF Stream, Owed
<1>3. LinesOf(Stream, Owed)
  BY <1>2, LinesOfNothing
<1> QED BY <1>1, <1>3 DEF WriterInv, WriterTypeOK, Prefix

LEMMA EmitKeeps ==
  ASSUME WriterInv, NEW d \in Diagnostics, Emit(d)
  PROVE  WriterInv'
<1>1. /\ emitted \in Seq(Diagnostics) /\ diags \in Seq(Diagnostics)
      /\ rest \in Seq(Bytes) /\ pending \in Seq(Bytes)
      /\ Stream \in Seq(Bytes) /\ Owed \in Seq(Diagnostics)
      /\ alive /\ LinesOf(Stream, Owed) /\ Prefix
  BY StreamType DEF WriterInv, WriterTypeOK, Emit
<1>2. /\ emitted' = Append(emitted, d) /\ rest' = rest \o Line(d)
      /\ pending' = pending /\ diags' = diags /\ alive' = alive
  BY DEF Emit
<1>3. Line(d) \in Seq(Bytes)
  BY LineShape
<1>4. WriterTypeOK'
  BY <1>1, <1>2, <1>3, ConcatProperties, AppendProperties DEF WriterTypeOK
<1>5. /\ Len(emitted') = Len(emitted) + 1 /\ emitted'[Len(emitted) + 1] = d
      /\ \A i \in 1..Len(emitted) : emitted'[i] = emitted[i]
  BY <1>1, <1>2, AppendProperties
<1>6. Len(diags) \in Nat /\ Len(emitted) \in Nat /\ DOMAIN diags = 1..Len(diags)
  BY <1>1
<1>7. Prefix'
  BY <1>1, <1>2, <1>5, <1>6 DEF Prefix
<1>8. Stream' = Stream \o Line(d)
  <2>1. Stream' = pending \o (rest \o Line(d))
    BY <1>2 DEF Stream
  <2>2. (pending \o rest) \o Line(d) = pending \o (rest \o Line(d))
    BY <1>1, <1>3, ConcatAssociative
  <2> QED BY <2>1, <2>2 DEF Stream
<1>9. Owed' = Append(Owed, d)
  <2>1. \A i \in (Len(diags) + 1)..(Len(emitted) + 1) : emitted'[i] \in Diagnostics
    BY <1>4, <1>5, <1>6, ElementOfSeq DEF WriterTypeOK
  <2>2. /\ Owed' \in Seq(Diagnostics) /\ Len(Owed') = Len(emitted) + 1 - Len(diags)
        /\ \A m \in 1..(Len(emitted) + 1 - Len(diags)) : Owed'[m] = emitted'[Len(diags) + m]
    <3>1. Owed' = SubSeq(emitted', Len(diags) + 1, Len(emitted) + 1)
      BY <1>2, <1>5 DEF Owed
    <3>2. Len(diags) + 1 <= Len(emitted) + 1
      BY <1>1, <1>6 DEF Prefix
    <3>3. /\ Owed' \in Seq(Diagnostics)
          /\ Len(Owed') = (Len(emitted) + 1) - (Len(diags) + 1) + 1
          /\ \A m \in 1..((Len(emitted) + 1) - (Len(diags) + 1) + 1) :
               Owed'[m] = emitted'[Len(diags) + 1 + m - 1]
      BY <2>1, <3>1, <3>2, <1>6, SubSeqProperties
    <3> QED BY <3>3, <1>6
  <2>3. /\ Append(Owed, d) \in Seq(Diagnostics) /\ Len(Append(Owed, d)) = Len(Owed) + 1
        /\ \A m \in 1..Len(Owed) : Append(Owed, d)[m] = Owed[m]
        /\ Append(Owed, d)[Len(Owed) + 1] = d
    BY <1>1, AppendProperties
  <2>4. Len(Owed) = Len(emitted) - Len(diags)
        /\ \A m \in 1..Len(Owed) : Owed[m] = emitted[Len(diags) + m]
    BY OwedShape
  <2>5. Len(Owed') = Len(Append(Owed, d))
    BY <2>2, <2>3, <2>4, <1>6
  <2>6. \A m \in 1..Len(Owed') : Owed'[m] = Append(Owed, d)[m]
    BY <2>2, <2>3, <2>4, <1>5, <1>6
  <2> QED BY <2>2, <2>3, <2>5, <2>6, SeqEqual
<1>10. LinesOf(Stream \o Line(d), Append(Owed, d))
  BY <1>1, LinesOfAppend
<1> QED BY <1>1, <1>2, <1>4, <1>7, <1>8, <1>9, <1>10 DEF WriterInv

LEMMA WriteKeeps ==
  ASSUME WriterInv, NEW n \in 1..Len(rest), Write(n)
  PROVE  WriterInv'
<1>1. /\ emitted \in Seq(Diagnostics) /\ diags \in Seq(Diagnostics)
      /\ rest \in Seq(Bytes) /\ pending \in Seq(Bytes)
      /\ alive /\ LinesOf(Stream, Owed)
  BY DEF WriterInv, WriterTypeOK, Write
<1>2. /\ pending' = pending \o SubSeq(rest, 1, n) /\ rest' = SubSeq(rest, n + 1, Len(rest))
      /\ emitted' = emitted /\ diags' = diags /\ alive' = alive
  BY DEF Write
<1>3. Len(rest) \in Nat /\ n \in Nat /\ \A i \in 1..Len(rest) : rest[i] \in Bytes
  BY <1>1, ElementOfSeq
<1>4. SubSeq(rest, 1, n) \in Seq(Bytes) /\ SubSeq(rest, n + 1, Len(rest)) \in Seq(Bytes)
  BY <1>3, SubSeqProperties
<1>5. WriterTypeOK'
  BY <1>1, <1>2, <1>4, ConcatProperties DEF WriterTypeOK
<1>6. SubSeq(rest, 1, n) \o SubSeq(rest, n + 1, Len(rest)) = rest
  BY <1>1, <1>3, ConcatAdjacentSubSeq, SubSeqFull
<1>7. Stream' = Stream
  <2> DEFINE cut == SubSeq(rest, 1, n)
             left == SubSeq(rest, n + 1, Len(rest))
  <2>1. Stream' = (pending \o cut) \o left
    BY <1>2 DEF Stream
  <2>2. pending \in Seq(Bytes) /\ cut \in Seq(Bytes) /\ left \in Seq(Bytes)
    BY <1>1, <1>4
  <2>3. cut \o left = rest
    BY <1>6
  <2> HIDE DEF cut, left
  <2>4. (pending \o cut) \o left = pending \o (cut \o left)
    BY <2>2, ConcatAssociative
  <2> QED BY <2>1, <2>3, <2>4 DEF Stream
<1>8. Owed' = Owed
  BY <1>2 DEF Owed
<1>9. LinesOf(Stream', Owed')
  BY <1>1, <1>7, <1>8
<1> QED BY <1>1, <1>2, <1>5, <1>9 DEF WriterInv, Prefix

\* The heart of the matter: what is handed over is the next diagnostic, whole,
\* and what stays in the buffer begins with the line after it.
LEMMA EmitLineKeeps ==
  ASSUME WriterInv, EmitLine
  PROVE  WriterInv'
<1>0. alive
  BY EmptySeq DEF EmitLine, Ready, WriterInv, WriterTypeOK
<1>1. /\ emitted \in Seq(Diagnostics) /\ diags \in Seq(Diagnostics)
      /\ rest \in Seq(Bytes) /\ pending \in Seq(Bytes)
      /\ Stream \in Seq(Bytes) /\ Owed \in Seq(Diagnostics)
      /\ LinesOf(Stream, Owed) /\ Prefix
  BY <1>0, StreamType DEF WriterInv, WriterTypeOK
<1>2. /\ Owed # <<>> /\ LineEnd = LineLen /\ LineLen <= Len(pending)
      /\ SubSeq(pending, 1, LineEnd - 1) = Text(Owed[1])
  BY <1>0, ReadyMeans DEF EmitLine
<1>3. LineLen \in Nat \ {0, 1}
  BY WriterAssumption DEF LineLen
<1>4. /\ Receive(Text(Owed[1])) /\ pending' = SubSeq(pending, LineLen + 1, Len(pending))
      /\ emitted' = emitted /\ rest' = rest /\ alive' = alive
  BY <1>2, <1>3 DEF EmitLine
<1>5. Owed[1] \in Diagnostics
  BY <1>0, <1>2, FirstLine
<1>6. diags' = Append(diags, Owed[1])
  <2>1. (CHOOSE d \in Diagnostics : Text(Owed[1]) = Text(d)) = Owed[1]
    BY <1>5, LineShape
  <2> QED BY <1>4, <1>5, <2>1 DEF Receive
<1>7. \A i \in 1..Len(pending) : pending[i] \in Bytes
  BY <1>1, ElementOfSeq
<1>8. /\ pending' \in Seq(Bytes) /\ Len(pending') = Len(pending) - LineLen
      /\ \A i \in 1..(Len(pending) - LineLen) : pending'[i] = pending[LineLen + i]
  <2>1. Len(pending) \in Nat
    BY <1>1
  <2>2. /\ pending' \in Seq(Bytes)
        /\ Len(pending') = IF LineLen + 1 <= Len(pending)
                           THEN Len(pending) - (LineLen + 1) + 1 ELSE 0
        /\ \A i \in 1..(Len(pending) - (LineLen + 1) + 1) :
             pending'[i] = pending[LineLen + 1 + i - 1]
    BY <1>3, <1>4, <1>7, <2>1, SubSeqProperties
  <2> QED BY <2>1, <2>2, <1>2, <1>3
<1>9. WriterTypeOK'
  BY <1>1, <1>4, <1>5, <1>6, <1>8, AppendProperties DEF WriterInv, WriterTypeOK
<1>10. /\ Len(Owed) = Len(emitted) - Len(diags) /\ Len(Owed) >= 1
       /\ \A m \in 1..Len(Owed) : Owed[m] = emitted[Len(diags) + m]
       /\ Len(diags) \in Nat /\ Len(emitted) \in Nat
  BY <1>1, <1>2, OwedShape, EmptySeq
<1>11. /\ Len(diags') = Len(diags) + 1 /\ diags'[Len(diags) + 1] = Owed[1]
       /\ \A i \in 1..Len(diags) : diags'[i] = diags[i]
  BY <1>1, <1>5, <1>6, AppendProperties
<1>12. Prefix'
  <2>1. DOMAIN diags' = 1..(Len(diags) + 1) /\ DOMAIN diags = 1..Len(diags)
    BY <1>1, <1>9, <1>11 DEF WriterTypeOK
  <2>2. \A i \in 1..Len(diags) : diags[i] = emitted[i]
    BY <1>1, <2>1 DEF Prefix
  <2>3. Owed[1] = emitted[Len(diags) + 1]
    BY <1>10
  <2>4. \A i \in 1..(Len(diags) + 1) : diags'[i] = emitted[i]
    BY <2>2, <2>3, <1>10, <1>11
  <2> QED BY <2>1, <2>4, <1>4, <1>10, <1>11 DEF Prefix
<1>13. Owed' = Tail(Owed)
  <2>1. Owed' = SubSeq(emitted, Len(diags) + 2, Len(emitted))
    BY <1>4, <1>10, <1>11 DEF Owed
  <2>2. \A i \in (Len(diags) + 2)..Len(emitted) : emitted[i] \in Diagnostics
    BY <1>1, <1>10, ElementOfSeq
  <2>3. /\ Owed' \in Seq(Diagnostics)
        /\ Len(Owed') = IF Len(diags) + 2 <= Len(emitted)
                        THEN Len(emitted) - (Len(diags) + 2) + 1 ELSE 0
        /\ \A m \in 1..(Len(emitted) - (Len(diags) + 2) + 1) :
             Owed'[m] = emitted[Len(diags) + 2 + m - 1]
    BY <2>1, <2>2, <1>10, SubSeqProperties
  <2> DEFINE t == Tail(Owed)
             u == Owed'
  <2>4. /\ t \in Seq(Diagnostics) /\ Len(t) = Len(Owed) - 1
        /\ \A m \in 1..(Len(Owed) - 1) : t[m] = Owed[m + 1]
    BY <1>1, <1>2, <1>10, HeadTailProperties
  <2>5. /\ u \in Seq(Diagnostics) /\ Len(u) = Len(Owed) - 1
        /\ \A m \in 1..(Len(Owed) - 1) : u[m] = emitted[Len(diags) + 1 + m]
    BY <2>3, <1>10
  <2> HIDE DEF t, u
  <2>6. \A m \in 1..Len(u) : u[m] = t[m]
    BY <2>4, <2>5, <1>10
  <2>7. u = t
    BY <2>4, <2>5, <2>6, SeqEqual
  <2> QED BY <2>7 DEF t, u
<1>14. Stream' = SubSeq(Stream, LineLen + 1, Len(Stream))
  <2>1. /\ Len(Stream) = Len(pending) + Len(rest) /\ Len(pending) \in Nat /\ Len(rest) \in Nat
        /\ \A i \in 1..(Len(pending) + Len(rest)) :
             Stream[i] = IF i <= Len(pending) THEN pending[i] ELSE rest[i - Len(pending)]
    BY <1>1, ConcatProperties DEF Stream
  <2>2. /\ Stream' \in Seq(Bytes) /\ Len(Stream') = Len(pending) - LineLen + Len(rest)
        /\ \A i \in 1..(Len(pending) - LineLen + Len(rest)) :
             Stream'[i] = IF i <= Len(pending) - LineLen
                          THEN pending'[i] ELSE rest[i - (Len(pending) - LineLen)]
    BY <1>1, <1>4, <1>8, ConcatProperties DEF Stream
  <2>3. \A i \in (LineLen + 1)..Len(Stream) : Stream[i] \in Bytes
    BY <1>1, <1>3, ElementOfSeq
  <2> DEFINE t == SubSeq(Stream, LineLen + 1, Len(Stream))
  <2>4. /\ t \in Seq(Bytes)
        /\ Len(t) = IF LineLen + 1 <= Len(Stream) THEN Len(Stream) - (LineLen + 1) + 1 ELSE 0
        /\ \A i \in 1..(Len(Stream) - (LineLen + 1) + 1) : t[i] = Stream[LineLen + 1 + i - 1]
    BY <2>1, <2>3, <1>3, SubSeqProperties
  <2> HIDE DEF t
  <2>5. Len(Stream') = Len(t)
    BY <2>1, <2>2, <2>4, <1>2, <1>3
  <2>6. ASSUME NEW i \in 1..Len(Stream') PROVE Stream'[i] = t[i]
    <3>1. i \in Nat /\ t[i] = Stream[LineLen + i] /\ LineLen + i <= Len(Stream)
      BY <2>1, <2>2, <2>4, <2>5, <1>2, <1>3
    <3>2. CASE i <= Len(pending) - LineLen
      <4>1. i \in 1..(Len(pending) - LineLen) /\ LineLen + i \in 1..Len(pending)
        BY <3>1, <3>2, <2>1, <2>2, <1>2, <1>3
      <4>2. Stream'[i] = pending'[i]
        BY <3>2, <4>1, <2>1, <2>2
      <4>3. Stream[LineLen + i] = pending[LineLen + i]
        BY <4>1, <3>1, <2>1
      <4> QED BY <3>1, <4>1, <4>2, <4>3, <1>8
    <3>3. CASE i > Len(pending) - LineLen
      <4>1. Stream'[i] = rest[i - (Len(pending) - LineLen)]
        BY <3>1, <3>3, <2>1, <2>2, <1>2, <1>3
      <4>2. Stream[LineLen + i] = rest[LineLen + i - Len(pending)]
        BY <3>1, <3>3, <2>1, <1>2, <1>3
      <4>3. i - (Len(pending) - LineLen) = LineLen + i - Len(pending)
        BY <3>1, <2>1, <1>3
      <4> QED BY <3>1, <4>1, <4>2, <4>3
    <3> QED BY <3>2, <3>3, <3>1, <2>1, <1>3
  <2>7. Stream' = t
    BY <2>2, <2>4, <2>5, <2>6, SeqEqual
  <2> QED BY <2>7 DEF t
<1>15. LinesOf(Stream', Owed')
  BY <1>1, <1>2, <1>13, <1>14, LinesOfTail
<1> QED BY <1>4, <1>9, <1>12, <1>15 DEF WriterInv

LEMMA DropKeeps ==
  ASSUME WriterInv, Drop
  PROVE  WriterInv'
<1>1. Owed = <<>> /\ pending = <<>> /\ rest = <<>>
  BY ReadyMeans DEF Drop
<1>2. /\ emitted' = emitted /\ rest' = <<>> /\ pending' = <<>> /\ diags' = diags /\ ~alive'
  BY <1>1 DEF Drop
<1>3. WriterTypeOK' /\ Prefix'
  BY <1>2 DEF WriterInv, WriterTypeOK, Prefix, Drop
<1> QED BY <1>2, <1>3 DEF WriterInv

LEMMA AbortKeeps ==
  ASSUME WriterInv, Abort
  PROVE  WriterInv'
<1>1. emitted' = emitted /\ rest' = <<>> /\ pending' = <<>> /\ diags' = diags /\ ~alive'
  BY DEF Abort
<1>2. emitted \in Seq(Diagnostics) /\ diags \in Seq(Diagnostics) /\ Prefix
  BY DEF WriterInv, WriterTypeOK
<1>3. WriterTypeOK'
  <2>1. rest' \in Seq(Bytes) /\ pending' \in Seq(Bytes)
    BY <1>1
  <2>2. alive' \in BOOLEAN
    BY DEF Abort
  <2>3. emitted' \in Seq(Diagnostics) /\ diags' \in Seq(Diagnostics)
    BY <1>1, <1>2
  <2> QED BY <2>1, <2>2, <2>3 DEF WriterTypeOK
<1>4. Prefix'
  BY <1>1, <1>2 DEF Prefix
<1> QED BY <1>1, <1>3, <1>4 DEF WriterInv

LEMMA WriterStutters ==
  ASSUME WriterInv, UNCHANGED writerVars
  PROVE  WriterInv'
<1>1. Stream' = Stream /\ Owed' = Owed
  BY DEF writerVars, Stream, Owed
<1>2. LinesOf(Stream, Owed) => LinesOf(Stream', Owed')
  BY <1>1
<1> QED BY <1>2 DEF writerVars, WriterInv, WriterTypeOK, Prefix

LEMMA DeliveredFollows == WriterInv => Delivered
<1> SUFFICES ASSUME WriterInv PROVE Delivered
  OBVIOUS
<1>1. ASSUME alive, rest = <<>>, ~Ready
      PROVE  diags = emitted /\ pending = <<>>
  <2>1. Owed = <<>> /\ pending = <<>>
    BY <1>1, ReadyMeans
  <2>2. Len(diags) = Len(emitted)
    BY <2>1, OwedShape DEF WriterInv, WriterTypeOK
  <2>3. diags = emitted
    BY <2>2, SeqEqual DEF WriterInv, WriterTypeOK, Prefix
  <2> QED BY <2>1, <2>3
<1> QED BY <1>1 DEF Delivered, WriterInv, Prefix

LEMMA WriterInvariance == WriterSpec => []WriterInv
<1>1. WriterInv /\ [WriterNext]_writerVars => WriterInv'
  <2> SUFFICES ASSUME WriterInv, [WriterNext]_writerVars PROVE WriterInv'
    OBVIOUS
  <2>1. CASE \E d \in Diagnostics : Emit(d)
    BY <2>1, EmitKeeps
  <2>2. CASE \E n \in 1..Len(rest) : Write(n)
    BY <2>2, WriteKeeps
  <2>3. CASE EmitLine
    BY <2>3, EmitLineKeeps
  <2>4. CASE Drop
    BY <2>4, DropKeeps
  <2>5. CASE Abort
    BY <2>5, AbortKeeps
  <2>6. CASE UNCHANGED writerVars
    BY <2>6, WriterStutters
  <2> QED BY <2>1, <2>2, <2>3, <2>4, <2>5, <2>6 DEF WriterNext
<1> QED BY WriterInitial, <1>1, PTL DEF WriterSpec

\* The kinds of values the writer and the page's list hold (rust.rs:227-272),
\* whatever is emitted and however it is cut.
THEOREM WriterTypeCorrect == WriterSpec => []WriterTypeOK
<1>1. WriterInv => WriterTypeOK
  BY DEF WriterInv
<1> QED BY <1>1, WriterInvariance, PTL

\* No diagnostic is lost, cut, joined with its neighbour or overtaken, and none
\* waits for the drop (rust.rs:230-250), whatever the sizes of the writes.
THEOREM WriterDelivers == WriterSpec => []Delivered
BY DeliveredFollows, WriterInvariance, PTL

=============================================================================
