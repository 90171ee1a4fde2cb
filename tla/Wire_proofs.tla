---------------------------- MODULE Wire_proofs -----------------------------
(***************************************************************************)
(* Proofs about Wire, for any sizes of the format and any messages: names  *)
(* are read within their limits, in few rounds; names, records and whole   *)
(* messages that were written are read again as they were; and records     *)
(* that are copied into a reply mean there what they meant.                *)
(***************************************************************************)
EXTENDS Wire, SequenceTheorems, Recursion, TLAPS

Octets == 0 .. Byte - 1
Label == {l \in Seq(Octets) : Len(l) \in 1 .. MaxLabel}

\* What a label is on the wire, and a name without the zero at its end.
Octeted(l) == <<Len(l)>> \o l
Body(name) == FlattenSeq([i \in DOMAIN name |-> Octeted(name[i])])

-----------------------------------------------------------------------------
(* Flattening *)

\* The recursive function of FlattenSeq is what it looks like.
LEMMA FlattenSteps ==
  ASSUME NEW seqs, Len(seqs) \in Nat \ {0}
  PROVE  \E f : /\ FlattenSeq(seqs) = f[Len(seqs)] /\ f[1] = seqs[1]
                /\ \A i \in 2 .. Len(seqs) : f[i] = f[i - 1] \o seqs[i]
<1> DEFINE n == Len(seqs)
           Steps(g) == [i \in 1 .. n |-> IF i = 1 THEN seqs[i] ELSE g[i - 1] \o seqs[i]]
           W == CHOOSE g : g = Steps(g)
           Run(g, m) == g[1] = seqs[1] /\ \A i \in 2 .. m + 1 : g[i] = g[i - 1] \o seqs[i]
           T == {m \in Nat : \E g : Run(g, m)}
<1>1. FlattenSeq(seqs) = W[n]
  BY DEF FlattenSeq
<1>2. 0 \in T
  <2> DEFINE g == [i \in 1 .. 1 |-> seqs[1]]
  <2>1. Run(g, 0)
    OBVIOUS
  <2> QED BY <2>1
<1>3. ASSUME NEW m \in T PROVE m + 1 \in T
  <2>1. PICK g : Run(g, m)
    OBVIOUS
  <2> DEFINE k == [i \in 1 .. m + 2 |-> IF i = m + 2 THEN g[m + 1] \o seqs[m + 2] ELSE g[i]]
  <2>2. m \in Nat
    OBVIOUS
  <2>3. k[1] = seqs[1]
    BY <2>1, <2>2
  <2>4. ASSUME NEW i \in 2 .. (m + 1) + 1 PROVE k[i] = k[i - 1] \o seqs[i]
    <3>1. CASE i = m + 2
      <4>1. i \in 1 .. m + 2 /\ i - 1 \in 1 .. m + 2 /\ i - 1 # m + 2 /\ i - 1 = m + 1
        BY <3>1, <2>2
      <4>2. k[i] = g[m + 1] \o seqs[m + 2] /\ k[i - 1] = g[m + 1]
        BY <4>1, <3>1
      <4> QED BY <4>2, <3>1
    <3>2. CASE i # m + 2
      <4>1. i \in 2 .. m + 1 /\ i \in 1 .. m + 2 /\ i - 1 \in 1 .. m + 2 /\ i - 1 # m + 2
        BY <3>2, <2>2
      <4>2. k[i] = g[i] /\ k[i - 1] = g[i - 1]
        BY <4>1, <3>2
      <4> QED BY <4>1, <4>2, <2>1
    <3> QED BY <3>1, <3>2
  <2> HIDE DEF k
  <2>5. Run(k, m + 1)
    BY <2>3, <2>4
  <2> HIDE DEF Run
  <2>6. m + 1 \in Nat /\ \E r : Run(r, m + 1)
    BY <2>2, <2>5
  <2> QED BY <2>6
<1>4. T \in SUBSET Nat
  OBVIOUS
<1> HIDE DEF T
<1>5. n - 1 \in T
  BY <1>2, <1>3, <1>4, Induction
<1>6. PICK g : Run(g, n - 1)
  BY <1>5 DEF T
<1> DEFINE h == [i \in 1 .. n |-> g[i]]
<1>7. h = Steps(h)
  <2> SUFFICES ASSUME NEW i \in 1 .. n
               PROVE  h[i] = IF i = 1 THEN seqs[i] ELSE h[i - 1] \o seqs[i]
    OBVIOUS
  <2>1. CASE i = 1
    BY <2>1, <1>6
  <2>2. CASE i # 1
    <3>1. i \in 2 .. (n - 1) + 1 /\ i - 1 \in 1 .. n
      BY <2>2
    <3>2. g[i] = g[i - 1] \o seqs[i]
      BY <3>1, <1>6
    <3> QED BY <2>2, <3>1, <3>2
  <2> QED BY <2>1, <2>2
<1> HIDE DEF Steps, h
<1>8. W = Steps(W)
  BY <1>7
<1> HIDE DEF W
<1>9. W[1] = seqs[1]
  BY <1>8 DEF Steps
<1>10. ASSUME NEW i \in 2 .. n PROVE W[i] = W[i - 1] \o seqs[i]
  <2>1. i \in 1 .. n /\ i # 1
    OBVIOUS
  <2>2. Steps(W)[i] = W[i - 1] \o seqs[i]
    BY <2>1 DEF Steps
  <2> QED BY <1>8, <2>2
<1> QED BY <1>1, <1>9, <1>10

LEMMA FlattenNone == FlattenSeq(<<>>) = <<>>
BY DEF FlattenSeq

LEMMA FlattenAppend ==
  ASSUME NEW S, NEW seqs \in Seq(Seq(S)), NEW x \in Seq(S)
  PROVE  FlattenSeq(Append(seqs, x)) = FlattenSeq(seqs) \o x
<1> DEFINE n == Len(seqs)
           more == Append(seqs, x)
<1>1. /\ n \in Nat /\ Len(more) = n + 1 /\ more[n + 1] = x
      /\ \A i \in 1 .. n : more[i] = seqs[i]
  OBVIOUS
<1> HIDE DEF more
<1>2. PICK g : /\ FlattenSeq(more) = g[n + 1] /\ g[1] = more[1]
               /\ \A i \in 2 .. n + 1 : g[i] = g[i - 1] \o more[i]
  <2>1. Len(more) \in Nat \ {0}
    BY <1>1
  <2>2. \E f : /\ FlattenSeq(more) = f[Len(more)] /\ f[1] = more[1]
               /\ \A i \in 2 .. Len(more) : f[i] = f[i - 1] \o more[i]
    BY <2>1, FlattenSteps
  <2> QED BY <2>2, <1>1
<1>3. CASE n = 0
  <2>1. FlattenSeq(more) = x
    BY <1>1, <1>2, <1>3
  <2>2. seqs = <<>> /\ FlattenSeq(seqs) = <<>> /\ <<>> \o x = x
    BY <1>3, FlattenNone, ConcatEmptySeq, EmptySeq
  <2> QED BY <2>1, <2>2 DEF more
<1>4. CASE n # 0
  <2>1. PICK f : /\ FlattenSeq(seqs) = f[n] /\ f[1] = seqs[1]
                 /\ \A i \in 2 .. n : f[i] = f[i - 1] \o seqs[i]
    BY <1>1, <1>4, FlattenSteps
  <2> DEFINE T == {m \in Nat : m + 1 <= n => f[m + 1] = g[m + 1]}
  <2>2. 0 \in T
    BY <1>1, <1>2, <1>4, <2>1
  <2>3. ASSUME NEW m \in T PROVE m + 1 \in T
    <3> SUFFICES ASSUME m + 2 <= n PROVE f[m + 2] = g[m + 2]
      BY SMTT(30)
    <3>1. f[m + 1] = g[m + 1] /\ m \in Nat
      BY <1>1
    <3>2. m + 2 \in 2 .. n /\ m + 2 \in 2 .. n + 1 /\ (m + 2) - 1 = m + 1 /\ m + 2 \in 1 .. n
      BY <1>1, <3>1
    <3>3. f[m + 2] = f[m + 1] \o seqs[m + 2]
      BY <3>2, <2>1
    <3>4. g[m + 2] = g[m + 1] \o seqs[m + 2]
      BY <3>2, <1>1, <1>2
    <3> QED BY <3>1, <3>3, <3>4
  <2>4. T \in SUBSET Nat
    OBVIOUS
  <2> HIDE DEF T
  <2>5. n - 1 \in Nat
    BY <1>1, <1>4
  <2>6. n - 1 \in T
    BY <2>2, <2>3, <2>4, <2>5, Induction
  <2>7. f[n] = g[n]
    BY <1>1, <2>5, <2>6 DEF T
  <2>8. n + 1 \in 2 .. n + 1 /\ (n + 1) - 1 = n
    BY <1>1, <1>4
  <2>9. g[n + 1] = g[n] \o x
    BY <2>8, <1>1, <1>2
  <2> QED BY <1>2, <2>1, <2>7, <2>9 DEF more
<1> QED BY <1>3, <1>4

LEMMA FlattenType ==
  ASSUME NEW S, NEW seqs \in Seq(Seq(S))
  PROVE  FlattenSeq(seqs) \in Seq(S)
<1> DEFINE T == {n \in Nat : \A s \in Seq(Seq(S)) : Len(s) = n => FlattenSeq(s) \in Seq(S)}
<1>1. 0 \in T
  <2> SUFFICES ASSUME NEW s \in Seq(Seq(S)), Len(s) = 0 PROVE FlattenSeq(s) \in Seq(S)
    OBVIOUS
  <2>1. s = <<>>
    BY EmptySeq
  <2>2. <<>> \in Seq(S)
    OBVIOUS
  <2> QED BY <2>1, <2>2, FlattenNone
<1>2. ASSUME NEW n \in T PROVE n + 1 \in T
  <2> SUFFICES ASSUME NEW s \in Seq(Seq(S)), Len(s) = n + 1 PROVE FlattenSeq(s) \in Seq(S)
    OBVIOUS
  <2>1. s # <<>>
    OBVIOUS
  <2>2. PICK r \in Seq(Seq(S)), x \in Seq(S) : s = Append(r, x)
    BY <2>1, SequenceEmptyOrAppend
  <2>3. Len(r) = n
    BY <2>2
  <2>4. FlattenSeq(r) \in Seq(S)
    BY <2>3
  <2>5. FlattenSeq(s) = FlattenSeq(r) \o x
    BY <2>2, FlattenAppend
  <2> QED BY <2>4, <2>5, ConcatProperties
<1>3. T \in SUBSET Nat
  OBVIOUS
<1>4. Len(seqs) \in Nat
  OBVIOUS
<1> HIDE DEF T
<1>5. Len(seqs) \in T
  BY <1>1, <1>2, <1>3, <1>4, Induction
<1> QED BY <1>5 DEF T

-----------------------------------------------------------------------------
(* Names on the wire *)

LEMMA Sizes ==
  /\ {Byte, PtrBits, MaxLabel, MaxName, MaxJumps, MaxOffset, Header} \subseteq Nat
  /\ MaxLabel < PtrBits /\ PtrBits < Byte /\ MaxName > 0 /\ MaxName < Byte /\ MaxJumps > 0
  /\ MaxOffset < (Byte - PtrBits) * Byte
BY WireAssumption

LEMMA OctetedType ==
  ASSUME NEW l \in Label
  PROVE  /\ Octeted(l) \in Seq(Octets) /\ Len(Octeted(l)) = 1 + Len(l)
         /\ Octeted(l)[1] = Len(l)
         /\ \A k \in 1 .. Len(l) : Octeted(l)[1 + k] = l[k]
         /\ l \in Seq(Octets) /\ Len(l) \in 1 .. MaxLabel /\ Len(l) \in Nat
<1>1. l \in Seq(Octets) /\ Len(l) \in 1 .. MaxLabel /\ Len(l) \in Nat
  BY DEF Label
<1>2. Len(l) \in Octets
  BY <1>1, Sizes, SMTT(30) DEF Octets
<1>3. <<Len(l)>> \in Seq(Octets) /\ Len(<<Len(l)>>) = 1 /\ <<Len(l)>>[1] = Len(l)
  BY <1>2
<1> DEFINE h == <<Len(l)>>
<1> HIDE DEF h
<1>4. h \in Seq(Octets) /\ Len(h) = 1 /\ h[1] = Len(l) /\ Octeted(l) = h \o l
  BY <1>3 DEF h, Octeted
<1>5. /\ h \o l \in Seq(Octets) /\ Len(h \o l) = 1 + Len(l)
      /\ \A i \in 1 .. 1 + Len(l) : (h \o l)[i] = IF i <= 1 THEN h[i] ELSE l[i - 1]
  <2>1. /\ h \o l \in Seq(Octets) /\ Len(h \o l) = Len(h) + Len(l)
        /\ \A i \in 1 .. Len(h) + Len(l) :
             (h \o l)[i] = IF i <= Len(h) THEN h[i] ELSE l[i - Len(h)]
    BY <1>1, <1>4, ConcatProperties
  <2> QED BY <2>1, <1>4
<1>6. \A k \in 1 .. Len(l) : (h \o l)[1 + k] = l[k]
  <2> TAKE k \in 1 .. Len(l)
  <2>1. 1 + k \in 1 .. 1 + Len(l) /\ ~(1 + k <= 1) /\ (1 + k) - 1 = k
    BY <1>1
  <2> QED BY <1>5, <2>1
<1>7. (h \o l)[1] = Len(l)
  BY <1>1, <1>4, <1>5
<1> QED BY <1>1, <1>4, <1>5, <1>6, <1>7

\* The labels on the wire, one after the other.
Parts(name) == [i \in DOMAIN name |-> Octeted(name[i])]

LEMMA PartsType ==
  ASSUME NEW name \in Seq(Label)
  PROVE  Parts(name) \in Seq(Seq(Octets)) /\ Len(Parts(name)) = Len(name)
<1>1. DOMAIN name = 1 .. Len(name) /\ Len(name) \in Nat
  OBVIOUS
<1>2. ASSUME NEW i \in 1 .. Len(name) PROVE Octeted(name[i]) \in Seq(Octets)
  BY OctetedType
<1> QED BY <1>1, <1>2 DEF Parts

LEMMA BodyNone == Body(<<>>) = <<>>
<1>1. Parts(<<>>) = <<>>
  BY DEF Parts
<1> QED BY <1>1, FlattenNone DEF Body, Parts

LEMMA BodyAppend ==
  ASSUME NEW name \in Seq(Label), NEW l \in Label
  PROVE  Body(Append(name, l)) = Body(name) \o Octeted(l)
<1> DEFINE more == Append(name, l)
           ps == Parts(name)
           o == Octeted(l)
<1>1. /\ more \in Seq(Label) /\ Len(more) = Len(name) + 1 /\ Len(name) \in Nat
      /\ \A i \in 1 .. Len(name) : more[i] = name[i]
      /\ more[Len(name) + 1] = l
  OBVIOUS
<1>2. ps \in Seq(Seq(Octets)) /\ Len(ps) = Len(name) /\ o \in Seq(Octets)
  BY PartsType, OctetedType
<1>3. Parts(more) \in Seq(Seq(Octets)) /\ Len(Parts(more)) = Len(name) + 1
  BY <1>1, PartsType
<1>4. /\ Append(ps, o) \in Seq(Seq(Octets)) /\ Len(Append(ps, o)) = Len(name) + 1
      /\ \A i \in 1 .. Len(name) : Append(ps, o)[i] = ps[i]
      /\ Append(ps, o)[Len(name) + 1] = o
  <2> HIDE DEF ps, o
  <2> QED BY <1>2, AppendProperties
<1>5. ASSUME NEW i \in 1 .. Len(name) + 1 PROVE Parts(more)[i] = Append(ps, o)[i]
  <2>1. DOMAIN more = 1 .. Len(name) + 1 /\ DOMAIN name = 1 .. Len(name)
    BY <1>1
  <2>2. Parts(more)[i] = Octeted(more[i])
    BY <2>1 DEF Parts
  <2>3. CASE i = Len(name) + 1
    <3>1. Append(ps, o)[i] = o
      BY <1>4, <2>3
    <3>2. more[i] = l
      BY <1>1, <2>3
    <3> QED BY <2>2, <3>1, <3>2
  <2>4. CASE i # Len(name) + 1
    <3>1. i \in 1 .. Len(name)
      BY <1>1, <2>4
    <3>2. Append(ps, o)[i] = ps[i] /\ more[i] = name[i]
      BY <3>1, <1>1, <1>4
    <3>3. ps[i] = Octeted(name[i])
      BY <2>1, <3>1 DEF Parts
    <3> QED BY <2>2, <3>2, <3>3
  <2> QED BY <2>3, <2>4
<1> HIDE DEF more, ps, o
<1>6. Parts(more) = Append(ps, o)
  <2> DEFINE u == Parts(more)
             v == Append(ps, o)
  <2>1. u \in Seq(Seq(Octets)) /\ v \in Seq(Seq(Octets)) /\ Len(u) = Len(v)
        /\ \A i \in 1 .. Len(u) : u[i] = v[i]
    BY <1>3, <1>4, <1>5
  <2> HIDE DEF u, v
  <2>2. u = v
    BY <2>1, SeqEqual
  <2> QED BY <2>2 DEF u, v
<1>7. FlattenSeq(Append(ps, o)) = FlattenSeq(ps) \o o
  BY <1>2, FlattenAppend
<1> QED BY <1>6, <1>7 DEF Body, Parts, more, ps, o

LEMMA BodyType ==
  ASSUME NEW name \in Seq(Label)
  PROVE  Body(name) \in Seq(Octets) /\ Len(Body(name)) \in Nat
<1>1. FlattenSeq(Parts(name)) \in Seq(Octets)
  BY PartsType, FlattenType
<1>2. Body(name) = FlattenSeq(Parts(name))
  BY DEF Body, Parts
<1> QED BY <1>1, <1>2, LenProperties

LEMMA BodyLonger ==
  ASSUME NEW name \in Seq(Label), NEW l \in Label
  PROVE  /\ Len(Body(Append(name, l))) = Len(Body(name)) + 1 + Len(l)
         /\ \A i \in 1 .. Len(Body(name)) : Body(Append(name, l))[i] = Body(name)[i]
         /\ \A k \in 1 .. 1 + Len(l) :
              Body(Append(name, l))[Len(Body(name)) + k] = Octeted(l)[k]
<1> DEFINE b == Body(name)
           o == Octeted(l)
<1>1. /\ b \in Seq(Octets) /\ Len(b) \in Nat
      /\ o \in Seq(Octets) /\ Len(o) = 1 + Len(l) /\ Len(l) \in Nat
  BY BodyType, OctetedType
<1>2. Body(Append(name, l)) = b \o o
  BY BodyAppend
<1> HIDE DEF b, o
<1>3. /\ Len(b \o o) = Len(b) + Len(o)
      /\ \A i \in 1 .. Len(b) + Len(o) : (b \o o)[i] = IF i <= Len(b) THEN b[i] ELSE o[i - Len(b)]
  <2>1. b \in Seq(Octets) /\ o \in Seq(Octets)
    BY <1>1
  <2> QED BY <2>1, ConcatProperties
<1>4. \A i \in 1 .. Len(b) : (b \o o)[i] = b[i]
  <2> TAKE i \in 1 .. Len(b)
  <2>1. i \in 1 .. Len(b) + Len(o) /\ i <= Len(b)
    BY <1>1
  <2> QED BY <1>3, <2>1
<1>5. ASSUME NEW k \in 1 .. 1 + Len(l) PROVE (b \o o)[Len(b) + k] = o[k]
  <2>1. Len(b) + k \in 1 .. Len(b) + Len(o) /\ ~(Len(b) + k <= Len(b)) /\ (Len(b) + k) - Len(b) = k
    BY <1>1
  <2> QED BY <1>3, <2>1
<1> QED BY <1>1, <1>2, <1>3, <1>4, <1>5 DEF b, o

\* A name on the wire: its labels, and a zero.
LEMMA BytesMeaning ==
  ASSUME NEW name \in Seq(Label)
  PROVE  /\ Bytes(name) \in Seq(Octets)
         /\ Len(Bytes(name)) = Len(Body(name)) + 1
         /\ Bytes(name)[Len(Body(name)) + 1] = 0
         /\ \A i \in 1 .. Len(Body(name)) : Bytes(name)[i] = Body(name)[i]
<1> DEFINE b == Body(name)
           z == <<0>>
<1>1. b \in Seq(Octets) /\ Len(b) \in Nat
  BY BodyType
<1>2. z \in Seq(Octets) /\ Len(z) = 1 /\ z[1] = 0
  BY Sizes, SMTT(30) DEF Octets
<1>3. Bytes(name) = b \o z
  BY DEF Bytes, Body, Octeted
<1> HIDE DEF b, z
<1>4. /\ b \o z \in Seq(Octets) /\ Len(b \o z) = Len(b) + Len(z)
      /\ \A i \in 1 .. Len(b) + Len(z) : (b \o z)[i] = IF i <= Len(b) THEN b[i] ELSE z[i - Len(b)]
  BY <1>1, <1>2, ConcatProperties
<1>5. (b \o z)[Len(b) + 1] = 0
  <2>1. Len(b) + 1 \in 1 .. Len(b) + Len(z) /\ ~(Len(b) + 1 <= Len(b)) /\ (Len(b) + 1) - Len(b) = 1
    BY <1>1, <1>2
  <2> QED BY <1>2, <1>4, <2>1
<1>6. \A i \in 1 .. Len(b) : (b \o z)[i] = b[i]
  BY <1>1, <1>2, <1>4
<1> QED BY <1>2, <1>3, <1>4, <1>5, <1>6 DEF b

-----------------------------------------------------------------------------
(* Reading *)

Reader ==
  [state : {"reading", "done", "malformed"}, at : Nat, labels : Seq(Label), size : Nat,
   jumps : 0 .. MaxJumps, end : Nat]

\* What readName knows of the name at offset: its size is what has been read,
\* and where it ends is within the message.
SoundReader(buf, offset, r) ==
  /\ r \in Reader
  /\ r.size = Len(Body(r.labels)) /\ r.size < MaxName
  /\ r.end = 0 => r.at >= offset
  /\ r.end # 0 => r.end \in offset + 1 .. Len(buf)
  /\ r.state = "done" => r.end # 0

LEMMA StartSound ==
  ASSUME NEW buf, NEW offset \in Nat
  PROVE  SoundReader(buf, offset, Start(offset))
<1>1. Start(offset) \in Reader
  BY Sizes DEF Start, Reader
<1> QED BY <1>1, BodyNone, Sizes DEF Start, SoundReader

\* Each round of the loop but the last follows a pointer or adds to the name.
Rounds(r) == r.jumps + r.size

LEMMA RoundsFew ==
  ASSUME NEW buf, NEW offset, NEW r, SoundReader(buf, offset, r)
  PROVE  Rounds(r) \in Nat /\ Rounds(r) < MaxJumps + MaxName
<1>1. r.jumps \in 0 .. MaxJumps /\ r.size \in Nat /\ r.size < MaxName
  BY DEF SoundReader, Reader
<1>2. MaxJumps \in Nat /\ MaxName \in Nat
  BY Sizes
<1> QED BY <1>1, <1>2 DEF Rounds

LEMMA StepSound ==
  ASSUME NEW buf \in Seq(Octets), NEW offset \in Nat, NEW r,
         SoundReader(buf, offset, r), r.state = "reading"
  PROVE  /\ SoundReader(buf, offset, ReadStep(buf, r))
         /\ ReadStep(buf, r).state = "reading" => Rounds(ReadStep(buf, r)) >= Rounds(r) + 1
<1> DEFINE n == Len(buf)
           length == At(buf, r.at)
<1>1. /\ r \in Reader /\ r.at \in Nat /\ r.labels \in Seq(Label) /\ r.size \in Nat
      /\ r.jumps \in 0 .. MaxJumps /\ r.end \in Nat /\ n \in Nat
  BY DEF SoundReader, Reader
<1>2. ASSUME NEW i \in Nat, i < n PROVE At(buf, i) \in 0 .. Byte - 1
  <2>1. i + 1 \in 1 .. n
    BY <1>1, <1>2
  <2> QED BY <2>1, ElementOfSeq DEF At, Octets
<1>3. CASE ReadStep(buf, r) = Bad(r)
  <2>1. Bad(r) \in Reader
    BY <1>1 DEF Bad, Reader
  <2>2. Bad(r).state = "malformed" /\ Bad(r).labels = r.labels /\ Bad(r).size = r.size
        /\ Bad(r).end = r.end /\ Bad(r).at = r.at
    BY <1>1 DEF Bad, Reader
  <2> QED BY <1>3, <2>1, <2>2 DEF SoundReader
<1>4. CASE /\ r.at < n /\ length = 0
           /\ ReadStep(buf, r) = [r EXCEPT !.state = "done", !.end = IF @ = 0 THEN r.at + 1 ELSE @]
  <2> DEFINE e == IF r.end = 0 THEN r.at + 1 ELSE r.end
             q == [r EXCEPT !.state = "done", !.end = e]
  <2>a. e \in Nat
    BY <1>1
  <2>b. ReadStep(buf, r) = q
    BY <1>4
  <2> HIDE DEF e
  <2>1. q \in Reader
    BY <1>1, <2>a DEF Reader
  <2>2. /\ q.state = "done" /\ q.labels = r.labels /\ q.size = r.size /\ q.at = r.at
        /\ q.end = e
    BY <1>1 DEF Reader
  <2> HIDE DEF q
  <2>3. q.end # 0 /\ q.end \in offset + 1 .. n
    BY <1>1, <1>4, <2>2 DEF SoundReader, e
  <2>4. SoundReader(buf, offset, q)
    BY <2>1, <2>2, <2>3 DEF SoundReader
  <2> QED BY <2>b, <2>2, <2>4
<1>5. ASSUME r.at + 1 < n, length >= PtrBits, ReadStep(buf, r) # Bad(r),
             ReadStep(buf, r) = Follow(buf, r)
      PROVE  /\ SoundReader(buf, offset, ReadStep(buf, r))
             /\ Rounds(ReadStep(buf, r)) >= Rounds(r) + 1
  <2> DEFINE high == At(buf, r.at) - PtrBits
             ptr == high * Byte + At(buf, r.at + 1)
             e == IF r.end = 0 THEN r.at + 2 ELSE r.end
             j == r.jumps + 1
             q == [r EXCEPT !.at = ptr, !.jumps = j, !.end = e]
  <2>1. high \in Nat /\ At(buf, r.at + 1) \in Nat /\ Byte \in Nat
    <3>1. r.at < n /\ r.at + 1 \in Nat
      BY <1>1, <1>5, SMTT(30)
    <3>2. At(buf, r.at) \in Nat /\ At(buf, r.at + 1) \in Nat
      <4>1. At(buf, r.at) \in 0 .. Byte - 1 /\ At(buf, r.at + 1) \in 0 .. Byte - 1
        BY <1>1, <1>2, <1>5, <3>1
      <4> QED BY <4>1, Sizes
    <3> QED BY <1>5, <3>2, Sizes, SMTT(30)
  <2> HIDE DEF high
  <2>2. high * Byte \in Nat
    BY <2>1
  <2>3. ptr \in Nat
    BY <2>1, <2>2
  <2>4. ReadStep(buf, r) = q /\ r.jumps # MaxJumps
    BY <1>5 DEF Follow, high
  <2> HIDE DEF ptr
  <2>5. j \in 0 .. MaxJumps /\ e \in Nat
    <3>1. r.jumps \in 0 .. MaxJumps /\ r.jumps # MaxJumps /\ MaxJumps \in Nat
      BY <1>1, <2>4, Sizes
    <3>2. r.at \in Nat /\ r.end \in Nat
      BY <1>1
    <3> QED BY <3>1, <3>2, SMTT(30)
  <2> HIDE DEF e, j
  <2>6. q \in Reader
    BY <1>1, <2>3, <2>5 DEF Reader
  <2>7. /\ q.state = r.state /\ q.labels = r.labels /\ q.size = r.size /\ q.at = ptr
        /\ q.end = e /\ q.jumps = j
    BY <1>1 DEF Reader
  <2> HIDE DEF q
  <2>8. q.end # 0 /\ q.end \in offset + 1 .. n
    BY <1>1, <1>5, <2>7, SMTT(30) DEF SoundReader, e
  <2>9. SoundReader(buf, offset, q)
    BY <2>6, <2>7, <2>8 DEF SoundReader
  <2> QED BY <1>1, <2>4, <2>7, <2>9 DEF Rounds, j
<1>6. ASSUME r.at < n, length # 0, ~(length >= PtrBits), length <= MaxLabel,
             r.at + 1 + length <= n, ~TooLong(r, length),
             ReadStep(buf, r) = [r EXCEPT !.labels = Append(@, SubSeq(buf, r.at + 2, r.at + 1 + length)),
                                          !.size = @ + 1 + length, !.at = @ + 1 + length]
      PROVE  /\ SoundReader(buf, offset, ReadStep(buf, r))
             /\ Rounds(ReadStep(buf, r)) >= Rounds(r) + 1
  <2> DEFINE l == SubSeq(buf, r.at + 2, r.at + 1 + length)
             grown == Append(r.labels, l)
             size == r.size + 1 + length
             here == r.at + 1 + length
             q == [r EXCEPT !.labels = grown, !.size = size, !.at = here]
  <2>1. length \in 1 .. MaxLabel /\ length \in Nat
    BY <1>1, <1>2, <1>6, Sizes
  <2> HIDE DEF length
  <2>2. l \in Label /\ Len(l) = length
    <3>1. r.at + 2 \in Int /\ r.at + 1 + length \in Int /\ r.at + 2 <= r.at + 1 + length
      BY <1>1, <2>1, SMTT(30)
    <3>2. \A i \in r.at + 2 .. r.at + 1 + length : buf[i] \in Octets
      <4> TAKE i \in r.at + 2 .. r.at + 1 + length
      <4>1. i \in 1 .. n
        BY <1>1, <1>6, <2>1
      <4> QED BY <4>1, ElementOfSeq
    <3>3. l \in Seq(Octets) /\ Len(l) = (r.at + 1 + length) - (r.at + 2) + 1
      BY <3>1, <3>2, SubSeqProperties
    <3>4. Len(l) = length
      BY <1>1, <2>1, <3>3, SMTT(30)
    <3> QED BY <2>1, <3>3, <3>4 DEF Label
  <2> HIDE DEF l
  <2>3. grown \in Seq(Label) /\ Len(Body(grown)) = size
    BY <1>1, <2>2, BodyLonger DEF SoundReader
  <2>4. size \in Nat /\ here \in Nat /\ size < MaxName
    <3>1. ~(r.size + 1 + length + 1 > MaxName)
      BY <1>6 DEF TooLong, length
    <3>2. r.size \in Nat /\ length \in Nat /\ r.at \in Nat
      BY <1>1, <2>1
    <3>3. MaxName \in Nat
      BY Sizes
    <3> QED BY <3>1, <3>2, <3>3, SMTT(30)
  <2>5. ReadStep(buf, r) = q
    BY <1>6 DEF l, length
  <2> HIDE DEF grown
  <2>6. q \in Reader
    <3> HIDE DEF size, here
    <3> QED BY <1>1, <2>3, <2>4 DEF Reader
  <2>7. /\ q.state = r.state /\ q.labels = grown /\ q.size = size /\ q.at = here
        /\ q.end = r.end /\ q.jumps = r.jumps
    BY <1>1 DEF Reader
  <2> HIDE DEF q
  <2>8. SoundReader(buf, offset, q)
    BY <1>1, <2>1, <2>3, <2>4, <2>6, <2>7, SMTT(30) DEF SoundReader
  <2> QED BY <1>1, <2>1, <2>5, <2>7, <2>8, SMTT(30) DEF Rounds
<1>7. Bad(r).state = "malformed"
  BY <1>1 DEF Bad, Reader
<1>8. r.at < n => length \in Nat
  BY <1>1, <1>2, Sizes, SMTT(30)
<1> QED
  <2>1. CASE ReadStep(buf, r) = Bad(r)
    BY <1>3, <1>7, <2>1
  <2>2. CASE ReadStep(buf, r) # Bad(r)
    <3>1. r.at < n
      BY <2>2, <1>1 DEF ReadStep
    <3>2. CASE length = 0
      <4>1. ReadStep(buf, r) = [r EXCEPT !.state = "done", !.end = IF @ = 0 THEN r.at + 1 ELSE @]
        BY <1>1, <3>1, <3>2, Sizes, SMTT(30) DEF ReadStep
      <4>2. ReadStep(buf, r).state = "done"
        BY <4>1, <1>1 DEF Reader
      <4> QED BY <1>4, <3>1, <3>2, <4>1, <4>2
    <3>3. CASE length # 0 /\ length >= PtrBits
      <4>1. r.at + 1 < n /\ ReadStep(buf, r) = Follow(buf, r)
        BY <1>1, <2>2, <3>1, <3>3 DEF ReadStep
      <4> QED BY <1>5, <2>2, <3>3, <4>1
    <3>4. CASE length # 0 /\ ~(length >= PtrBits)
      <4>1. length <= MaxLabel
        BY <1>1, <1>8, <2>2, <3>1, <3>4, Sizes, SMTT(30) DEF ReadStep
      <4>2. /\ r.at + 1 + length <= n /\ ~TooLong(r, length)
            /\ ReadStep(buf, r) = [r EXCEPT !.labels = Append(@, SubSeq(buf, r.at + 2, r.at + 1 + length)),
                                            !.size = @ + 1 + length, !.at = @ + 1 + length]
        BY <1>1, <1>8, <2>2, <3>1, <3>4, <4>1, Sizes, SMTT(30) DEF ReadStep
      <4> QED BY <1>6, <3>1, <3>4, <4>1, <4>2
    <3> QED BY <3>2, <3>3, <3>4
  <2> QED BY <2>1, <2>2

\* A round, if there is one left to do.
Onward(buf, r) == IF r.state = "reading" THEN ReadStep(buf, r) ELSE r

\* g is what is known after each round of readName.
Reading(g, buf, offset) ==
  /\ ReadName(buf, offset) = g[MaxJumps + MaxName]
  /\ g[0] = Start(offset)
  /\ \A h \in 1 .. MaxJumps + MaxName : g[h] = Onward(buf, g[h - 1])

\* The recursive function of ReadName is what it looks like.
LEMMA ReadNameSteps ==
  ASSUME NEW buf, NEW offset
  PROVE  \E g : Reading(g, buf, offset)
<1> DEFINE n == MaxJumps + MaxName
           Steps(g) == [h \in 0 .. n |->
                          IF h = 0 THEN Start(offset)
                          ELSE LET r == g[h - 1]
                               IN  IF r.state = "reading" THEN ReadStep(buf, r) ELSE r]
           W == CHOOSE g : g = Steps(g)
           Run(g, m) == g[0] = Start(offset) /\ \A h \in 1 .. m : g[h] = Onward(buf, g[h - 1])
           T == {m \in Nat : \E g : Run(g, m)}
<1>1. ReadName(buf, offset) = W[n] /\ n \in Nat
  BY Sizes DEF ReadName
<1>2. 0 \in T
  <2> DEFINE g == [h \in 0 .. 0 |-> Start(offset)]
  <2>1. Run(g, 0)
    OBVIOUS
  <2> QED BY <2>1
<1>3. ASSUME NEW m \in T PROVE m + 1 \in T
  <2>1. PICK g : Run(g, m)
    OBVIOUS
  <2> DEFINE k == [h \in 0 .. m + 1 |-> IF h = m + 1 THEN Onward(buf, g[m]) ELSE g[h]]
  <2>2. m \in Nat
    OBVIOUS
  <2>3. k[0] = Start(offset)
    BY <2>1, <2>2
  <2>4. ASSUME NEW h \in 1 .. m + 1 PROVE k[h] = Onward(buf, k[h - 1])
    <3>1. CASE h = m + 1
      <4>1. h \in 0 .. m + 1 /\ h - 1 \in 0 .. m + 1 /\ h - 1 # m + 1 /\ h - 1 = m
        BY <3>1, <2>2
      <4>2. k[h] = Onward(buf, g[m]) /\ k[h - 1] = g[m]
        BY <4>1, <3>1
      <4> QED BY <4>2
    <3>2. CASE h # m + 1
      <4>1. h \in 1 .. m /\ h \in 0 .. m + 1 /\ h - 1 \in 0 .. m + 1 /\ h - 1 # m + 1
        BY <3>2, <2>2
      <4>2. k[h] = g[h] /\ k[h - 1] = g[h - 1]
        BY <4>1, <3>2
      <4> QED BY <4>1, <4>2, <2>1
    <3> QED BY <3>1, <3>2
  <2> HIDE DEF k
  <2>5. Run(k, m + 1)
    BY <2>3, <2>4
  <2> HIDE DEF Run
  <2>6. m + 1 \in Nat /\ \E r : Run(r, m + 1)
    BY <2>2, <2>5
  <2> QED BY <2>6
<1>4. T \in SUBSET Nat
  OBVIOUS
<1> HIDE DEF T
<1>5. n \in T
  BY <1>1, <1>2, <1>3, <1>4, Induction
<1>6. PICK g : Run(g, n)
  BY <1>5 DEF T
<1> DEFINE f == [h \in 0 .. n |-> g[h]]
<1>7. f = Steps(f)
  <2> SUFFICES ASSUME NEW h \in 0 .. n
               PROVE  f[h] = Steps(f)[h]
    OBVIOUS
  <2>1. CASE h = 0
    BY <2>1, <1>6
  <2>2. CASE h # 0
    <3>1. h \in 1 .. n /\ h - 1 \in 0 .. n
      BY <2>2, <1>1
    <3>2. g[h] = Onward(buf, g[h - 1])
      BY <3>1, <1>6
    <3> QED BY <2>2, <3>1, <3>2 DEF Onward
  <2> QED BY <2>1, <2>2
<1> HIDE DEF Steps, f
<1>8. W = Steps(W)
  BY <1>7
<1> HIDE DEF W
<1>9. W[0] = Start(offset)
  BY <1>1, <1>8 DEF Steps
<1>10. ASSUME NEW h \in 1 .. n PROVE W[h] = Onward(buf, W[h - 1])
  <2>1. h \in 0 .. n /\ h # 0
    BY <1>1
  <2>2. Steps(W)[h] = Onward(buf, W[h - 1])
    BY <2>1 DEF Steps, Onward
  <2> QED BY <1>8, <2>2
<1>11. Reading(W, buf, offset)
  BY <1>1, <1>9, <1>10 DEF Reading
<1> QED BY <1>11

\* Whatever a message holds, and wherever in it the reading begins, it ends
\* with a name within the limits or with an error, after as many rounds as a
\* name has bytes and the pointers that may be followed: pointers cannot keep
\* readName in a loop.
THEOREM NameIsRead ==
  ASSUME NEW buf \in Seq(Octets), NEW offset \in Nat
  PROVE  /\ SoundReader(buf, offset, ReadName(buf, offset))
         /\ ReadName(buf, offset).state # "reading"
<1> DEFINE n == MaxJumps + MaxName
<1>g. PICK g : Reading(g, buf, offset)
  BY ReadNameSteps
<1>1. /\ ReadName(buf, offset) = g[n] /\ g[0] = Start(offset)
      /\ \A h \in 1 .. n : g[h] = Onward(buf, g[h - 1])
  BY <1>g DEF Reading
<1>2. n \in Nat
  BY Sizes, SMTT(30)
<1> DEFINE T == {h \in 0 .. n : /\ SoundReader(buf, offset, g[h])
                                /\ g[h].state = "reading" => Rounds(g[h]) >= h}
<1>3. 0 \in T
  <2>1. Rounds(Start(offset)) = 0
    BY DEF Rounds, Start
  <2> QED BY <1>1, <1>2, <2>1, StartSound
<1>4. ASSUME NEW h \in 0 .. n - 1, h \in T PROVE h + 1 \in T
  <2>1. h + 1 \in 1 .. n /\ h + 1 \in 0 .. n /\ (h + 1) - 1 = h /\ h \in Nat
    BY <1>2
  <2>2. SoundReader(buf, offset, g[h]) /\ (g[h].state = "reading" => Rounds(g[h]) >= h)
    BY <1>4
  <2>3. g[h + 1] = Onward(buf, g[h])
    BY <1>1, <2>1
  <2> HIDE DEF T
  <2>4. CASE g[h].state = "reading"
    <3> DEFINE r == ReadStep(buf, g[h])
    <3>1. /\ SoundReader(buf, offset, r)
          /\ r.state = "reading" => Rounds(r) >= Rounds(g[h]) + 1
      BY <2>2, <2>4, StepSound
    <3>2. g[h + 1] = r
      BY <2>3, <2>4 DEF Onward
    <3>3. Rounds(g[h]) \in Nat /\ Rounds(r) \in Nat
      BY <2>2, <3>1, RoundsFew
    <3> HIDE DEF r
    <3>4. r.state = "reading" => Rounds(r) >= h + 1
      BY <2>1, <2>2, <2>4, <3>1, <3>3
    <3> QED BY <2>1, <3>1, <3>2, <3>4 DEF T
  <2>5. CASE g[h].state # "reading"
    BY <2>1, <2>2, <2>3, <2>5 DEF Onward, T
  <2> QED BY <2>4, <2>5
<1> HIDE DEF T
<1>5. n \in T
  BY <1>2, <1>3, <1>4, BoundedInduction
<1>6. SoundReader(buf, offset, g[n]) /\ (g[n].state = "reading" => Rounds(g[n]) >= n)
  BY <1>5 DEF T
<1>7. Rounds(g[n]) \in Nat /\ Rounds(g[n]) < n
  BY <1>6, RoundsFew
<1> QED BY <1>1, <1>2, <1>6, <1>7

-----------------------------------------------------------------------------
(* The first name of a message *)

ReadInv ==
  /\ message \in Messages
  /\ SoundReader(message.buf, Header, reading)

LEMMA MessageType ==
  ASSUME NEW m \in Messages
  PROVE  m.buf \in Seq(Octets) /\ m.count \in Nat
BY WireAssumption DEF Octets

LEMMA ReadInit == Init => ReadInv
BY StartSound, Sizes DEF Init, ReadInv

LEMMA ReadNext == ReadInv /\ [Next]_vars => ReadInv'
<1> SUFFICES ASSUME ReadInv, [Next]_vars PROVE ReadInv'
  OBVIOUS
<1>1. message.buf \in Seq(Octets) /\ Header \in Nat
  BY MessageType, Sizes DEF ReadInv
<1>2. CASE Read
  BY <1>1, <1>2, StepSound DEF Read, ReadInv
<1>3. CASE Answer
  BY <1>3 DEF Answer, ReadInv
<1>4. CASE UNCHANGED vars
  BY <1>4 DEF vars, ReadInv
<1> QED BY <1>2, <1>3, <1>4 DEF Next

LEMMA ReadImplies == ReadInv => NamesFit
<1> SUFFICES ASSUME ReadInv, reading.state = "done"
             PROVE  /\ Len(Bytes(reading.labels)) <= MaxName
                    /\ \A i \in DOMAIN reading.labels : Len(reading.labels[i]) \in 1 .. MaxLabel
                    /\ reading.end \in Header + 1 .. Len(message.buf)
  BY DEF NamesFit
<1>1. /\ reading.labels \in Seq(Label) /\ reading.size \in Nat
      /\ reading.size = Len(Body(reading.labels)) /\ reading.size < MaxName
  BY DEF ReadInv, SoundReader, Reader
<1>2. Len(Bytes(reading.labels)) = reading.size + 1
  BY <1>1, BytesMeaning
<1>3. \A i \in DOMAIN reading.labels : reading.labels[i] \in Label
  BY <1>1
<1> QED BY <1>1, <1>2, <1>3, Sizes, SMTT(30) DEF ReadInv, SoundReader, Label

\* The name of any message is no longer than the format allows, its labels are
\* neither empty nor too long, and it ends within the message (readName).
THEOREM NamesAlwaysFit == Spec => []NamesFit
BY ReadInit, ReadNext, ReadImplies, PTL DEF Spec

-----------------------------------------------------------------------------
(* A name that stands somewhere in a message is read from there *)

Begins(p, s) == Len(p) <= Len(s) /\ \A i \in 1 .. Len(p) : s[i] = p[i]

\* The first i of a sequence.
First(s, i) == SubSeq(s, 1, i)

LEMMA FirstOnes ==
  ASSUME NEW S, NEW s \in Seq(S), NEW i \in 0 .. Len(s)
  PROVE  /\ First(s, i) \in Seq(S) /\ Len(First(s, i)) = i
         /\ First(s, 0) = <<>> /\ First(s, Len(s)) = s
         /\ i < Len(s) => /\ s[i + 1] \in S
                             /\ First(s, i + 1) = Append(First(s, i), s[i + 1])
<1>1. Len(s) \in Nat /\ \A k \in 1 .. Len(s) : s[k] \in S
  BY ElementOfSeq
<1>2. ASSUME NEW j \in 0 .. Len(s)
      PROVE  /\ First(s, j) \in Seq(S) /\ Len(First(s, j)) = j
             /\ \A k \in 1 .. j : First(s, j)[k] = s[k]
  <2>1. 1 \in Int /\ j \in Int /\ \A k \in 1 .. j : s[k] \in S
    BY <1>1
  <2>2. /\ SubSeq(s, 1, j) \in Seq(S)
        /\ Len(SubSeq(s, 1, j)) = IF 1 <= j THEN j - 1 + 1 ELSE 0
        /\ \A k \in 1 .. j - 1 + 1 : SubSeq(s, 1, j)[k] = s[1 + k - 1]
    BY <2>1, SubSeqProperties
  <2>3. Len(SubSeq(s, 1, j)) = j
    BY <1>1, <2>2
  <2>4. \A k \in 1 .. j : SubSeq(s, 1, j)[k] = s[k]
    <3> TAKE k \in 1 .. j
    <3>1. k \in 1 .. j - 1 + 1 /\ 1 + k - 1 = k
      BY <1>1
    <3> QED BY <2>2, <3>1
  <2> QED BY <2>2, <2>3, <2>4 DEF First
<1>3. First(s, 0) = <<>>
  BY SubSeqEmpty DEF First
<1>4. First(s, Len(s)) = s
  BY SubSeqFull DEF First
<1>5. ASSUME i < Len(s)
      PROVE  s[i + 1] \in S /\ First(s, i + 1) = Append(First(s, i), s[i + 1])
  <2> DEFINE a == First(s, i + 1)
             b == First(s, i)
             l == s[i + 1]
             c == Append(b, l)
  <2>1. i + 1 \in 0 .. Len(s) /\ l \in S /\ i \in Nat
    BY <1>1, <1>5
  <2>2. /\ a \in Seq(S) /\ Len(a) = i + 1 /\ \A k \in 1 .. i + 1 : a[k] = s[k]
        /\ b \in Seq(S) /\ Len(b) = i /\ \A k \in 1 .. i : b[k] = s[k]
    BY <1>2, <2>1
  <2> HIDE DEF a, b
  <2>3. /\ c \in Seq(S) /\ Len(c) = i + 1 /\ \A k \in 1 .. i : c[k] = b[k]
        /\ c[i + 1] = l
    BY <2>1, <2>2, AppendProperties
  <2> HIDE DEF c
  <2>4. \A k \in 1 .. Len(a) : a[k] = c[k]
    BY <2>1, <2>2, <2>3
  <2>5. a = c
    BY <2>2, <2>3, <2>4, SeqEqual
  <2> QED BY <2>1, <2>5 DEF a, b, c
<1> QED BY <1>2, <1>3, <1>4, <1>5

LEMMA FirstLabels ==
  ASSUME NEW name \in Seq(Label), NEW i \in 0 .. Len(name)
  PROVE  /\ First(name, i) \in Seq(Label) /\ Len(First(name, i)) = i
         /\ First(name, 0) = <<>> /\ First(name, Len(name)) = name
         /\ i < Len(name) => /\ name[i + 1] \in Label
                             /\ First(name, i + 1) = Append(First(name, i), name[i + 1])
BY FirstOnes

\* How far the first i labels reach.
Reach(name, i) == Len(Body(First(name, i)))

LEMMA BodyBegins ==
  ASSUME NEW name \in Seq(Label), NEW i \in 0 .. Len(name)
  PROVE  /\ Begins(Body(First(name, i)), Body(name))
         /\ i <= Reach(name, i) /\ Reach(name, i) \in Nat
<1> DEFINE n == Len(name)
<1>1. n \in Nat
  OBVIOUS
<1>2. ASSUME NEW j \in 0 .. n
      PROVE  Body(First(name, j)) \in Seq(Octets) /\ Reach(name, j) \in Nat
  BY <1>2, FirstLabels, BodyType DEF Reach
<1>3. ASSUME NEW j \in 0 .. n - 1
      PROVE  /\ Begins(Body(First(name, j)), Body(First(name, j + 1)))
             /\ Reach(name, j + 1) > Reach(name, j)
  <2> DEFINE a == First(name, j)
             l == name[j + 1]
  <2>1. j \in 0 .. n /\ j < n /\ j + 1 \in 0 .. n
    BY <1>1
  <2>2. a \in Seq(Label) /\ l \in Label /\ First(name, j + 1) = Append(a, l)
    BY <2>1, FirstLabels
  <2> HIDE DEF a, l
  <2>3. /\ Len(Body(Append(a, l))) = Len(Body(a)) + 1 + Len(l)
        /\ \A k \in 1 .. Len(Body(a)) : Body(Append(a, l))[k] = Body(a)[k]
    BY <2>2, BodyLonger
  <2>4. Len(Body(a)) \in Nat /\ Len(l) \in Nat
    BY <2>2, BodyType, OctetedType
  <2> DEFINE b == Body(a)
             c == Body(Append(a, l))
  <2>5. Reach(name, j) = Len(b) /\ Reach(name, j + 1) = Len(c)
    BY <2>2 DEF Reach, a
  <2>6. Body(First(name, j)) = b /\ Body(First(name, j + 1)) = c
    BY <2>2 DEF a
  <2> HIDE DEF b, c
  <2>7. /\ Len(b) \in Nat /\ Len(c) = Len(b) + 1 + Len(l)
        /\ \A k \in 1 .. Len(b) : c[k] = b[k]
    BY <2>3, <2>4 DEF b, c
  <2>8. Begins(b, c) /\ Len(c) > Len(b)
    BY <2>4, <2>7 DEF Begins
  <2> QED BY <2>5, <2>6, <2>8
<1>4. \A j \in 0 .. n : j <= Reach(name, j)
  <2> DEFINE T == {j \in 0 .. n : j <= Reach(name, j)}
  <2>1. 0 \in T
    BY <1>1, <1>2
  <2>2. ASSUME NEW j \in 0 .. n - 1, j \in T PROVE j + 1 \in T
    <3>1. Reach(name, j + 1) > Reach(name, j) /\ Reach(name, j) \in Nat
          /\ Reach(name, j + 1) \in Nat /\ j + 1 \in 0 .. n /\ j \in Nat
      BY <1>1, <1>2, <1>3
    <3> QED BY <2>2, <3>1
  <2> HIDE DEF T
  <2>3. \A j \in 0 .. n : j \in T
    BY <1>1, <2>1, <2>2, BoundedInduction
  <2> QED BY <2>3 DEF T
<1>5. Begins(Body(First(name, i)), Body(name))
  <2> DEFINE b(d) == Body(First(name, i + d))
             T == {d \in 0 .. n - i : Begins(b(0), b(d))}
  <2>1. n - i \in Nat /\ i + 0 = i /\ i + (n - i) = n
    BY <1>1
  <2>2. 0 \in T
    <3>1. Len(b(0)) \in Nat
      BY <1>2, <2>1
    <3> QED BY <2>1, <3>1 DEF Begins
  <2>3. ASSUME NEW d \in 0 .. (n - i) - 1, d \in T PROVE d + 1 \in T
    <3>1. i + d \in 0 .. n - 1 /\ (i + d) + 1 = i + (d + 1) /\ i + d \in 0 .. n
          /\ i + (d + 1) \in 0 .. n /\ i \in 0 .. n /\ d + 1 \in 0 .. n - i
      BY <1>1
    <3>2. Begins(b(d), b(d + 1)) /\ Begins(b(0), b(d))
      BY <1>3, <2>3, <3>1
    <3>3. Len(b(d)) \in Nat /\ Len(b(d + 1)) \in Nat /\ Len(b(0)) \in Nat
      BY <1>2, <2>1, <3>1 DEF Reach
    <3> HIDE DEF b
    <3>4. Begins(b(0), b(d + 1))
      BY <3>2, <3>3 DEF Begins
    <3> QED BY <3>1, <3>4
  <2> DEFINE N == n - i
  <2> HIDE DEF T
  <2>a. N \in Nat /\ 0 \in T /\ \A d \in 0 .. N - 1 : d \in T => d + 1 \in T
    BY <2>1, <2>2, <2>3
  <2> HIDE DEF N
  <2>b. \A d \in 0 .. N : d \in T
    BY <2>a, BoundedInduction
  <2>c. N \in 0 .. N
    BY <2>a
  <2>4. n - i \in T
    BY <2>b, <2>c DEF N
  <2>5. Begins(Body(First(name, i)), Body(First(name, n)))
    BY <2>1, <2>4 DEF T
  <2> QED BY <2>5, FirstLabels
<1> QED BY <1>2, <1>4, <1>5

\* Behind the first i labels stands the next one.
LEMMA BodyNext ==
  ASSUME NEW name \in Seq(Label), NEW i \in 0 .. Len(name) - 1
  PROVE  LET l == name[i + 1]
             p == Reach(name, i)
         IN  /\ l \in Label /\ First(name, i + 1) = Append(First(name, i), l)
             /\ Reach(name, i + 1) = p + 1 + Len(l)
             /\ Reach(name, i + 1) <= Len(Body(name))
             /\ p \in Nat /\ Bytes(name)[p + 1] = Len(l)
             /\ \A k \in 1 .. Len(l) : Bytes(name)[p + 1 + k] = l[k]
<1> DEFINE l == name[i + 1]
           p == Reach(name, i)
           a == First(name, i)
           more == First(name, i + 1)
<1>1. i \in 0 .. Len(name) /\ i < Len(name) /\ i + 1 \in 0 .. Len(name)
  OBVIOUS
<1>2. a \in Seq(Label) /\ l \in Label /\ more = Append(a, l) /\ more \in Seq(Label)
  BY <1>1, FirstLabels
<1>3. /\ Octeted(l)[1] = Len(l) /\ Len(l) \in Nat
      /\ \A k \in 1 .. Len(l) : Octeted(l)[1 + k] = l[k]
  BY <1>2, OctetedType
<1>4. p = Len(Body(a)) /\ p \in Nat /\ Reach(name, i + 1) = Len(Body(more))
  BY <1>2, BodyType DEF Reach
<1> HIDE DEF l, p, a, more
<1>5. /\ Len(Body(more)) = p + 1 + Len(l)
      /\ \A k \in 1 .. 1 + Len(l) : Body(more)[p + k] = Octeted(l)[k]
  BY <1>2, <1>4, BodyLonger
<1>6. Begins(Body(more), Body(name))
  BY <1>1, BodyBegins DEF more
<1>7. Len(Body(name)) \in Nat
  BY BodyType
<1>8. \A j \in 1 .. Len(Body(more)) : Bytes(name)[j] = Body(more)[j]
  <2> TAKE j \in 1 .. Len(Body(more))
  <2>1. Body(name)[j] = Body(more)[j] /\ j \in 1 .. Len(Body(name))
    BY <1>4, <1>5, <1>3, <1>6, <1>7 DEF Begins
  <2> QED BY <2>1, BytesMeaning
<1>9. Bytes(name)[p + 1] = Len(l)
  <2>1. p + 1 \in 1 .. Len(Body(more)) /\ 1 \in 1 .. 1 + Len(l)
    BY <1>3, <1>4, <1>5
  <2> QED BY <2>1, <1>3, <1>5, <1>8
<1>10. \A k \in 1 .. Len(l) : Bytes(name)[p + 1 + k] = l[k]
  <2> TAKE k \in 1 .. Len(l)
  <2>1. /\ p + 1 + k \in 1 .. Len(Body(more)) /\ 1 + k \in 1 .. 1 + Len(l)
        /\ p + (1 + k) = p + 1 + k
    BY <1>3, <1>4, <1>5
  <2> QED BY <2>1, <1>3, <1>5, <1>8
<1>11. Len(Body(more)) <= Len(Body(name))
  BY <1>6 DEF Begins
<1> QED BY <1>2, <1>4, <1>5, <1>9, <1>10, <1>11 DEF l, p, a, more

\* A name within the limits of the format.
FitName(name) == name \in Seq(Label) /\ Len(Body(name)) < MaxName

\* The bytes of the name are in buf, at offset.
Stands(buf, offset, name) ==
  /\ offset + Len(Body(name)) < Len(buf)
  /\ \A k \in 1 .. Len(Body(name)) + 1 : buf[offset + k] = Bytes(name)[k]

\* A reader that has just come to a name.
Arrived(r, offset) ==
  r \in Reader /\ r.state = "reading" /\ r.at = offset /\ r.labels = <<>> /\ r.size = 0

\* The reader after i of the name's labels, and after the name.
Midway(r, name, i) ==
  [r EXCEPT !.labels = First(name, i), !.size = Reach(name, i), !.at = r.at + Reach(name, i)]
Behind(r, name) ==
  [Midway(r, name, Len(name)) EXCEPT
     !.state = "done", !.end = IF @ = 0 THEN r.at + Len(Body(name)) + 1 ELSE @]

LEMMA MidwayFields ==
  ASSUME NEW r, NEW offset \in Nat, Arrived(r, offset),
         NEW name \in Seq(Label), NEW i \in 0 .. Len(name)
  PROVE  /\ Midway(r, name, i) \in Reader
         /\ Midway(r, name, i).state = "reading" /\ Midway(r, name, i).labels = First(name, i)
         /\ Midway(r, name, i).size = Reach(name, i) /\ Midway(r, name, i).end = r.end
         /\ Midway(r, name, i).at = offset + Reach(name, i)
         /\ Midway(r, name, i).jumps = r.jumps
<1> DEFINE a == First(name, i)
           p == Reach(name, i)
<1>1. a \in Seq(Label) /\ p \in Nat
  BY FirstLabels, BodyBegins
<1>2. r \in Reader /\ r.state = "reading" /\ r.at = offset
  BY DEF Arrived
<1> HIDE DEF a, p
<1>3. offset + p \in Nat
  BY <1>1
<1> DEFINE q == [r EXCEPT !.labels = a, !.size = p, !.at = offset + p]
<1>4. q \in Reader
  BY <1>1, <1>2, <1>3 DEF Reader
<1>5. /\ q.state = "reading" /\ q.labels = a /\ q.size = p /\ q.end = r.end
      /\ q.at = offset + p /\ q.jumps = r.jumps
  BY <1>2 DEF Reader
<1>6. q = Midway(r, name, i)
  BY <1>2 DEF Midway, a, p
<1> HIDE DEF q
<1> QED BY <1>4, <1>5, <1>6 DEF a, p

LEMMA LabelRead ==
  ASSUME NEW buf \in Seq(Octets), NEW offset \in Nat, NEW name, FitName(name),
         Stands(buf, offset, name), NEW r, Arrived(r, offset), NEW i \in 0 .. Len(name) - 1
  PROVE  ReadStep(buf, Midway(r, name, i)) = Midway(r, name, i + 1)
<1> DEFINE m == Midway(r, name, i)
           p == Reach(name, i)
           l == name[i + 1]
           b == Len(Body(name))
<1>1. name \in Seq(Label) /\ b \in Nat /\ b < MaxName /\ Len(buf) \in Nat
  BY BodyType DEF FitName
<1>2. /\ l \in Label /\ First(name, i + 1) = Append(First(name, i), l)
      /\ Reach(name, i + 1) = p + 1 + Len(l) /\ p + 1 + Len(l) <= b
      /\ p \in Nat /\ Bytes(name)[p + 1] = Len(l)
      /\ \A k \in 1 .. Len(l) : Bytes(name)[p + 1 + k] = l[k]
  BY <1>1, BodyNext
<1>3. l \in Seq(Octets) /\ Len(l) \in 1 .. MaxLabel /\ Len(l) \in Nat
  BY <1>2, OctetedType
<1>4. /\ m \in Reader /\ m.labels = First(name, i) /\ m.size = p /\ m.at = offset + p
  BY <1>1, MidwayFields
<1>5. offset + b < Len(buf) /\ \A k \in 1 .. b + 1 : buf[offset + k] = Bytes(name)[k]
  BY DEF Stands
<1>6. Midway(r, name, i + 1) = [m EXCEPT !.labels = Append(@, l), !.size = @ + 1 + Len(l),
                                         !.at = @ + 1 + Len(l)]
  <2>1. r \in Reader /\ r.at = offset
    BY DEF Arrived
  <2> DEFINE s == p + 1 + Len(l)
             a == First(name, i)
             c == First(name, i + 1)
  <2>2. m = [r EXCEPT !.labels = a, !.size = p, !.at = offset + p]
    BY <2>1 DEF Midway
  <2>3. Midway(r, name, i + 1) = [r EXCEPT !.labels = c, !.size = s, !.at = offset + s]
    BY <1>2, <2>1 DEF Midway
  <2>a. c = Append(a, l)
    BY <1>2
  <2>b. (offset + p) + 1 + Len(l) = offset + (p + 1 + Len(l))
    <3> HIDE DEF p, l
    <3> QED BY <1>2, <1>3
  <2>4. c = Append(a, l) /\ p + 1 + Len(l) = s /\ (offset + p) + 1 + Len(l) = offset + s
    BY <2>a, <2>b
  <2> HIDE DEF a, c, s, m, l, p
  <2> QED BY <2>1, <2>2, <2>3, <2>4 DEF Reader
<1> HIDE DEF m, p, l, b
<1>7. At(buf, m.at) = Len(l)
  <2>1. p + 1 \in 1 .. b + 1 /\ offset + (p + 1) = (offset + p) + 1
    BY <1>1, <1>2, <1>3
  <2>2. buf[offset + (p + 1)] = Len(l)
    BY <1>2, <1>5, <2>1
  <2> QED BY <1>4, <2>1, <2>2 DEF At
<1>8. SubSeq(buf, m.at + 2, m.at + 1 + Len(l)) = l
  <2> DEFINE from == offset + p + 2
             to == offset + p + 1 + Len(l)
             u == SubSeq(buf, from, to)
  <2>1. from \in Int /\ to \in Int /\ from <= to /\ to - from + 1 = Len(l)
    BY <1>2, <1>3
  <2>2. \A j \in from .. to : buf[j] \in Octets
    <3> TAKE j \in from .. to
    <3>1. j \in 1 .. Len(buf)
      BY <1>1, <1>2, <1>3, <1>5
    <3> QED BY <3>1, ElementOfSeq
  <2>3. /\ u \in Seq(Octets) /\ Len(u) = to - from + 1
        /\ \A j \in 1 .. to - from + 1 : u[j] = buf[from + j - 1]
    <3> HIDE DEF from, to
    <3> QED BY <2>1, <2>2, SubSeqProperties
  <2>4. ASSUME NEW j \in 1 .. Len(l) PROVE u[j] = l[j]
    <3>a. j \in 1 .. to - from + 1 /\ j \in Nat
      <4> HIDE DEF from, to
      <4> QED BY <2>1, <1>3
    <3>b. from + j - 1 = offset + (p + 1 + j)
      BY <1>2, <3>a
    <3>c. p + 1 + j \in 1 .. b + 1
      BY <1>1, <1>2, <1>3, <3>a
    <3>1. /\ j \in 1 .. to - from + 1 /\ from + j - 1 = offset + (p + 1 + j)
          /\ p + 1 + j \in 1 .. b + 1
      BY <3>a, <3>b, <3>c
    <3> QED BY <3>1, <2>3, <1>2, <1>5
  <2>5. m.at + 2 = from /\ m.at + 1 + Len(l) = to
    BY <1>4
  <2> HIDE DEF u
  <2>6. u = l
    BY <1>3, <2>1, <2>3, <2>4, SeqEqual
  <2> QED BY <2>5, <2>6 DEF u
<1>9. m.at < Len(buf) /\ m.at + 1 + Len(l) <= Len(buf) /\ ~TooLong(m, Len(l))
  <2>1. m.at < Len(buf) /\ m.at + 1 + Len(l) <= Len(buf)
    <3>1. /\ b \in Nat /\ Len(buf) \in Nat /\ p \in Nat /\ Len(l) \in Nat
          /\ p + 1 + Len(l) <= b /\ offset + b < Len(buf)
      BY <1>1, <1>2, <1>3, <1>5
    <3>2. offset + p < Len(buf) /\ offset + p + 1 + Len(l) <= Len(buf)
      BY <3>1
    <3> QED BY <1>4, <3>2
  <2>2. ~(p + 1 + Len(l) + 1 > MaxName)
    <3>1. MaxName \in Nat
      BY Sizes
    <3> QED BY <1>1, <1>2, <1>3, <3>1
  <2> QED BY <1>4, <2>1, <2>2 DEF TooLong
<1>10. Len(l) # 0 /\ ~(Len(l) >= PtrBits) /\ ~(Len(l) > MaxLabel /\ Len(l) < PtrBits)
  BY <1>3, Sizes, SMTT(30)
<1>11. m.at \in Nat
  BY <1>4 DEF Reader
<1>12. ReadStep(buf, m) = [m EXCEPT !.labels = Append(@, SubSeq(buf, m.at + 2, m.at + 1 + Len(l))),
                                    !.size = @ + 1 + Len(l), !.at = @ + 1 + Len(l)]
  BY <1>1, <1>3, <1>7, <1>9, <1>10, <1>11, SMTT(30) DEF ReadStep
<1> QED BY <1>6, <1>8, <1>12 DEF m

LEMMA EndRead ==
  ASSUME NEW buf \in Seq(Octets), NEW offset \in Nat, NEW name, FitName(name),
         Stands(buf, offset, name), NEW r, Arrived(r, offset)
  PROVE  ReadStep(buf, Midway(r, name, Len(name))) = Behind(r, name)
<1> DEFINE m == Midway(r, name, Len(name))
           b == Len(Body(name))
<1>1. name \in Seq(Label) /\ b \in Nat /\ Len(buf) \in Nat /\ Len(name) \in 0 .. Len(name)
  BY BodyType DEF FitName
<1>2. Reach(name, Len(name)) = b
  BY <1>1, FirstLabels DEF Reach
<1>3. m \in Reader /\ m.at = offset + b /\ r.at = offset
  BY <1>1, <1>2, MidwayFields DEF Arrived
<1>4. At(buf, m.at) = 0 /\ m.at < Len(buf)
  <2>1. b + 1 \in 1 .. b + 1 /\ offset + (b + 1) = (offset + b) + 1
    BY <1>1
  <2>2. buf[offset + (b + 1)] = 0
    BY <1>1, <2>1, BytesMeaning DEF Stands
  <2>3. offset + b < Len(buf)
    BY DEF Stands
  <2> QED BY <1>3, <2>1, <2>2, <2>3 DEF At
<1>5. Behind(r, name) = [m EXCEPT !.state = "done", !.end = IF @ = 0 THEN m.at + 1 ELSE @]
  BY <1>3 DEF Behind
<1> HIDE DEF m
<1>6. ~(m.at >= Len(buf))
  BY <1>1, <1>3, <1>4 DEF Reader
<1>7. ReadStep(buf, m) = [m EXCEPT !.state = "done", !.end = IF @ = 0 THEN m.at + 1 ELSE @]
  BY <1>4, <1>6, Sizes, SMTT(30) DEF ReadStep
<1> QED BY <1>5, <1>7 DEF m

\* From where a reader has arrived at a name, it is behind it after as many
\* rounds as the name has labels, and one.
LEMMA NameInRounds ==
  ASSUME NEW buf \in Seq(Octets), NEW offset \in Nat, NEW name, FitName(name),
         Stands(buf, offset, name), NEW N \in Nat, NEW g,
         \A h \in 1 .. N : g[h] = Onward(buf, g[h - 1]),
         NEW begin \in 0 .. N, Arrived(g[begin], offset), begin + Len(name) + 1 <= N
  PROVE  g[N] = Behind(g[begin], name)
<1> DEFINE r == g[begin]
           n == Len(name)
<1>1. n \in Nat /\ name \in Seq(Label)
  BY DEF FitName
<1>2. r \in Reader /\ r.at = offset
  BY DEF Arrived
<1> DEFINE T == {i \in 0 .. n : g[begin + i] = Midway(r, name, i)}
<1>3. 0 \in T
  <2>1. First(name, 0) = <<>> /\ Reach(name, 0) = 0
    BY <1>1, FirstLabels, BodyNone DEF Reach
  <2>2. begin + 0 = begin /\ 0 \in 0 .. n /\ offset + 0 = offset
    BY <1>1
  <2>3. Midway(r, name, 0) = [r EXCEPT !.labels = <<>>, !.size = 0, !.at = offset]
    BY <1>2, <2>1, <2>2 DEF Midway
  <2>4. r.labels = <<>> /\ r.size = 0
    BY DEF Arrived
  <2> DEFINE none == <<>>
             q == [r EXCEPT !.labels = none, !.size = 0, !.at = offset]
  <2>a. q = Midway(r, name, 0) /\ r.labels = none
    BY <2>3, <2>4
  <2> HIDE DEF r, none
  <2>b. q = r
    BY <1>2, <2>a, <2>4 DEF Reader
  <2>5. Midway(r, name, 0) = r
    BY <2>a, <2>b
  <2> QED BY <2>2, <2>5 DEF r
<1>4. ASSUME NEW i \in 0 .. n - 1, i \in T PROVE i + 1 \in T
  <2>1. /\ i + 1 \in 0 .. n /\ begin + (i + 1) \in 1 .. N /\ (begin + (i + 1)) - 1 = begin + i
        /\ i \in 0 .. n
    BY <1>1
  <2>2. g[begin + (i + 1)] = Onward(buf, Midway(r, name, i))
    BY <1>4, <2>1
  <2>3. Midway(r, name, i).state = "reading"
    BY <1>1, <2>1, MidwayFields
  <2>4. ReadStep(buf, Midway(r, name, i)) = Midway(r, name, i + 1)
    BY LabelRead
  <2> QED BY <2>1, <2>2, <2>3, <2>4 DEF Onward
<1>5. n \in T
  <2> HIDE DEF T
  <2>1. n \in 0 .. n
    BY <1>1
  <2> QED BY <1>1, <1>3, <1>4, <2>1, BoundedInduction
<1>6. g[begin + n + 1] = Behind(r, name)
  <2>1. begin + n + 1 \in 1 .. N /\ (begin + n + 1) - 1 = begin + n /\ n \in 0 .. n
    BY <1>1
  <2>2. g[begin + n + 1] = Onward(buf, Midway(r, name, n))
    BY <1>5, <2>1
  <2>3. Midway(r, name, n).state = "reading"
    BY <1>1, <2>1, MidwayFields
  <2>4. ReadStep(buf, Midway(r, name, n)) = Behind(r, name)
    BY EndRead
  <2> QED BY <2>2, <2>3, <2>4 DEF Onward
<1>7. Behind(r, name).state = "done"
  <2>1. Midway(r, name, n) \in Reader
    BY <1>1, MidwayFields
  <2> QED BY <2>1 DEF Behind, Reader
<1> HIDE DEF T
<1> DEFINE D == N - (begin + n + 1)
           U == {d \in 0 .. D : g[begin + n + 1 + d] = Behind(r, name)}
<1>8. D \in Nat /\ (begin + n + 1) + D = N /\ begin \in Nat
  BY <1>1
<1>9. 0 \in U
  <2>1. begin + n + 1 + 0 = begin + n + 1
    BY <1>1, <1>8
  <2> QED BY <1>6, <1>8, <2>1
<1>10. ASSUME NEW d \in 0 .. D - 1, d \in U PROVE d + 1 \in U
  <2>1. /\ d + 1 \in 0 .. D /\ begin + n + 1 + (d + 1) \in 1 .. N
        /\ (begin + n + 1 + (d + 1)) - 1 = begin + n + 1 + d
    BY <1>1, <1>8
  <2>2. g[begin + n + 1 + (d + 1)] = Onward(buf, g[begin + n + 1 + d])
    BY <2>1
  <2> QED BY <1>7, <1>10, <2>1, <2>2 DEF Onward
<1>11. D \in U
  <2> HIDE DEF U, D
  <2>1. D \in 0 .. D
    BY <1>8
  <2> QED BY <1>8, <1>9, <1>10, <2>1, BoundedInduction
<1> QED BY <1>8, <1>11

LEMMA BehindFields ==
  ASSUME NEW r, NEW offset \in Nat, Arrived(r, offset), NEW name \in Seq(Label)
  PROVE  /\ Behind(r, name).state = "done" /\ Behind(r, name).labels = name
         /\ Behind(r, name).end = IF r.end = 0 THEN offset + Len(Body(name)) + 1 ELSE r.end
<1> DEFINE m == Midway(r, name, Len(name))
<1>1. Len(name) \in 0 .. Len(name)
  OBVIOUS
<1>2. m \in Reader /\ m.labels = name /\ m.end = r.end /\ r.at = offset
  BY <1>1, MidwayFields, FirstLabels DEF Arrived
<1> HIDE DEF m
<1> DEFINE q == [m EXCEPT !.state = "done", !.end = IF @ = 0 THEN offset + Len(Body(name)) + 1 ELSE @]
<1>3. q.state = "done" /\ q.labels = m.labels
      /\ q.end = IF m.end = 0 THEN offset + Len(Body(name)) + 1 ELSE m.end
  BY <1>2 DEF Reader
<1>4. q = Behind(r, name)
  BY <1>2 DEF Behind, m
<1> HIDE DEF q
<1> QED BY <1>2, <1>3, <1>4

\* What was found at a place of a message: a name, and where it ends there.
Found(buf, offset, name, end) ==
  LET r == ReadName(buf, offset) IN r.state = "done" /\ r.labels = name /\ r.end = end

\* A name that was written is read again as it was: readName undoes
\* domainToBytes, wherever in a message the name stands.
THEOREM WrittenNameRead ==
  ASSUME NEW buf \in Seq(Octets), NEW offset \in Nat, NEW name, FitName(name),
         Stands(buf, offset, name)
  PROVE  Found(buf, offset, name, offset + Len(Bytes(name)))
<1> DEFINE N == MaxJumps + MaxName
           r == Start(offset)
<1>1. PICK g : Reading(g, buf, offset)
  BY ReadNameSteps
<1>2. /\ ReadName(buf, offset) = g[N] /\ g[0] = r
      /\ \A h \in 1 .. N : g[h] = Onward(buf, g[h - 1])
  BY <1>1 DEF Reading
<1>3. name \in Seq(Label) /\ Len(Body(name)) \in Nat /\ Len(Body(name)) < MaxName
  BY BodyType DEF FitName
<1>4. Arrived(r, offset) /\ r.end = 0
  BY Sizes DEF Start, Reader, Arrived
<1>5. 0 + Len(name) + 1 <= N /\ N \in Nat /\ 0 \in 0 .. N
  <2>1. Len(name) \in 0 .. Len(name)
    BY <1>3
  <2>2. Len(name) <= Len(Body(name))
    BY <1>3, <2>1, BodyBegins, FirstLabels DEF Reach
  <2>3. Len(name) \in Nat /\ MaxJumps \in Nat /\ MaxName \in Nat
    BY <1>3, Sizes
  <2> QED BY <1>3, <2>2, <2>3
<1> HIDE DEF N, r
<1>6. g[N] = Behind(r, name)
  <2>1. Arrived(g[0], offset)
    BY <1>2, <1>4
  <2>2. g[N] = Behind(g[0], name)
    BY <1>2, <1>5, <2>1, NameInRounds
  <2> QED BY <1>2, <2>2
<1>7. offset + Len(Body(name)) + 1 = offset + Len(Bytes(name))
  <2>1. Len(Bytes(name)) = Len(Body(name)) + 1
    BY <1>3, BytesMeaning
  <2> QED BY <1>3, <2>1
<1> QED BY <1>2, <1>3, <1>4, <1>6, <1>7, BehindFields DEF Found

\* Where a pointer to the name stands in buf.
Points(buf, place, offset) ==
  /\ place + 1 < Len(buf) /\ offset < place
  /\ At(buf, place) >= PtrBits
  /\ (At(buf, place) - PtrBits) * Byte + At(buf, place + 1) = offset

\* The same where a pointer to it was written in its place.
THEOREM PointedNameRead ==
  ASSUME NEW buf \in Seq(Octets), NEW offset \in Nat, NEW name, FitName(name),
         Stands(buf, offset, name), NEW place \in Nat, Points(buf, place, offset)
  PROVE  Found(buf, place, name, place + 2)
<1> DEFINE N == MaxJumps + MaxName
           s == Start(place)
           r == [s EXCEPT !.at = offset, !.jumps = 1, !.end = place + 2]
<1>1. PICK g : Reading(g, buf, place)
  BY ReadNameSteps
<1>2. /\ ReadName(buf, place) = g[N] /\ g[0] = s
      /\ \A h \in 1 .. N : g[h] = Onward(buf, g[h - 1])
  BY <1>1 DEF Reading
<1>3. name \in Seq(Label) /\ Len(Body(name)) \in Nat /\ Len(Body(name)) < MaxName
  BY BodyType DEF FitName
<1>4. Arrived(r, offset) /\ r.end = place + 2 /\ r.end # 0
  <2>1. s \in Reader /\ s.state = "reading" /\ s.labels = <<>> /\ s.size = 0
    BY Sizes DEF Start, Reader
  <2>2. 1 \in 0 .. MaxJumps /\ place + 2 \in Nat /\ place + 2 # 0
    BY Sizes, SMTT(30)
  <2> HIDE DEF s
  <2>3. r \in Reader
    BY <2>1, <2>2 DEF Reader
  <2> QED BY <2>1, <2>2, <2>3 DEF Arrived, Reader
<1>5. 1 + Len(name) + 1 <= N /\ N \in Nat /\ 1 \in 0 .. N /\ 1 \in 1 .. N
  <2>1. Len(name) \in 0 .. Len(name)
    BY <1>3
  <2>2. Len(name) <= Len(Body(name))
    BY <1>3, <2>1, BodyBegins, FirstLabels DEF Reach
  <2>3. Len(name) \in Nat /\ MaxJumps \in Nat /\ MaxName \in Nat /\ MaxJumps > 0
    BY <1>3, Sizes
  <2> QED BY <1>3, <2>2, <2>3
<1>6. Onward(buf, s) = r
  <2>1. s.state = "reading" /\ s.at = place /\ s.end = 0 /\ s.jumps = 0
    BY DEF Start
  <2>2. /\ ~(place >= Len(buf)) /\ ~(place + 1 >= Len(buf)) /\ Len(buf) \in Nat
        /\ At(buf, place) \in Nat /\ At(buf, place) # 0 /\ At(buf, place) >= PtrBits
    <3>1. place + 1 \in 1 .. Len(buf) /\ Len(buf) \in Nat
      BY DEF Points
    <3>2. At(buf, place) \in Octets
      BY <3>1, ElementOfSeq DEF At
    <3>3. At(buf, place) \in Nat
      BY <3>2, Sizes DEF Octets
    <3> QED BY <3>1, <3>3, Sizes, SMTT(30) DEF Points
  <2> DEFINE length == At(buf, place)
  <2>a. ReadStep(buf, s) = CASE length = 0 ->
                  [s EXCEPT !.state = "done", !.end = IF @ = 0 THEN s.at + 1 ELSE @]
             [] length >= PtrBits ->
                  IF s.at + 1 >= Len(buf) THEN Bad(s) ELSE Follow(buf, s)
             [] length > MaxLabel /\ length < PtrBits -> Bad(s)
             [] OTHER ->
                  IF s.at + 1 + length > Len(buf) \/ TooLong(s, length) THEN Bad(s)
                  ELSE [s EXCEPT !.labels = Append(@, SubSeq(buf, s.at + 2, s.at + 1 + length)),
                                 !.size = @ + 1 + length, !.at = @ + 1 + length]
    BY <2>1, <2>2 DEF ReadStep
  <2>b. length # 0 /\ length >= PtrBits /\ ~(length > MaxLabel /\ length < PtrBits)
    BY <2>2, Sizes, SMTT(30)
  <2> HIDE DEF length, s
  <2>3. ReadStep(buf, s) = Follow(buf, s)
    BY <2>1, <2>2, <2>a, <2>b
  <2>4. Follow(buf, s) = [s EXCEPT !.at = offset, !.jumps = @ + 1,
                                   !.end = IF @ = 0 THEN place + 2 ELSE @]
    <3>1. (At(buf, s.at) - PtrBits) * Byte + At(buf, s.at + 1) = offset
      BY <2>1 DEF Points
    <3>2. ~(offset >= s.at) /\ s.jumps # MaxJumps
      BY <2>1, Sizes DEF Points
    <3> QED BY <2>1, <3>1, <3>2 DEF Follow
  <2> HIDE DEF s
  <2>5. Follow(buf, s) = r
    BY <2>1, <2>4
  <2> QED BY <2>1, <2>3, <2>5 DEF Onward
<1>7. g[1] = r
  <2>1. g[1] = Onward(buf, g[1 - 1]) /\ 1 - 1 = 0
    BY <1>2, <1>5
  <2> QED BY <1>2, <1>6, <2>1
<1> HIDE DEF N, r, s
<1>8. g[N] = Behind(r, name)
  <2>1. Arrived(g[1], offset)
    BY <1>4, <1>7
  <2>2. g[N] = Behind(g[1], name)
    BY <1>2, <1>5, <2>1, NameInRounds
  <2> QED BY <1>7, <2>2
<1> QED BY <1>2, <1>3, <1>4, <1>8, BehindFields DEF Found

-----------------------------------------------------------------------------
(* Messages that begin alike *)

LEMMA BeginsLonger ==
  ASSUME NEW S, NEW s \in Seq(S), NEW t \in Seq(S)
  PROVE  /\ Begins(s, s \o t) /\ s \o t \in Seq(S) /\ Len(s \o t) = Len(s) + Len(t)
         /\ \A k \in 1 .. Len(t) : (s \o t)[Len(s) + k] = t[k]
<1>1. /\ s \o t \in Seq(S) /\ Len(s \o t) = Len(s) + Len(t)
      /\ \A i \in 1 .. Len(s) + Len(t) : (s \o t)[i] = IF i <= Len(s) THEN s[i] ELSE t[i - Len(s)]
  BY ConcatProperties
<1>2. Len(s) \in Nat /\ Len(t) \in Nat
  OBVIOUS
<1>3. ASSUME NEW i \in 1 .. Len(s) PROVE (s \o t)[i] = s[i]
  <2>1. i \in 1 .. Len(s) + Len(t) /\ i <= Len(s)
    BY <1>2
  <2> QED BY <1>1, <2>1
<1>4. ASSUME NEW k \in 1 .. Len(t) PROVE (s \o t)[Len(s) + k] = t[k]
  <2>1. Len(s) + k \in 1 .. Len(s) + Len(t) /\ ~(Len(s) + k <= Len(s)) /\ (Len(s) + k) - Len(s) = k
    BY <1>2
  <2> QED BY <1>1, <2>1
<1> QED BY <1>1, <1>2, <1>3, <1>4 DEF Begins

LEMMA BeginsBoth ==
  ASSUME NEW S, NEW p \in Seq(S), NEW s \in Seq(S), NEW t, Begins(p, s), Begins(s, t)
  PROVE  Begins(p, t)
<1>1. Len(p) \in Nat /\ Len(s) \in Nat
  OBVIOUS
<1>2. Len(p) <= Len(s) /\ Len(s) <= Len(t)
  BY DEF Begins
<1>3. ASSUME NEW i \in 1 .. Len(p) PROVE t[i] = p[i]
  <2>1. i \in 1 .. Len(s)
    BY <1>1, <1>2
  <2> QED BY <2>1 DEF Begins
<1>4. CASE Len(t) \in Int
  BY <1>1, <1>2, <1>3, <1>4 DEF Begins
<1> QED BY <1>4

LEMMA StandsLonger ==
  ASSUME NEW p \in Seq(Octets), NEW buf \in Seq(Octets), Begins(p, buf),
         NEW offset \in Nat, NEW name \in Seq(Label), Stands(p, offset, name)
  PROVE  Stands(buf, offset, name)
<1>1. Len(p) \in Nat /\ Len(buf) \in Nat /\ Len(p) <= Len(buf) /\ Len(Body(name)) \in Nat
  BY BodyType DEF Begins
<1>2. offset + Len(Body(name)) < Len(p)
  BY DEF Stands
<1>3. ASSUME NEW k \in 1 .. Len(Body(name)) + 1 PROVE buf[offset + k] = Bytes(name)[k]
  <2>1. offset + k \in 1 .. Len(p)
    BY <1>1, <1>2
  <2> QED BY <2>1 DEF Stands, Begins
<1> QED BY <1>1, <1>2, <1>3 DEF Stands

\* What is in a message up to n.
LEMMA UpTo ==
  ASSUME NEW buf \in Seq(Octets), NEW n \in 0 .. Len(buf)
  PROVE  /\ SubSeq(buf, 1, n) \in Seq(Octets) /\ Len(SubSeq(buf, 1, n)) = n
         /\ Begins(SubSeq(buf, 1, n), buf)
<1>1. Len(buf) \in Nat /\ \A k \in 1 .. Len(buf) : buf[k] \in Octets
  BY ElementOfSeq
<1>2. 1 \in Int /\ n \in Int /\ n <= Len(buf) /\ \A k \in 1 .. n : buf[k] \in Octets
  BY <1>1
<1> DEFINE u == SubSeq(buf, 1, n)
<1>3. /\ u \in Seq(Octets) /\ Len(u) = IF 1 <= n THEN n - 1 + 1 ELSE 0
      /\ \A k \in 1 .. n - 1 + 1 : u[k] = buf[1 + k - 1]
  BY <1>2, SubSeqProperties
<1> HIDE DEF u
<1>4. Len(u) = n
  BY <1>2, <1>3
<1>5. \A k \in 1 .. n : u[k] = buf[k]
  <2> TAKE k \in 1 .. n
  <2>1. k \in 1 .. n - 1 + 1 /\ 1 + k - 1 = k
    BY <1>2
  <2> QED BY <1>3, <2>1
<1> QED BY <1>2, <1>3, <1>4, <1>5 DEF Begins, u

\* A round in what a message begins with is one in the message.
LEMMA StepAlike ==
  ASSUME NEW p \in Seq(Octets), NEW buf \in Seq(Octets), Begins(p, buf), NEW offset \in Nat,
         NEW r, SoundReader(p, offset, r), ReadStep(p, r).state # "malformed"
  PROVE  ReadStep(buf, r) = ReadStep(p, r)
<1> DEFINE length == At(p, r.at)
<1>1. r \in Reader /\ r.at \in Nat /\ Len(p) \in Nat /\ Len(buf) \in Nat /\ Len(p) <= Len(buf)
  BY DEF SoundReader, Reader, Begins
<1>2. ASSUME NEW i \in Nat, i < Len(p)
      PROVE  At(buf, i) = At(p, i) /\ At(p, i) \in Nat /\ i < Len(buf)
  <2>1. i + 1 \in 1 .. Len(p)
    BY <1>1, <1>2
  <2>2. p[i + 1] \in Octets /\ buf[i + 1] = p[i + 1]
    BY <2>1, ElementOfSeq DEF Begins
  <2> QED BY <1>1, <1>2, <2>2, Sizes DEF At, Octets
<1>3. ReadStep(p, r) # Bad(r)
  BY <1>1 DEF Bad, Reader
<1>4. r.at < Len(p)
  BY <1>1, <1>3 DEF ReadStep
<1>5. At(buf, r.at) = length /\ length \in Nat /\ r.at < Len(buf)
  BY <1>1, <1>2, <1>4
<1>6. CASE length = 0
  <2>1. ~(r.at >= Len(p)) /\ ~(r.at >= Len(buf)) /\ ~(0 >= PtrBits)
    BY <1>1, <1>4, <1>5, Sizes, SMTT(30)
  <2> DEFINE q == [r EXCEPT !.state = "done", !.end = IF @ = 0 THEN r.at + 1 ELSE @]
  <2>2. ReadStep(p, r) = q
    BY <1>6, <2>1, Sizes, SMTT(30) DEF ReadStep
  <2>3. ReadStep(buf, r) = q
    BY <1>5, <1>6, <2>1, Sizes, SMTT(30) DEF ReadStep
  <2> QED BY <2>2, <2>3
<1>7. CASE length # 0 /\ length >= PtrBits
  <2>1. ~(r.at + 1 >= Len(p)) /\ ReadStep(p, r) = Follow(p, r)
    BY <1>1, <1>3, <1>4, <1>7 DEF ReadStep
  <2>2. r.at + 1 \in Nat /\ r.at + 1 < Len(p)
    BY <1>1, <2>1
  <2>3. At(buf, r.at + 1) = At(p, r.at + 1) /\ r.at + 1 < Len(buf)
    BY <1>2, <2>2
  <2>4. Follow(buf, r) = Follow(p, r)
    BY <1>5, <2>3 DEF Follow
  <2>5. ReadStep(buf, r) = Follow(buf, r)
    <3>1. ~(r.at >= Len(buf)) /\ ~(r.at + 1 >= Len(buf)) /\ ~(length < PtrBits)
      <4>1. length \in Nat /\ PtrBits \in Nat /\ length >= PtrBits
        BY <1>5, <1>7, Sizes
      <4> HIDE DEF length
      <4> QED BY <1>1, <1>5, <2>2, <2>3, <4>1
    <3> QED BY <1>5, <1>7, <3>1 DEF ReadStep
  <2> QED BY <2>1, <2>4, <2>5
<1>8. CASE length # 0 /\ ~(length >= PtrBits)
  <2>1. ~(length > MaxLabel /\ length < PtrBits)
    BY <1>1, <1>3, <1>4, <1>8 DEF ReadStep
  <2> DEFINE l(b) == SubSeq(b, r.at + 2, r.at + 1 + length)
  <2>2. /\ r.at + 1 + length <= Len(p) /\ ~TooLong(r, length)
        /\ ReadStep(p, r) = [r EXCEPT !.labels = Append(@, l(p)), !.size = @ + 1 + length,
                                      !.at = @ + 1 + length]
    BY <1>1, <1>3, <1>4, <1>5, <1>8, <2>1 DEF ReadStep
  <2>3. r.at + 1 + length <= Len(buf)
    BY <1>1, <1>5, <2>2
  <2>4. ReadStep(buf, r) = [r EXCEPT !.labels = Append(@, l(buf)), !.size = @ + 1 + length,
                                     !.at = @ + 1 + length]
    BY <1>1, <1>5, <1>8, <2>1, <2>2, <2>3 DEF ReadStep
  <2>5. l(buf) = l(p)
    <3> DEFINE from == r.at + 2
               to == r.at + 1 + length
               n == to - from + 1
    <3>1. from \in Int /\ to \in Int /\ from <= to /\ n \in Nat
      <4>1. length \in Nat /\ length # 0 /\ r.at \in Nat
        BY <1>1, <1>5, <1>8
      <4> HIDE DEF length
      <4> QED BY <4>1, SMTT(30)
    <3>2. \A i \in from .. to : p[i] \in Octets /\ buf[i] \in Octets /\ p[i] = buf[i]
      <4> TAKE i \in from .. to
      <4>1. i \in 1 .. Len(p) /\ i \in 1 .. Len(buf)
        BY <1>1, <1>5, <2>2, <2>3
      <4> QED BY <4>1, ElementOfSeq DEF Begins
    <3> HIDE DEF from, to
    <3>3. /\ SubSeq(p, from, to) \in Seq(Octets) /\ Len(SubSeq(p, from, to)) = n
          /\ \A j \in 1 .. n : SubSeq(p, from, to)[j] = p[from + j - 1]
      BY <3>1, <3>2, SubSeqProperties
    <3>4. /\ SubSeq(buf, from, to) \in Seq(Octets) /\ Len(SubSeq(buf, from, to)) = n
          /\ \A j \in 1 .. n : SubSeq(buf, from, to)[j] = buf[from + j - 1]
      BY <3>1, <3>2, SubSeqProperties
    <3>5. \A j \in 1 .. n : SubSeq(buf, from, to)[j] = SubSeq(p, from, to)[j]
      <4> TAKE j \in 1 .. n
      <4>1. from + j - 1 \in from .. to
        BY <3>1
      <4> QED BY <3>2, <3>3, <3>4, <4>1
    <3> DEFINE u == SubSeq(buf, from, to)
               v == SubSeq(p, from, to)
    <3>6. u \in Seq(Octets) /\ v \in Seq(Octets) /\ Len(u) = Len(v)
          /\ \A j \in 1 .. Len(u) : u[j] = v[j]
      BY <3>3, <3>4, <3>5
    <3> HIDE DEF u, v
    <3>7. u = v
      BY <3>6, SeqEqual
    <3> QED BY <3>7 DEF u, v, from, to
  <2> QED BY <2>2, <2>4, <2>5
<1> QED BY <1>6, <1>7, <1>8

\* A name that can be read in what a message begins with is the same in the message.
LEMMA ReadAlike ==
  ASSUME NEW p \in Seq(Octets), NEW buf \in Seq(Octets), Begins(p, buf), NEW offset \in Nat,
         ReadName(p, offset).state = "done"
  PROVE  ReadName(buf, offset) = ReadName(p, offset)
<1> DEFINE N == MaxJumps + MaxName
<1>1. PICK g : Reading(g, p, offset)
  BY ReadNameSteps
<1>2. PICK k : Reading(k, buf, offset)
  BY ReadNameSteps
<1>3. /\ ReadName(p, offset) = g[N] /\ g[0] = Start(offset)
      /\ \A h \in 1 .. N : g[h] = Onward(p, g[h - 1])
  BY <1>1 DEF Reading
<1>4. /\ ReadName(buf, offset) = k[N] /\ k[0] = Start(offset)
      /\ \A h \in 1 .. N : k[h] = Onward(buf, k[h - 1])
  BY <1>2 DEF Reading
<1>5. N \in Nat
  BY Sizes, SMTT(30)
<1> DEFINE T == {h \in 0 .. N : /\ SoundReader(p, offset, g[h])
                                /\ g[h].state # "malformed" => k[h] = g[h]}
<1>6. 0 \in T
  BY <1>3, <1>4, <1>5, StartSound
<1>7. ASSUME NEW h \in 0 .. N - 1, h \in T PROVE h + 1 \in T
  <2>1. h + 1 \in 1 .. N /\ h + 1 \in 0 .. N /\ (h + 1) - 1 = h
    BY <1>5
  <2>2. SoundReader(p, offset, g[h]) /\ (g[h].state # "malformed" => k[h] = g[h])
    BY <1>7
  <2>3. g[h + 1] = Onward(p, g[h]) /\ k[h + 1] = Onward(buf, k[h])
    BY <1>3, <1>4, <2>1
  <2> HIDE DEF T
  <2>4. CASE g[h].state = "reading"
    <3> DEFINE r == g[h]
    <3> HIDE DEF r
    <3>1. SoundReader(p, offset, r) /\ r.state = "reading" /\ k[h] = r
      BY <2>2, <2>4 DEF r
    <3>2. g[h + 1] = ReadStep(p, r) /\ k[h + 1] = ReadStep(buf, r)
      BY <2>3, <3>1 DEF Onward, r
    <3>3. SoundReader(p, offset, ReadStep(p, r))
      BY <3>1, StepSound
    <3>4. ReadStep(p, r).state # "malformed" => ReadStep(buf, r) = ReadStep(p, r)
      BY <3>1, StepAlike
    <3> QED BY <2>1, <3>2, <3>3, <3>4 DEF T
  <2>5. CASE g[h].state # "reading"
    BY <2>1, <2>2, <2>3, <2>5 DEF Onward, T
  <2> QED BY <2>4, <2>5
<1>8. N \in T
  <2> HIDE DEF T, N
  <2>1. N \in 0 .. N
    BY <1>5
  <2> QED BY <1>5, <1>6, <1>7, <2>1, BoundedInduction
<1> QED BY <1>3, <1>4, <1>8

\* A name that was read is one.
LEMMA DoneFits ==
  ASSUME NEW buf \in Seq(Octets), NEW offset \in Nat, ReadName(buf, offset).state = "done"
  PROVE  LET r == ReadName(buf, offset)
         IN  FitName(r.labels) /\ r.end \in Nat /\ r.end > offset /\ r.end <= Len(buf)
<1> DEFINE r == ReadName(buf, offset)
<1>1. SoundReader(buf, offset, r) /\ r.state = "done"
  BY NameIsRead
<1> HIDE DEF r
<1>2. r.labels \in Seq(Label) /\ r.size \in Nat /\ r.size < MaxName /\ r.size = Len(Body(r.labels))
  BY <1>1 DEF SoundReader, Reader
<1>3. r.end \in offset + 1 .. Len(buf)
  BY <1>1 DEF SoundReader
<1> QED BY <1>2, <1>3 DEF FitName, r

-----------------------------------------------------------------------------
(* The recursive functions are what they look like *)

\* g is what has been parsed after each record.
NoneParsed(offset) == [ok |-> TRUE, next |-> offset, records |-> <<>>]
AlsoParsed(buf, p) ==
  LET x == ParseRecord(buf, p.next)
  IN  IF p.ok /\ x.ok
      THEN [ok |-> TRUE, next |-> x.next, records |-> Append(p.records, x.record)]
      ELSE [p EXCEPT !.ok = FALSE]
Parsing(g, buf, offset, count) ==
  /\ ParseRecords(buf, offset, count) = g[count]
  /\ g[0] = NoneParsed(offset)
  /\ \A n \in 1 .. count : g[n] = AlsoParsed(buf, g[n - 1])

LEMMA ParseSteps ==
  ASSUME NEW buf, NEW offset, NEW count \in Nat
  PROVE  \E g : Parsing(g, buf, offset, count)
<1> DEFINE N == count
           Steps(g) == [n \in 0 .. N |->
                          IF n = 0 THEN [ok |-> TRUE, next |-> offset, records |-> <<>>]
                          ELSE LET p == g[n - 1]
                                   x == ParseRecord(buf, p.next)
                               IN  IF p.ok /\ x.ok
                                   THEN [ok |-> TRUE, next |-> x.next,
                                         records |-> Append(p.records, x.record)]
                                   ELSE [p EXCEPT !.ok = FALSE]]
           W == CHOOSE g : g = Steps(g)
           Run(g, m) == g[0] = NoneParsed(offset) /\ \A n \in 1 .. m : g[n] = AlsoParsed(buf, g[n - 1])
           T == {m \in Nat : \E g : Run(g, m)}
<1>1. ParseRecords(buf, offset, count) = W[N] /\ N \in Nat
  BY DEF ParseRecords
<1>2. 0 \in T
  <2> DEFINE g == [n \in 0 .. 0 |-> NoneParsed(offset)]
  <2>1. Run(g, 0)
    OBVIOUS
  <2> QED BY <2>1
<1>3. ASSUME NEW m \in T PROVE m + 1 \in T
  <2>1. PICK g : Run(g, m)
    OBVIOUS
  <2> DEFINE k == [n \in 0 .. m + 1 |-> IF n = m + 1 THEN AlsoParsed(buf, g[m]) ELSE g[n]]
  <2>2. m \in Nat
    OBVIOUS
  <2>3. k[0] = NoneParsed(offset)
    BY <2>1, <2>2
  <2>4. ASSUME NEW n \in 1 .. m + 1 PROVE k[n] = AlsoParsed(buf, k[n - 1])
    <3>1. CASE n = m + 1
      <4>1. n \in 0 .. m + 1 /\ n - 1 \in 0 .. m + 1 /\ n - 1 # m + 1 /\ n - 1 = m
        BY <3>1, <2>2
      <4>2. k[n] = AlsoParsed(buf, g[m]) /\ k[n - 1] = g[m]
        BY <4>1, <3>1
      <4> QED BY <4>2, <3>1
    <3>2. CASE n # m + 1
      <4>1. n \in 1 .. m /\ n \in 0 .. m + 1 /\ n - 1 \in 0 .. m + 1 /\ n - 1 # m + 1
        BY <3>2, <2>2
      <4>2. k[n] = g[n] /\ k[n - 1] = g[n - 1]
        BY <4>1, <3>2
      <4> QED BY <4>1, <4>2, <2>1
    <3> QED BY <3>1, <3>2
  <2> HIDE DEF k
  <2>5. Run(k, m + 1)
    BY <2>3, <2>4
  <2> HIDE DEF Run
  <2>6. m + 1 \in Nat /\ \E r : Run(r, m + 1)
    BY <2>2, <2>5
  <2> QED BY <2>6
<1>4. T \in SUBSET Nat
  OBVIOUS
<1> HIDE DEF T
<1>5. N \in T
  BY <1>1, <1>2, <1>3, <1>4, Induction
<1>6. PICK g : Run(g, N)
  BY <1>5 DEF T
<1> DEFINE f == [n \in 0 .. N |-> g[n]]
<1>7. f = Steps(f)
  <2> SUFFICES ASSUME NEW n \in 0 .. N
               PROVE  f[n] = Steps(f)[n]
    OBVIOUS
  <2>1. CASE n = 0
    BY <2>1, <1>6 DEF AlsoParsed, NoneParsed
  <2>2. CASE n # 0
    <3>1. n \in 1 .. N /\ n - 1 \in 0 .. N
      BY <2>2, <1>1
    <3>2. g[n] = AlsoParsed(buf, g[n - 1])
      BY <3>1, <1>6
    <3>3. f[n] = g[n] /\ f[n - 1] = g[n - 1]
      BY <3>1
    <3>4. Steps(f)[n] = AlsoParsed(buf, f[n - 1])
      BY <2>2 DEF AlsoParsed, NoneParsed
    <3> QED BY <3>2, <3>3, <3>4
  <2> QED BY <2>1, <2>2
<1> HIDE DEF Steps, f
<1>8. W = Steps(W)
  BY <1>7
<1> HIDE DEF W
<1>9. W[0] = NoneParsed(offset)
  BY <1>1, <1>8 DEF Steps, AlsoParsed, NoneParsed
<1>10. ASSUME NEW n \in 1 .. N PROVE W[n] = AlsoParsed(buf, W[n - 1])
  <2>1. n \in 0 .. N /\ n # 0
    BY <1>1
  <2>2. Steps(W)[n] = AlsoParsed(buf, W[n - 1])
    BY <2>1 DEF Steps, AlsoParsed, NoneParsed
  <2> QED BY <1>8, <2>2
<1>11. Parsing(W, buf, offset, count)
  BY <1>1, <1>9, <1>10 DEF Parsing
<1> QED BY <1>11

\* g is where each record ends, and which names the records point to.
NoTargets(offset) == [next |-> offset, names |-> <<>>]
AlsoTarget(buf, p) ==
  LET head == ReadName(buf, p.next).end
  IN  [next |-> head + 2 + At(buf, head + 1),
       names |-> IF At(buf, head) = NameType
                 THEN Append(p.names, ReadName(buf, head + 2).labels) ELSE p.names]
Targeting(g, buf, offset, count) ==
  /\ Targets(buf, offset, count) = g[count].names
  /\ g[0] = NoTargets(offset)
  /\ \A n \in 1 .. count : g[n] = AlsoTarget(buf, g[n - 1])

LEMMA TargetSteps ==
  ASSUME NEW buf, NEW offset, NEW count \in Nat
  PROVE  \E g : Targeting(g, buf, offset, count)
<1> DEFINE N == count
           Steps(g) == [n \in 0 .. N |->
                          IF n = 0 THEN [next |-> offset, names |-> <<>>]
                          ELSE LET p == g[n - 1]
                                   head == ReadName(buf, p.next).end
                               IN  [next |-> head + 2 + At(buf, head + 1),
                                    names |-> IF At(buf, head) = NameType
                                              THEN Append(p.names, ReadName(buf, head + 2).labels)
                                              ELSE p.names]]
           W == CHOOSE g : g = Steps(g)
           Run(g, m) == g[0] = NoTargets(offset) /\ \A n \in 1 .. m : g[n] = AlsoTarget(buf, g[n - 1])
           T == {m \in Nat : \E g : Run(g, m)}
<1>1. Targets(buf, offset, count) = W[N].names /\ N \in Nat
  BY DEF Targets
<1>2. 0 \in T
  <2> DEFINE g == [n \in 0 .. 0 |-> NoTargets(offset)]
  <2>1. Run(g, 0)
    OBVIOUS
  <2> QED BY <2>1
<1>3. ASSUME NEW m \in T PROVE m + 1 \in T
  <2>1. PICK g : Run(g, m)
    OBVIOUS
  <2> DEFINE k == [n \in 0 .. m + 1 |-> IF n = m + 1 THEN AlsoTarget(buf, g[m]) ELSE g[n]]
  <2>2. m \in Nat
    OBVIOUS
  <2>3. k[0] = NoTargets(offset)
    BY <2>1, <2>2
  <2>4. ASSUME NEW n \in 1 .. m + 1 PROVE k[n] = AlsoTarget(buf, k[n - 1])
    <3>1. CASE n = m + 1
      <4>1. n \in 0 .. m + 1 /\ n - 1 \in 0 .. m + 1 /\ n - 1 # m + 1 /\ n - 1 = m
        BY <3>1, <2>2
      <4>2. k[n] = AlsoTarget(buf, g[m]) /\ k[n - 1] = g[m]
        BY <4>1, <3>1
      <4> QED BY <4>2, <3>1
    <3>2. CASE n # m + 1
      <4>1. n \in 1 .. m /\ n \in 0 .. m + 1 /\ n - 1 \in 0 .. m + 1 /\ n - 1 # m + 1
        BY <3>2, <2>2
      <4>2. k[n] = g[n] /\ k[n - 1] = g[n - 1]
        BY <4>1, <3>2
      <4> QED BY <4>1, <4>2, <2>1
    <3> QED BY <3>1, <3>2
  <2> HIDE DEF k
  <2>5. Run(k, m + 1)
    BY <2>3, <2>4
  <2> HIDE DEF Run
  <2>6. m + 1 \in Nat /\ \E r : Run(r, m + 1)
    BY <2>2, <2>5
  <2> QED BY <2>6
<1>4. T \in SUBSET Nat
  OBVIOUS
<1> HIDE DEF T
<1>5. N \in T
  BY <1>1, <1>2, <1>3, <1>4, Induction
<1>6. PICK g : Run(g, N)
  BY <1>5 DEF T
<1> DEFINE f == [n \in 0 .. N |-> g[n]]
<1>7. f = Steps(f)
  <2> SUFFICES ASSUME NEW n \in 0 .. N
               PROVE  f[n] = Steps(f)[n]
    OBVIOUS
  <2>1. CASE n = 0
    BY <2>1, <1>6 DEF AlsoTarget, NoTargets
  <2>2. CASE n # 0
    <3>1. n \in 1 .. N /\ n - 1 \in 0 .. N
      BY <2>2, <1>1
    <3>2. g[n] = AlsoTarget(buf, g[n - 1])
      BY <3>1, <1>6
    <3>3. f[n] = g[n] /\ f[n - 1] = g[n - 1]
      BY <3>1
    <3>4. Steps(f)[n] = AlsoTarget(buf, f[n - 1])
      BY <2>2 DEF AlsoTarget, NoTargets
    <3> QED BY <3>2, <3>3, <3>4
  <2> QED BY <2>1, <2>2
<1> HIDE DEF Steps, f
<1>8. W = Steps(W)
  BY <1>7
<1> HIDE DEF W
<1>9. W[0] = NoTargets(offset)
  BY <1>1, <1>8 DEF Steps, AlsoTarget, NoTargets
<1>10. ASSUME NEW n \in 1 .. N PROVE W[n] = AlsoTarget(buf, W[n - 1])
  <2>1. n \in 0 .. N /\ n # 0
    BY <1>1
  <2>2. Steps(W)[n] = AlsoTarget(buf, W[n - 1])
    BY <2>1 DEF Steps, AlsoTarget, NoTargets
  <2> QED BY <1>8, <2>2
<1>11. Targeting(W, buf, offset, count)
  BY <1>1, <1>9, <1>10 DEF Targeting
<1> QED BY <1>11

\* g is the builder after each record.
Asked(question) == [WriteName(NewBuilder, question) EXCEPT !.buf = Append(@, 0)]
Building(g, question, records) ==
  /\ Build(question, records) = g[Len(records)].buf
  /\ g[0] = Asked(question)
  /\ \A n \in 1 .. Len(records) : g[n] = WriteRecord(g[n - 1], records[n])

LEMMA BuildSteps ==
  ASSUME NEW question, NEW records, Len(records) \in Nat
  PROVE  \E g : Building(g, question, records)
<1> DEFINE N == Len(records)
           Steps(g) == [n \in 0 .. N |->
                          IF n = 0 THEN [WriteName(NewBuilder, question) EXCEPT !.buf = Append(@, 0)]
                          ELSE WriteRecord(g[n - 1], records[n])]
           W == CHOOSE g : g = Steps(g)
           Run(g, m) == g[0] = Asked(question) /\ \A n \in 1 .. m : g[n] = WriteRecord(g[n - 1], records[n])
           T == {m \in Nat : \E g : Run(g, m)}
<1>1. Build(question, records) = W[N].buf /\ N \in Nat
  BY DEF Build
<1>2. 0 \in T
  <2> DEFINE g == [n \in 0 .. 0 |-> Asked(question)]
  <2>1. Run(g, 0)
    OBVIOUS
  <2> QED BY <2>1
<1>3. ASSUME NEW m \in T PROVE m + 1 \in T
  <2>1. PICK g : Run(g, m)
    OBVIOUS
  <2> DEFINE k == [n \in 0 .. m + 1 |-> IF n = m + 1 THEN WriteRecord(g[m], records[m + 1]) ELSE g[n]]
  <2>2. m \in Nat
    OBVIOUS
  <2>3. k[0] = Asked(question)
    BY <2>1, <2>2
  <2>4. ASSUME NEW n \in 1 .. m + 1 PROVE k[n] = WriteRecord(k[n - 1], records[n])
    <3>1. CASE n = m + 1
      <4>1. n \in 0 .. m + 1 /\ n - 1 \in 0 .. m + 1 /\ n - 1 # m + 1 /\ n - 1 = m
        BY <3>1, <2>2
      <4>2. k[n] = WriteRecord(g[m], records[m + 1]) /\ k[n - 1] = g[m]
        BY <4>1, <3>1
      <4> QED BY <4>2, <3>1
    <3>2. CASE n # m + 1
      <4>1. n \in 1 .. m /\ n \in 0 .. m + 1 /\ n - 1 \in 0 .. m + 1 /\ n - 1 # m + 1
        BY <3>2, <2>2
      <4>2. k[n] = g[n] /\ k[n - 1] = g[n - 1]
        BY <4>1, <3>2
      <4> QED BY <4>1, <4>2, <2>1
    <3> QED BY <3>1, <3>2
  <2> HIDE DEF k
  <2>5. Run(k, m + 1)
    BY <2>3, <2>4
  <2> HIDE DEF Run
  <2>6. m + 1 \in Nat /\ \E r : Run(r, m + 1)
    BY <2>2, <2>5
  <2> QED BY <2>6
<1>4. T \in SUBSET Nat
  OBVIOUS
<1> HIDE DEF T
<1>5. N \in T
  BY <1>1, <1>2, <1>3, <1>4, Induction
<1>6. PICK g : Run(g, N)
  BY <1>5 DEF T
<1> DEFINE f == [n \in 0 .. N |-> g[n]]
<1>7. f = Steps(f)
  <2> SUFFICES ASSUME NEW n \in 0 .. N
               PROVE  f[n] = Steps(f)[n]
    OBVIOUS
  <2>1. CASE n = 0
    BY <2>1, <1>6 DEF Asked
  <2>2. CASE n # 0
    <3>1. n \in 1 .. N /\ n - 1 \in 0 .. N
      BY <2>2, <1>1
    <3>2. g[n] = WriteRecord(g[n - 1], records[n])
      BY <3>1, <1>6
    <3>3. f[n] = g[n] /\ f[n - 1] = g[n - 1]
      BY <3>1
    <3>4. Steps(f)[n] = WriteRecord(f[n - 1], records[n])
      BY <2>2 DEF Asked
    <3> QED BY <3>2, <3>3, <3>4
  <2> QED BY <2>1, <2>2
<1> HIDE DEF Steps, f
<1>8. W = Steps(W)
  BY <1>7
<1> HIDE DEF W
<1>9. W[0] = Asked(question)
  BY <1>1, <1>8 DEF Steps, Asked
<1>10. ASSUME NEW n \in 1 .. N PROVE W[n] = WriteRecord(W[n - 1], records[n])
  <2>1. n \in 0 .. N /\ n # 0
    BY <1>1
  <2>2. Steps(W)[n] = WriteRecord(W[n - 1], records[n])
    BY <2>1 DEF Steps, Asked
  <2> QED BY <1>8, <2>2
<1>11. Building(W, question, records)
  BY <1>1, <1>9, <1>10 DEF Building
<1> QED BY <1>11

-----------------------------------------------------------------------------
(* Records *)

Record == [owner : Seq(Label), type : Octets, data : Seq(Octets)]

\* A record that was read: its data fits its length and is a name where the
\* type says so.
SoundRecord(rr) ==
  /\ FitName(rr.owner) /\ Len(rr.data) < Byte
  /\ rr.type = NameType => \E name : FitName(name) /\ rr.data = Bytes(name)
Records == {rr \in Record : SoundRecord(rr)}

\* The name that a record's data stand for.
TargetOf(rr) == ReadName(rr.data, 0).labels
Piece(rr) == IF rr.type = NameType THEN <<TargetOf(rr)>> ELSE <<>>
NamesOf(records) == FlattenSeq([i \in DOMAIN records |-> Piece(records[i])])

\* A name alone is read as it was.
LEMMA BytesRead ==
  ASSUME NEW name, FitName(name)
  PROVE  ReadName(Bytes(name), 0).labels = name
<1>1. name \in Seq(Label) /\ Len(Body(name)) \in Nat
  BY BodyType DEF FitName
<1>2. Bytes(name) \in Seq(Octets) /\ Len(Bytes(name)) = Len(Body(name)) + 1
  BY <1>1, BytesMeaning
<1> DEFINE b == Bytes(name)
           l == Len(Body(name))
<1>3. b \in Seq(Octets) /\ Len(b) = l + 1 /\ l \in Nat
  BY <1>1, <1>2
<1>4. Stands(b, 0, name)
  <2>1. 0 + l < Len(b)
    BY <1>3
  <2>2. \A k \in 1 .. l + 1 : b[0 + k] = b[k]
    OBVIOUS
  <2> QED BY <2>1, <2>2 DEF Stands
<1> HIDE DEF b
<1>5. Found(b, 0, name, 0 + Len(Bytes(name)))
  BY <1>3, <1>4, WrittenNameRead
<1> QED BY <1>5 DEF Found, b

LEMMA PieceType ==
  ASSUME NEW rr \in Records
  PROVE  Piece(rr) \in Seq(Seq(Label))
<1>1. CASE rr.type = NameType
  <2>1. PICK name : FitName(name) /\ rr.data = Bytes(name)
    BY <1>1 DEF Records, SoundRecord
  <2>2. TargetOf(rr) = name
    BY <2>1, BytesRead DEF TargetOf
  <2>3. name \in Seq(Label)
    BY <2>1 DEF FitName
  <2> QED BY <1>1, <2>2, <2>3 DEF Piece
<1>2. CASE rr.type # NameType
  BY <1>2 DEF Piece
<1> QED BY <1>1, <1>2

LEMMA NamesOfNone == NamesOf(<<>>) = <<>>
<1> DEFINE p == [i \in DOMAIN <<>> |-> Piece(<<>>[i])]
<1>1. p = <<>>
  OBVIOUS
<1>2. NamesOf(<<>>) = FlattenSeq(p)
  BY DEF NamesOf
<1> HIDE DEF p
<1> QED BY <1>1, <1>2, FlattenNone

LEMMA NamesOfAppend ==
  ASSUME NEW records \in Seq(Records), NEW rr \in Records
  PROVE  /\ NamesOf(records) \in Seq(Seq(Label))
         /\ NamesOf(Append(records, rr)) = NamesOf(records) \o Piece(rr)
<1> DEFINE pieces(rs) == [i \in DOMAIN rs |-> Piece(rs[i])]
           more == Append(records, rr)
           ps == pieces(records)
           o == Piece(rr)
           S == Seq(Label)
           n == Len(records)
<1>1. /\ more \in Seq(Records) /\ Len(more) = n + 1 /\ n \in Nat
      /\ \A i \in 1 .. n : more[i] = records[i]
      /\ more[n + 1] = rr
  OBVIOUS
<1>2. ASSUME NEW rs \in Seq(Records)
      PROVE  /\ pieces(rs) \in Seq(Seq(S)) /\ Len(pieces(rs)) = Len(rs)
             /\ \A i \in 1 .. Len(rs) : pieces(rs)[i] = Piece(rs[i])
  <2>1. DOMAIN rs = 1 .. Len(rs) /\ Len(rs) \in Nat
    OBVIOUS
  <2>2. ASSUME NEW i \in 1 .. Len(rs) PROVE Piece(rs[i]) \in Seq(S)
    <3>1. rs[i] \in Records
      OBVIOUS
    <3> QED BY <3>1, PieceType
  <2> QED BY <2>1, <2>2
<1>3. o \in Seq(S)
  BY PieceType
<1>4. /\ ps \in Seq(Seq(S)) /\ Len(ps) = n
      /\ pieces(more) \in Seq(Seq(S)) /\ Len(pieces(more)) = n + 1
      /\ \A i \in 1 .. n : ps[i] = Piece(records[i])
      /\ \A i \in 1 .. n + 1 : pieces(more)[i] = Piece(more[i])
  <2> HIDE DEF pieces, more
  <2> QED BY <1>1, <1>2
<1> DEFINE u == pieces(more)
           v == Append(ps, o)
<1>5. NamesOf(records) = FlattenSeq(ps) /\ NamesOf(more) = FlattenSeq(u)
  BY DEF NamesOf
<1> HIDE DEF pieces, more, ps, o, u
<1>6. /\ v \in Seq(Seq(S)) /\ Len(v) = n + 1
      /\ \A i \in 1 .. n : v[i] = ps[i]
      /\ v[n + 1] = o
  BY <1>3, <1>4, AppendProperties
<1> HIDE DEF v
<1>7. u \in Seq(Seq(S)) /\ Len(u) = n + 1 /\ \A i \in 1 .. n + 1 : u[i] = Piece(more[i])
  BY <1>4 DEF u
<1>8. \A i \in 1 .. n + 1 : u[i] = v[i]
  <2> TAKE i \in 1 .. n + 1
  <2>1. CASE i = n + 1
    BY <1>1, <1>6, <1>7, <2>1 DEF o
  <2>2. CASE i # n + 1
    <3>1. i \in 1 .. n
      BY <1>1, <2>2
    <3> QED BY <1>1, <1>4, <1>6, <1>7, <3>1
  <2> QED BY <2>1, <2>2
<1>9. u = v
  BY <1>6, <1>7, <1>8, SeqEqual
<1>10. FlattenSeq(v) = FlattenSeq(ps) \o o
  BY <1>3, <1>4, FlattenAppend DEF v
<1>11. FlattenSeq(ps) \in Seq(S)
  BY <1>4, FlattenType
<1> QED BY <1>5, <1>9, <1>10, <1>11 DEF more, o

\* What parseRecord makes of a message is sound, and its data, if they are to
\* be a name, stand for the one that was read in the message.
LEMMA RecordParsed ==
  ASSUME NEW buf \in Seq(Octets), NEW offset \in Nat, ParseRecord(buf, offset).ok
  PROVE  LET x == ParseRecord(buf, offset)
             head == ReadName(buf, offset).end
         IN  /\ x.next \in Nat /\ x.next = head + 2 + At(buf, head + 1)
             /\ x.record \in Records /\ x.record.type = At(buf, head)
             /\ x.record.type = NameType => TargetOf(x.record) = ReadName(buf, head + 2).labels
<1> DEFINE r == ReadName(buf, offset)
           head == r.end
           type == At(buf, head)
           length == At(buf, head + 1)
           x == ExpandRData(buf, head + 2, length, type)
           rr == [owner |-> r.labels, type |-> type, data |-> x.data]
           end == head + 2 + length
<1>1. /\ r.state = "done" /\ ~(head + 2 > Len(buf)) /\ ~(end > Len(buf)) /\ x.ok
      /\ ParseRecord(buf, offset) = [ok |-> TRUE, next |-> end, record |-> rr]
  BY DEF ParseRecord, NoRecord
<1>2. FitName(r.labels) /\ head \in Nat
  BY <1>1, DoneFits
<1> HIDE DEF r, head
<1>3. Len(buf) \in Nat /\ head + 2 <= Len(buf)
  BY <1>1, <1>2
<1>4. ASSUME NEW i \in Nat, i < Len(buf) PROVE At(buf, i) \in Octets
  <2>1. i + 1 \in 1 .. Len(buf)
    BY <1>3, <1>4
  <2> QED BY <2>1, ElementOfSeq DEF At
<1>5. type \in Octets /\ length \in Octets
  <2>1. head + 1 \in Nat /\ head < Len(buf) /\ head + 1 < Len(buf)
    BY <1>2, <1>3
  <2> QED BY <1>2, <1>4, <2>1
<1>6. length \in Nat /\ length < Byte
  BY <1>5, Sizes DEF Octets
<1>7. end \in Nat /\ end <= Len(buf) /\ end \in 0 .. Len(buf) /\ head + 2 \in Nat
  <2> HIDE DEF length
  <2> QED BY <1>1, <1>2, <1>3, <1>6
<1> DEFINE start == head + 2
           upto == SubSeq(buf, 1, end)
           n == ReadName(upto, start)
<1>8. upto \in Seq(Octets) /\ Begins(upto, buf)
  <2> HIDE DEF end
  <2> QED BY <1>7, UpTo
<1>9. CASE type = NameType
  <2>1. x = [ok |-> n.state = "done" /\ n.end = end, data |-> Bytes(n.labels)]
    BY <1>9 DEF ExpandRData
  <2> HIDE DEF x, n, upto, start, end, type, length
  <2>2. n.state = "done" /\ n.end = end /\ x.data = Bytes(n.labels)
    BY <1>1, <2>1
  <2>3. FitName(n.labels)
    BY <1>7, <1>8, <2>2, DoneFits DEF n, start
  <2>4. ReadName(buf, start) = n
    BY <1>7, <1>8, <2>2, ReadAlike DEF n, start
  <2>5. n.labels \in Seq(Label) /\ Len(Body(n.labels)) < MaxName /\ Len(Body(n.labels)) \in Nat
    BY <2>3, BodyType DEF FitName
  <2>6. x.data \in Seq(Octets) /\ Len(x.data) = Len(Body(n.labels)) + 1
    BY <2>2, <2>5, BytesMeaning
  <2>7. Len(x.data) < Byte
    BY <2>5, <2>6, Sizes, SMTT(30)
  <2>8. rr \in Record
    BY <1>2, <1>5, <2>6 DEF Record, FitName
  <2>9. rr \in Records
    BY <1>2, <2>2, <2>3, <2>7, <2>8 DEF Records, SoundRecord
  <2>10. TargetOf(rr) = n.labels
    BY <2>2, <2>3, BytesRead DEF TargetOf
  <2> QED BY <1>1, <1>7, <2>4, <2>9, <2>10 DEF r, head, type, length, start, end
<1>10. CASE type # NameType
  <2> DEFINE data == SubSeq(buf, start + 1, end)
  <2>1. x.data = data
    BY <1>10 DEF ExpandRData
  <2>2. data \in Seq(Octets) /\ Len(data) = length
    <3>1. length = 0 \/ length >= 1
      BY <1>6
    <3> HIDE DEF length
    <3>2. start + 1 \in Int /\ end \in Int /\ start = head + 2 /\ end = start + length
      BY <1>2, <1>6
    <3> HIDE DEF start, end
    <3>3. \A i \in start + 1 .. end : buf[i] \in Octets
      <4> TAKE i \in start + 1 .. end
      <4>1. i \in 1 .. Len(buf)
        BY <1>2, <1>7, <3>2
      <4> QED BY <4>1, ElementOfSeq
    <3>4. /\ data \in Seq(Octets)
          /\ Len(data) = IF start + 1 <= end THEN end - (start + 1) + 1 ELSE 0
      BY <3>2, <3>3, SubSeqProperties
    <3> QED BY <1>2, <1>6, <3>1, <3>2, <3>4
  <2> HIDE DEF data, x, start, end, type, length
  <2>3. rr \in Record
    BY <1>2, <1>5, <2>1, <2>2 DEF Record, FitName
  <2>4. rr \in Records
    BY <1>2, <1>6, <1>10, <2>1, <2>2, <2>3 DEF Records, SoundRecord
  <2> QED BY <1>1, <1>7, <1>10, <2>4 DEF r, head, type, length, end
<1> QED BY <1>9, <1>10

\* The same of all records of a message.
LEMMA RecordsParsed ==
  ASSUME NEW buf \in Seq(Octets), NEW offset \in Nat, NEW count \in Nat,
         ParseRecords(buf, offset, count).ok
  PROVE  LET x == ParseRecords(buf, offset, count)
         IN  /\ x.records \in Seq(Records) /\ Len(x.records) = count
             /\ Targets(buf, offset, count) = NamesOf(x.records)
<1>1. PICK p : Parsing(p, buf, offset, count)
  BY ParseSteps
<1>2. PICK t : Targeting(t, buf, offset, count)
  BY TargetSteps
<1>3. /\ ParseRecords(buf, offset, count) = p[count] /\ p[0] = NoneParsed(offset)
      /\ \A n \in 1 .. count : p[n] = AlsoParsed(buf, p[n - 1])
  BY <1>1 DEF Parsing
<1>4. /\ Targets(buf, offset, count) = t[count].names /\ t[0] = NoTargets(offset)
      /\ \A n \in 1 .. count : t[n] = AlsoTarget(buf, t[n - 1])
  BY <1>2 DEF Targeting
<1> DEFINE Right(n) == /\ p[n].next \in Nat /\ p[n].records \in Seq(Records) /\ Len(p[n].records) = n
                       /\ t[n].next = p[n].next /\ t[n].names = NamesOf(p[n].records)
           Parsed == {q \in [ok : BOOLEAN, next : Nat, records : Seq(Records)] : TRUE}
           T == {n \in 0 .. count : p[n] \in Parsed /\ (p[n].ok => Right(n))}
<1>5. 0 \in T
  <2>1. p[0].ok = TRUE /\ p[0].next = offset /\ p[0].records = <<>> /\ p[0] \in Parsed
    BY <1>3 DEF NoneParsed
  <2>2. t[0].next = offset /\ t[0].names = <<>>
    BY <1>4 DEF NoTargets
  <2> QED BY <2>1, <2>2, NamesOfNone
<1>6. ASSUME NEW n \in 0 .. count - 1, n \in T PROVE n + 1 \in T
  <2> DEFINE q == p[n]
             x == ParseRecord(buf, q.next)
             head == ReadName(buf, q.next).end
  <2>1. n + 1 \in 1 .. count /\ n + 1 \in 0 .. count /\ (n + 1) - 1 = n
    OBVIOUS
  <2>2. p[n + 1] = AlsoParsed(buf, q) /\ t[n + 1] = AlsoTarget(buf, t[n])
    BY <1>3, <1>4, <2>1
  <2>3. q \in Parsed /\ (q.ok => Right(n))
    BY <1>6
  <2> HIDE DEF T, Right
  <2>4. CASE q.ok /\ x.ok
    <3> DEFINE more == Append(q.records, x.record)
    <3>1. p[n + 1] = [ok |-> TRUE, next |-> x.next, records |-> more]
      BY <2>2, <2>4 DEF AlsoParsed
    <3>2. /\ q.next \in Nat /\ q.records \in Seq(Records) /\ Len(q.records) = n
          /\ t[n].next = q.next /\ t[n].names = NamesOf(q.records)
      BY <2>3, <2>4 DEF Right
    <3>3. /\ x.next \in Nat /\ x.next = head + 2 + At(buf, head + 1)
          /\ x.record \in Records /\ x.record.type = At(buf, head)
          /\ x.record.type = NameType => TargetOf(x.record) = ReadName(buf, head + 2).labels
      <4> HIDE DEF q
      <4> QED BY <2>4, <3>2, RecordParsed
    <3>4. t[n + 1] = [next |-> head + 2 + At(buf, head + 1),
                      names |-> IF At(buf, head) = NameType
                                THEN Append(t[n].names, ReadName(buf, head + 2).labels)
                                ELSE t[n].names]
      BY <2>2, <3>2 DEF AlsoTarget
    <3> HIDE DEF q, x, head
    <3>5. more \in Seq(Records) /\ Len(more) = n + 1
      BY <3>2, <3>3, AppendProperties
    <3>6. /\ NamesOf(q.records) \in Seq(Seq(Label))
          /\ NamesOf(more) = NamesOf(q.records) \o Piece(x.record)
      BY <3>2, <3>3, NamesOfAppend
    <3>7. t[n + 1].names = NamesOf(more)
      <4>1. CASE x.record.type = NameType
        <5> DEFINE nm == TargetOf(x.record)
                   s == NamesOf(q.records)
        <5>1. Piece(x.record) = <<nm>> /\ t[n + 1].names = Append(s, nm)
          BY <3>2, <3>3, <3>4, <4>1 DEF Piece
        <5>2. s \in Seq(Seq(Label)) /\ nm \in Seq(Label)
          <6>1. Piece(x.record) \in Seq(Seq(Label))
            BY <3>3, PieceType
          <6>2. <<nm>> \in Seq(Seq(Label))
            BY <5>1, <6>1
          <6>3. Len(<<nm>>) = 1 /\ <<nm>>[1] = nm
            OBVIOUS
          <6> HIDE DEF nm
          <6>4. <<nm>>[1] \in Seq(Label)
            BY <6>2, <6>3, ElementOfSeq
          <6> QED BY <3>6, <6>3, <6>4
        <5> HIDE DEF nm, s
        <5>3. Append(s, nm) = s \o <<nm>>
          BY <5>2, AppendIsConcat
        <5> QED BY <3>6, <5>1, <5>3 DEF s
      <4>2. CASE x.record.type # NameType
        <5>1. Piece(x.record) = <<>> /\ t[n + 1].names = NamesOf(q.records)
          BY <3>2, <3>3, <3>4, <4>2 DEF Piece
        <5>2. NamesOf(q.records) \o <<>> = NamesOf(q.records)
          BY <3>6, ConcatEmptySeq
        <5> QED BY <3>6, <5>1, <5>2
      <4> QED BY <4>1, <4>2
    <3>8. t[n + 1].next = x.next
      BY <3>3, <3>4
    <3> HIDE DEF more
    <3>9. p[n + 1] \in Parsed
      BY <3>1, <3>3, <3>5
    <3>10. p[n + 1].next = x.next /\ p[n + 1].records = more
      BY <3>1
    <3>11. Right(n + 1)
      BY <3>3, <3>5, <3>7, <3>8, <3>10 DEF Right
    <3> QED BY <2>1, <3>9, <3>11 DEF T
  <2>5. CASE ~(q.ok /\ x.ok)
    <3>1. p[n + 1] = [q EXCEPT !.ok = FALSE]
      BY <2>2, <2>5 DEF AlsoParsed
    <3> HIDE DEF q
    <3>2. p[n + 1] \in Parsed /\ p[n + 1].ok = FALSE
      BY <2>3, <3>1
    <3> QED BY <2>1, <3>2 DEF T
  <2> QED BY <2>4, <2>5
<1>7. count \in T
  <2> HIDE DEF T
  <2>1. count \in 0 .. count
    OBVIOUS
  <2> QED BY <1>5, <1>6, <2>1, BoundedInduction
<1> QED BY <1>3, <1>4, <1>7

-----------------------------------------------------------------------------
(* Writing *)

Builder == [buf : Seq(Octets), names : Seq(Seq(Label) \X Nat)]

\* What is known of a name that was written: a pointer can hold where it
\* stands, and there it stands.
Kept(buf, entry) == entry[2] <= MaxOffset /\ FitName(entry[1]) /\ Stands(buf, entry[2], entry[1])
SoundBuilder(b) == b \in Builder /\ \A i \in DOMAIN b.names : Kept(b.buf, b.names[i])

\* The name is found again behind b, whatever is written after it.
NameAfter(b, w, name) ==
  \A buf \in Seq(Octets) : Begins(w.buf, buf) => Found(buf, Len(b.buf), name, Len(w.buf))

\* More bytes disturb no name.
LEMMA Extended ==
  ASSUME NEW b, SoundBuilder(b), NEW bytes \in Seq(Octets)
  PROVE  LET w == [b EXCEPT !.buf = @ \o bytes]
         IN  /\ SoundBuilder(w) /\ w.buf = b.buf \o bytes /\ w.names = b.names
             /\ Begins(b.buf, w.buf) /\ Len(w.buf) = Len(b.buf) + Len(bytes)
<1> DEFINE long == b.buf \o bytes
           w == [b EXCEPT !.buf = long]
<1>1. b \in Builder /\ b.buf \in Seq(Octets) /\ b.names \in Seq(Seq(Label) \X Nat)
  BY DEF SoundBuilder, Builder
<1>2. long \in Seq(Octets) /\ Begins(b.buf, long) /\ Len(long) = Len(b.buf) + Len(bytes)
  BY <1>1, BeginsLonger
<1>3. w = [b EXCEPT !.buf = @ \o bytes]
  OBVIOUS
<1>a. long = b.buf \o bytes
  OBVIOUS
<1> HIDE DEF long
<1>4. w \in Builder /\ w.buf = long /\ w.names = b.names
  BY <1>1, <1>2 DEF Builder
<1> HIDE DEF w
<1>5. ASSUME NEW i \in DOMAIN w.names PROVE Kept(w.buf, w.names[i])
  <2> DEFINE e == b.names[i]
  <2>1. Kept(b.buf, e) /\ w.names[i] = e
    BY <1>4 DEF SoundBuilder
  <2>2. e \in Seq(Label) \X Nat
    BY <1>1, <1>4, ElementOfSeq
  <2> HIDE DEF e
  <2>3. Stands(long, e[2], e[1])
    BY <1>1, <1>2, <2>1, <2>2, StandsLonger DEF Kept
  <2> QED BY <1>4, <2>1, <2>3 DEF Kept
<1> QED BY <1>a, <1>2, <1>3, <1>4, <1>5 DEF SoundBuilder

LEMMA NewNameWritten ==
  ASSUME NEW b, SoundBuilder(b), NEW name, FitName(name)
  PROVE  LET w == [Keep(b, name) EXCEPT !.buf = @ \o Bytes(name)]
         IN  /\ SoundBuilder(w) /\ Begins(b.buf, w.buf) /\ NameAfter(b, w, name)
             /\ Len(w.buf) = Len(b.buf) + Len(Bytes(name))
<1> DEFINE c == [b EXCEPT !.buf = @ \o Bytes(name)]
           w == [Keep(b, name) EXCEPT !.buf = @ \o Bytes(name)]
           place == Len(b.buf)
<1>1. b \in Builder /\ b.buf \in Seq(Octets) /\ b.names \in Seq(Seq(Label) \X Nat) /\ place \in Nat
  BY DEF SoundBuilder, Builder
<1>2. /\ name \in Seq(Label) /\ Bytes(name) \in Seq(Octets)
      /\ Len(Bytes(name)) = Len(Body(name)) + 1 /\ Len(Body(name)) \in Nat
  BY BodyType, BytesMeaning DEF FitName
<1>3. /\ SoundBuilder(c) /\ c.buf = b.buf \o Bytes(name) /\ c.names = b.names
      /\ Begins(b.buf, c.buf) /\ Len(c.buf) = place + Len(Bytes(name))
  BY <1>2, Extended
<1>4. Stands(c.buf, place, name)
  <2>1. \A k \in 1 .. Len(Bytes(name)) : (b.buf \o Bytes(name))[place + k] = Bytes(name)[k]
    BY <1>1, <1>2, BeginsLonger
  <2>2. place + Len(Body(name)) < Len(c.buf)
    BY <1>1, <1>2, <1>3
  <2> HIDE DEF c, place
  <2> QED BY <1>2, <1>3, <2>1, <2>2 DEF Stands
<1>5. c.buf \in Seq(Octets) /\ c \in Builder
  BY <1>3 DEF SoundBuilder, Builder
<1>6. SoundBuilder(w) /\ w.buf = c.buf
  <2>1. CASE name # <<>> /\ place <= MaxOffset
    <3> DEFINE e == <<name, place>>
               more == Append(b.names, e)
               d == [b EXCEPT !.names = more, !.buf = c.buf]
    <3>1. e \in Seq(Label) \X Nat /\ e[1] = name /\ e[2] = place
      BY <1>1, <1>2
    <3>2. w = d
      <4>1. Keep(b, name) = [b EXCEPT !.names = more]
        BY <2>1 DEF Keep
      <4>2. Keep(b, name).buf = b.buf
        BY <1>1, <4>1 DEF Builder
      <4>3. w = [Keep(b, name) EXCEPT !.buf = c.buf]
        BY <1>3, <4>2
      <4> HIDE DEF more, c, w
      <4> QED BY <1>1, <4>1, <4>3 DEF Builder
    <3> HIDE DEF e, c, w, place
    <3>3. /\ more \in Seq(Seq(Label) \X Nat) /\ Len(more) = Len(b.names) + 1 /\ Len(b.names) \in Nat
          /\ \A i \in 1 .. Len(b.names) : more[i] = b.names[i]
          /\ more[Len(b.names) + 1] = e
      BY <1>1, <3>1, AppendProperties
    <3> HIDE DEF more
    <3>4. d \in Builder /\ d.names = more /\ d.buf = c.buf
      BY <1>1, <1>5, <3>3 DEF Builder
    <3> HIDE DEF d
    <3>5. ASSUME NEW i \in DOMAIN more PROVE Kept(c.buf, more[i])
      <4>1. DOMAIN more = 1 .. Len(b.names) + 1 /\ DOMAIN b.names = 1 .. Len(b.names)
        BY <1>1, <3>3, SMTT(30)
      <4>2. CASE i = Len(b.names) + 1
        BY <1>4, <2>1, <3>1, <3>3, <4>2 DEF Kept
      <4>3. CASE i # Len(b.names) + 1
        <5>1. i \in 1 .. Len(b.names) /\ i \in DOMAIN c.names
          BY <1>3, <3>3, <4>1, <4>3, SMTT(30)
        <5>2. Kept(c.buf, c.names[i])
          BY <1>3, <5>1 DEF SoundBuilder
        <5> QED BY <1>3, <3>3, <5>1, <5>2
      <4> QED BY <4>2, <4>3
    <3> QED BY <3>2, <3>4, <3>5 DEF SoundBuilder
  <2>2. CASE ~(name # <<>> /\ place <= MaxOffset)
    <3>1. Keep(b, name) = b
      BY <2>2 DEF Keep
    <3> QED BY <1>3, <3>1
  <2> QED BY <2>1, <2>2
<1> HIDE DEF c, w
<1>7. ASSUME NEW buf \in Seq(Octets), Begins(w.buf, buf) PROVE Found(buf, place, name, Len(w.buf))
  <2> HIDE DEF place
  <2>1. Stands(buf, place, name)
    BY <1>1, <1>2, <1>4, <1>5, <1>6, <1>7, StandsLonger
  <2>2. Found(buf, place, name, place + Len(Bytes(name)))
    BY <1>1, <2>1, WrittenNameRead
  <2> QED BY <1>3, <1>6, <2>2
<1> QED BY <1>3, <1>6, <1>7 DEF NameAfter, w

LEMMA Divided ==
  ASSUME NEW n \in Nat, NEW b \in Nat, b > 0
  PROVE  n = b * (n \div b) + (n % b) /\ n % b \in 0 .. b - 1 /\ n \div b \in Nat
OBVIOUS

LEMMA Remains ==
  ASSUME NEW q \in Nat, NEW c \in Nat, q < c
  PROVE  q % c = q
OBVIOUS

\* An offset and the two bytes of a pointer to it.
LEMMA Quotient ==
  ASSUME NEW n \in Nat, NEW b \in Nat, b > 0, NEW c \in Nat, n < c * b
  PROVE  /\ n = (n \div b) * b + (n % b) /\ n % b \in 0 .. b - 1
         /\ n \div b \in 0 .. c - 1 /\ (n \div b) % c = n \div b
<1> DEFINE q == n \div b
           m == n % b
<1>1. n = b * q + m /\ m \in 0 .. b - 1 /\ q \in Nat
  BY Divided
<1> HIDE DEF q, m
<1>2. q >= c => b * q >= b * c
  BY <1>1
<1>3. q < c
  BY <1>1, <1>2
<1>4. q % c = q
  BY <1>1, <1>3, Remains
<1>5. b * q = q * b
  BY <1>1
<1>6. n = q * b + m /\ m \in 0 .. b - 1 /\ q \in 0 .. c - 1 /\ q % c = q
  BY <1>1, <1>3, <1>4, <1>5
<1> QED BY <1>6 DEF q, m

LEMMA PointerWritten ==
  ASSUME NEW b, SoundBuilder(b), NEW name, FitName(name),
         NEW off \in Nat, off <= MaxOffset, Stands(b.buf, off, name)
  PROVE  LET ptr == <<PtrBits + ((off \div Byte) % (Byte - PtrBits)), off % Byte>>
             w == [b EXCEPT !.buf = @ \o ptr]
         IN  SoundBuilder(w) /\ Begins(b.buf, w.buf) /\ NameAfter(b, w, name)
<1> DEFINE high == (off \div Byte) % (Byte - PtrBits)
           low == off % Byte
           one == PtrBits + high
           ptr == <<one, low>>
           w == [b EXCEPT !.buf = @ \o ptr]
           place == Len(b.buf)
<1>1. b \in Builder /\ b.buf \in Seq(Octets) /\ place \in Nat
  BY DEF SoundBuilder, Builder
<1>2. name \in Seq(Label) /\ Len(Body(name)) \in Nat
  BY BodyType DEF FitName
<1>3. high \in 0 .. (Byte - PtrBits) - 1 /\ low \in 0 .. Byte - 1 /\ off = high * Byte + low
  <2> DEFINE c == Byte - PtrBits
  <2>1. Byte \in Nat /\ Byte > 0 /\ c \in Nat /\ MaxOffset < c * Byte /\ MaxOffset \in Nat
    BY Sizes
  <2> HIDE DEF c
  <2>2. c * Byte \in Nat
    BY <2>1
  <2>3. off < c * Byte
    BY <2>1, <2>2
  <2>4. /\ off = (off \div Byte) * Byte + (off % Byte) /\ off % Byte \in 0 .. Byte - 1
        /\ off \div Byte \in 0 .. c - 1 /\ (off \div Byte) % c = off \div Byte
    BY <2>1, <2>3, Quotient
  <2>5. high = (off \div Byte) % c /\ c = Byte - PtrBits
    BY DEF c
  <2>6. high = off \div Byte /\ low = off % Byte
    BY <2>4, <2>5
  <2> DEFINE h == off \div Byte
             l == off % Byte
  <2>a. h \in 0 .. c - 1 /\ l \in 0 .. Byte - 1 /\ off = h * Byte + l
    BY <2>4
  <2>b. high = h /\ low = l
    BY <2>6
  <2> HIDE DEF high, low, h, l
  <2>7. high \in 0 .. c - 1 /\ low \in 0 .. Byte - 1 /\ off = high * Byte + low
    BY <2>a, <2>b
  <2> QED BY <2>5, <2>7
<1> HIDE DEF high, low
<1>4. one \in Octets /\ one >= PtrBits /\ one - PtrBits = high /\ low \in Octets
  BY <1>3, Sizes DEF Octets
<1> HIDE DEF one
<1>5. ptr \in Seq(Octets) /\ Len(ptr) = 2 /\ ptr[1] = one /\ ptr[2] = low
  BY <1>4
<1> HIDE DEF ptr
<1>6. /\ SoundBuilder(w) /\ w.buf = b.buf \o ptr /\ Begins(b.buf, w.buf) /\ Len(w.buf) = place + 2
  BY <1>5, Extended
<1>7. w.buf \in Seq(Octets)
  BY <1>6 DEF SoundBuilder, Builder
<1>8. w.buf[place + 1] = one /\ w.buf[place + 2] = low
  <2>a. ptr \in Seq(Octets)
    BY <1>5
  <2>1. \A k \in 1 .. Len(ptr) : (b.buf \o ptr)[place + k] = ptr[k]
    BY <1>1, <2>a, BeginsLonger
  <2>2. 1 \in 1 .. Len(ptr) /\ 2 \in 1 .. Len(ptr)
    BY <1>5
  <2> HIDE DEF w, place
  <2> QED BY <1>5, <1>6, <2>1, <2>2
<1> HIDE DEF w
<1>9. ASSUME NEW buf \in Seq(Octets), Begins(w.buf, buf) PROVE Found(buf, place, name, Len(w.buf))
  <2>1. Begins(b.buf, buf)
    BY <1>1, <1>6, <1>7, <1>9, BeginsBoth
  <2>2. Stands(buf, off, name)
    BY <1>1, <1>2, <2>1, StandsLonger
  <2>3. off < place
    BY <1>1, <1>2 DEF Stands
  <2> HIDE DEF place
  <2>4. place + 2 <= Len(buf) /\ Len(buf) \in Nat
    BY <1>6, <1>9 DEF Begins
  <2>5. buf[place + 1] = one /\ buf[place + 2] = low
    <3>1. place + 1 \in 1 .. Len(w.buf) /\ place + 2 \in 1 .. Len(w.buf)
      BY <1>1, <1>6
    <3> QED BY <1>8, <1>9, <3>1 DEF Begins
  <2>6. At(buf, place) = one /\ At(buf, place + 1) = low
    <3>1. place + 1 + 1 = place + 2
      BY <1>1
    <3> QED BY <2>5, <3>1 DEF At
  <2>7. place + 1 < Len(buf)
    BY <1>1, <2>4
  <2>8. Points(buf, place, off)
    BY <1>3, <1>4, <2>3, <2>6, <2>7 DEF Points
  <2>9. Found(buf, place, name, place + 2)
    BY <1>1, <2>2, <2>8, PointedNameRead
  <2> QED BY <1>6, <2>9
<1> QED BY <1>6, <1>9 DEF NameAfter, w, ptr, one, high, low

\* A name that was written is found there, by a pointer or not, whatever
\* follows it, and every name that was written before is still found.
LEMMA NameWritten ==
  ASSUME NEW b, SoundBuilder(b), NEW name, FitName(name)
  PROVE  LET w == WriteName(b, name)
         IN  SoundBuilder(w) /\ Begins(b.buf, w.buf) /\ NameAfter(b, w, name)
<1> DEFINE known == {i \in DOMAIN b.names : b.names[i][1] = name}
           off == b.names[CHOOSE i \in known : TRUE][2]
<1>1. CASE known # {}
  <2> DEFINE i == CHOOSE j \in known : TRUE
             e == b.names[i]
  <2>1. i \in known
    BY <1>1
  <2>2. i \in DOMAIN b.names /\ e[1] = name
    BY <2>1
  <2> HIDE DEF i
  <2>3. Kept(b.buf, e) /\ e \in Seq(Label) \X Nat
    <3>1. b.names \in Seq(Seq(Label) \X Nat)
      BY DEF SoundBuilder, Builder
    <3> QED BY <2>2, <3>1, ElementOfSeq DEF SoundBuilder
  <2>4. off \in Nat /\ off <= MaxOffset /\ Stands(b.buf, off, name)
    BY <2>2, <2>3 DEF Kept, i
  <2>5. WriteName(b, name) =
          [b EXCEPT !.buf = @ \o <<PtrBits + ((off \div Byte) % (Byte - PtrBits)), off % Byte>>]
    BY <1>1 DEF WriteName
  <2> HIDE DEF off
  <2> QED BY <2>4, <2>5, PointerWritten
<1>2. CASE known = {}
  <2>1. WriteName(b, name) = [Keep(b, name) EXCEPT !.buf = @ \o Bytes(name)]
    BY <1>2 DEF WriteName
  <2> QED BY <2>1, NewNameWritten
<1> QED BY <1>1, <1>2

\* A record that was written is parsed as it was, whatever follows it.
RecordAfter(b, w, rr) ==
  \A buf \in Seq(Octets) :
    Begins(w.buf, buf) => ParseRecord(buf, Len(b.buf)) = [ok |-> TRUE, next |-> Len(w.buf), record |-> rr]

LEMMA RecordWritten ==
  ASSUME NEW b, SoundBuilder(b), NEW rr \in Records
  PROVE  LET w == WriteRecord(b, rr)
         IN  SoundBuilder(w) /\ Begins(b.buf, w.buf) /\ RecordAfter(b, w, rr)
<1> DEFINE v == WriteName(b, rr.owner)
           two == <<rr.type, Len(rr.data)>>
           u == [v EXCEPT !.buf = @ \o two]
           w == [u EXCEPT !.buf = @ \o rr.data]
           place == Len(b.buf)
           off == Len(v.buf)
           length == Len(rr.data)
           end == off + 2 + length
<1>1. /\ rr.owner \in Seq(Label) /\ rr.type \in Octets /\ rr.data \in Seq(Octets)
      /\ FitName(rr.owner) /\ length < Byte /\ length \in Nat
      /\ rr.type = NameType => \E name : FitName(name) /\ rr.data = Bytes(name)
      /\ rr = [owner |-> rr.owner, type |-> rr.type, data |-> rr.data]
  BY DEF Records, Record, SoundRecord
<1>2. SoundBuilder(v) /\ Begins(b.buf, v.buf) /\ NameAfter(b, v, rr.owner)
  BY <1>1, NameWritten
<1> HIDE DEF v
<1>3. two \in Seq(Octets) /\ Len(two) = 2 /\ two[1] = rr.type /\ two[2] = length
  BY <1>1, Sizes, SMTT(30) DEF Octets
<1> HIDE DEF two
<1>4. /\ SoundBuilder(u) /\ u.buf = v.buf \o two /\ Begins(v.buf, u.buf) /\ Len(u.buf) = off + 2
  BY <1>2, <1>3, Extended
<1>5. WriteRecord(b, rr) = w
  <2>1. u = [v EXCEPT !.buf = v.buf \o two]
    OBVIOUS
  <2>2. w = [v EXCEPT !.buf = (v.buf \o two) \o rr.data]
    BY <1>2, <1>4 DEF SoundBuilder, Builder
  <2>3. WriteRecord(b, rr) = [v EXCEPT !.buf = (v.buf \o two) \o rr.data]
    BY DEF WriteRecord, v, two
  <2> QED BY <2>2, <2>3
<1> HIDE DEF u
<1>6. /\ SoundBuilder(w) /\ w.buf = u.buf \o rr.data /\ Begins(u.buf, w.buf)
      /\ Len(w.buf) = Len(u.buf) + length
  BY <1>1, <1>4, Extended
<1> HIDE DEF w
<1>7. /\ b.buf \in Seq(Octets) /\ v.buf \in Seq(Octets) /\ u.buf \in Seq(Octets)
      /\ w.buf \in Seq(Octets) /\ place \in Nat /\ off \in Nat /\ Len(u.buf) \in Nat
  <2>1. /\ b.buf \in Seq(Octets) /\ v.buf \in Seq(Octets) /\ u.buf \in Seq(Octets)
        /\ w.buf \in Seq(Octets)
    BY <1>2, <1>4, <1>6 DEF SoundBuilder, Builder
  <2> QED BY <2>1
<1>8. u.buf[off + 1] = rr.type /\ u.buf[off + 2] = length
  <2>1. \A k \in 1 .. Len(two) : (v.buf \o two)[off + k] = two[k]
    <3>1. v.buf \in Seq(Octets) /\ two \in Seq(Octets)
      BY <1>3, <1>7
    <3> QED BY <3>1, BeginsLonger
  <2>2. 1 \in 1 .. Len(two) /\ 2 \in 1 .. Len(two)
    BY <1>3
  <2> HIDE DEF off, length
  <2> QED BY <1>3, <1>4, <2>1, <2>2
<1>9. \A k \in 1 .. length : w.buf[off + 2 + k] = rr.data[k]
  <2> DEFINE c == u.buf
             d == rr.data
  <2>1. c \in Seq(Octets) /\ d \in Seq(Octets)
    BY <1>1, <1>7
  <2>2. w.buf = c \o d /\ Len(c) = off + 2 /\ length = Len(d)
    BY <1>4, <1>6
  <2> HIDE DEF c, d, off, length
  <2>3. \A k \in 1 .. Len(d) : (c \o d)[Len(c) + k] = d[k]
    BY <2>1, BeginsLonger
  <2>4. \A k \in 1 .. length : w.buf[off + 2 + k] = d[k]
    BY <2>2, <2>3
  <2> QED BY <2>4 DEF d
<1>10. Begins(v.buf, w.buf) /\ Begins(b.buf, w.buf) /\ Len(w.buf) = end
  <2>1. Begins(v.buf, w.buf)
    BY <1>4, <1>6, <1>7, BeginsBoth
  <2>2. Begins(b.buf, w.buf)
    BY <1>2, <1>7, <2>1, BeginsBoth
  <2> QED BY <1>4, <1>6, <2>1, <2>2
<1> HIDE DEF place, off, length
<1>11. ASSUME NEW buf \in Seq(Octets), Begins(w.buf, buf)
       PROVE  ParseRecord(buf, place) = [ok |-> TRUE, next |-> Len(w.buf), record |-> rr]
  <2> DEFINE r == ReadName(buf, place)
             x == ExpandRData(buf, off + 2, length, rr.type)
             start == off + 2
  <2>1. Begins(v.buf, buf) /\ Begins(u.buf, buf)
    BY <1>6, <1>7, <1>10, <1>11, BeginsBoth
  <2>2. r.state = "done" /\ r.labels = rr.owner /\ r.end = off
    BY <1>2, <2>1 DEF NameAfter, Found, place, off
  <2> HIDE DEF r
  <2>3. Len(buf) \in Nat /\ end <= Len(buf) /\ off + 2 <= Len(buf) /\ end \in 0 .. Len(buf)
        /\ end \in Nat /\ start \in Nat
    <3>1. Len(w.buf) <= Len(buf) /\ Len(buf) \in Nat
      BY <1>11 DEF Begins
    <3> QED BY <1>1, <1>7, <1>10, <3>1, SMTT(30)
  <2>4. At(buf, off) = rr.type /\ At(buf, off + 1) = length
    <3>1. off + 1 \in 1 .. Len(u.buf) /\ off + 2 \in 1 .. Len(u.buf) /\ off + 1 + 1 = off + 2
      BY <1>4, <1>7 DEF off
    <3> QED BY <1>8, <2>1, <3>1 DEF Begins, At
  <2>5. \A k \in 1 .. length : buf[start + k] = rr.data[k]
    <3> TAKE k \in 1 .. length
    <3>1. start + k \in 1 .. Len(w.buf)
      BY <1>1, <1>7, <1>10, SMTT(30)
    <3> QED BY <1>9, <1>11, <3>1 DEF Begins
  <2>6. x.ok /\ x.data = rr.data
    <3>1. CASE rr.type = NameType
      <4> DEFINE upto == SubSeq(buf, 1, end)
                 n == ReadName(upto, start)
      <4>1. PICK name : FitName(name) /\ rr.data = Bytes(name)
        BY <1>1, <3>1
      <4>2. name \in Seq(Label) /\ Len(Body(name)) \in Nat /\ length = Len(Body(name)) + 1
        BY <4>1, BodyType, BytesMeaning DEF FitName, length
      <4>3. x = [ok |-> n.state = "done" /\ n.end = end, data |-> Bytes(n.labels)]
        BY <3>1 DEF ExpandRData
      <4>4. upto \in Seq(Octets) /\ Len(upto) = end /\ Begins(upto, buf)
        BY <2>3, UpTo
      <4> HIDE DEF x, n, upto
      <4>5. Stands(upto, start, name)
        <5>1. start + Len(Body(name)) < Len(upto)
          BY <1>7, <4>2, <4>4
        <5>2. ASSUME NEW k \in 1 .. Len(Body(name)) + 1 PROVE upto[start + k] = Bytes(name)[k]
          <6>1. k \in 1 .. length /\ start + k \in 1 .. Len(upto)
            BY <1>7, <4>2, <4>4
          <6>2. upto[start + k] = buf[start + k]
            BY <4>4, <6>1 DEF Begins
          <6> QED BY <2>5, <4>1, <6>1, <6>2
        <5> QED BY <5>1, <5>2 DEF Stands
      <4>6. Found(upto, start, name, start + Len(Bytes(name)))
        <5> HIDE DEF start
        <5> QED BY <2>3, <4>1, <4>4, <4>5, WrittenNameRead
      <4>7. start + Len(Bytes(name)) = end
        BY <4>1 DEF length
      <4> QED BY <4>1, <4>3, <4>6, <4>7 DEF Found, n
    <3>2. CASE rr.type # NameType
      <4> DEFINE data == SubSeq(buf, start + 1, end)
      <4>1. x = [ok |-> TRUE, data |-> data]
        BY <3>2 DEF ExpandRData
      <4>2. /\ data \in Seq(Octets) /\ Len(data) = length
            /\ \A k \in 1 .. length : data[k] = buf[start + k]
        <5>a. off \in Nat /\ length \in Nat
          BY <1>1, <1>7
        <5>1. start + 1 \in Int /\ end \in Int /\ end = start + length
              /\ (start + 1 <= end => end - (start + 1) + 1 = length)
              /\ (~(start + 1 <= end) => length = 0)
          BY <5>a
        <5>2. \A i \in start + 1 .. end : buf[i] \in Octets
          <6> TAKE i \in start + 1 .. end
          <6>1. i \in 1 .. Len(buf)
            BY <1>7, <2>3
          <6> QED BY <6>1, ElementOfSeq
        <5> DEFINE from == start + 1
        <5>3. /\ SubSeq(buf, from, end) \in Seq(Octets)
              /\ Len(SubSeq(buf, from, end)) = IF from <= end THEN end - from + 1 ELSE 0
              /\ \A k \in 1 .. end - from + 1 : SubSeq(buf, from, end)[k] = buf[from + k - 1]
          <6> HIDE DEF from, end
          <6>1. from \in Int /\ end \in Int /\ \A i \in from .. end : buf[i] \in Octets
            BY <5>1, <5>2 DEF from
          <6> QED BY <6>1, SubSeqProperties
        <5>4. ASSUME NEW k \in 1 .. length PROVE data[k] = buf[start + k]
          <6>1. k \in 1 .. end - from + 1 /\ from + k - 1 = start + k
            BY <5>a
          <6> QED BY <5>3, <6>1
        <5> QED BY <5>1, <5>3, <5>4
      <4> HIDE DEF data, x
      <4>3. \A k \in 1 .. Len(data) : data[k] = rr.data[k]
        BY <2>5, <4>2
      <4>4. data = rr.data
        BY <1>1, <4>2, <4>3, SeqEqual DEF length
      <4> QED BY <4>1, <4>4
    <3> QED BY <3>1, <3>2
  <2> HIDE DEF x, start
  <2>7. ~(off + 2 > Len(buf)) /\ ~(off + 2 + length > Len(buf))
    BY <1>1, <1>7, <2>3, SMTT(30)
  <2>8. ParseRecord(buf, place) =
          [ok |-> TRUE, next |-> off + 2 + length,
           record |-> [owner |-> r.labels, type |-> rr.type, data |-> x.data]]
    BY <2>2, <2>4, <2>6, <2>7 DEF ParseRecord, r, x
  <2> QED BY <1>1, <1>10, <2>2, <2>6, <2>8
<1>12. RecordAfter(b, w, rr)
  BY <1>11 DEF RecordAfter, place
<1> QED BY <1>5, <1>6, <1>10, <1>12

-----------------------------------------------------------------------------
(* Whole messages *)

\* The question, with nothing after it.
LEMMA QuestionWritten ==
  ASSUME NEW question, FitName(question)
  PROVE  LET w == WriteName(NewBuilder, question)
             a == Asked(question)
         IN  /\ SoundBuilder(w) /\ NameAfter(NewBuilder, w, question)
             /\ SoundBuilder(a) /\ Begins(w.buf, a.buf) /\ Len(a.buf) = Len(w.buf) + 1
             /\ Len(NewBuilder.buf) = Header
             /\ Len(a.buf) = Header + Len(Bytes(question)) + 1
<1> DEFINE b == NewBuilder
           w == WriteName(b, question)
           zero == <<0>>
           a == [w EXCEPT !.buf = @ \o zero]
<1>1. /\ b.buf = Filler(Header) /\ b.names = <<>> /\ b \in Builder /\ Len(b.buf) = Header
      /\ Header \in Nat
  <2>1. Header \in Nat /\ 0 \in Octets
    BY Sizes DEF Octets
  <2>2. Filler(Header) \in Seq(Octets) /\ Len(Filler(Header)) = Header
    BY <2>1 DEF Filler
  <2> HIDE DEF b
  <2>3. b = [buf |-> Filler(Header), names |-> <<>>]
    BY DEF NewBuilder, b
  <2>4. <<>> \in Seq(Seq(Label) \X Nat)
    OBVIOUS
  <2> QED BY <2>1, <2>2, <2>3, <2>4 DEF Builder
<1>2. SoundBuilder(b)
  BY <1>1 DEF SoundBuilder
<1> HIDE DEF b
<1>3. SoundBuilder(w) /\ NameAfter(b, w, question)
  BY <1>2, NameWritten
<1>4. Len(w.buf) = Header + Len(Bytes(question))
  <2>1. {i \in DOMAIN b.names : b.names[i][1] = question} = {}
    BY <1>1
  <2>2. w = [Keep(b, question) EXCEPT !.buf = @ \o Bytes(question)]
    BY <2>1 DEF WriteName
  <2> QED BY <1>1, <1>2, <2>2, NewNameWritten
<1> HIDE DEF w
<1>5. zero \in Seq(Octets) /\ Len(zero) = 1 /\ 0 \in Octets
  BY Sizes DEF Octets
<1>6. w.buf \in Seq(Octets) /\ Len(w.buf) \in Nat
  BY <1>3 DEF SoundBuilder, Builder
<1>7. a = Asked(question)
  <2>1. Append(w.buf, 0) = w.buf \o zero
    BY <1>5, <1>6, AppendIsConcat
  <2> QED BY <2>1 DEF Asked, w, b
<1> HIDE DEF zero
<1>8. SoundBuilder(a) /\ Begins(w.buf, a.buf) /\ Len(a.buf) = Len(w.buf) + 1
  BY <1>3, <1>5, Extended
<1> QED BY <1>1, <1>3, <1>4, <1>6, <1>7, <1>8 DEF w, b

\* The messages we build are parsed as what was put into them.
THEOREM BuiltMessageParsed ==
  ASSUME NEW question, FitName(question), NEW records \in Seq(Records)
  PROVE  LET buf == Build(question, records)
             q == ReadName(buf, Header)
         IN  /\ buf \in Seq(Octets)
             /\ q.state = "done" /\ q.labels = question /\ q.end \in Nat /\ q.end + 1 <= Len(buf)
             /\ ParseRecords(buf, q.end + 1, Len(records)) =
                  [ok |-> TRUE, next |-> Len(buf), records |-> records]
<1> DEFINE N == Len(records)
           w == WriteName(NewBuilder, question)
           a == Asked(question)
<1>1. N \in Nat
  OBVIOUS
<1>2. PICK b : Building(b, question, records)
  BY <1>1, BuildSteps
<1>3. /\ Build(question, records) = b[N].buf /\ b[0] = a
      /\ \A n \in 1 .. N : b[n] = WriteRecord(b[n - 1], records[n])
  BY <1>2 DEF Building
<1>4. /\ SoundBuilder(w) /\ NameAfter(NewBuilder, w, question) /\ SoundBuilder(a)
      /\ Begins(w.buf, a.buf) /\ Len(a.buf) = Len(w.buf) + 1 /\ Len(NewBuilder.buf) = Header
  BY QuestionWritten
<1> HIDE DEF w, a
<1> DEFINE Sound(n) == SoundBuilder(b[n])
           T == {n \in 0 .. N : Sound(n)}
<1>5. ASSUME NEW n \in 0 .. N - 1, Sound(n)
      PROVE  /\ Sound(n + 1) /\ Begins(b[n].buf, b[n + 1].buf)
             /\ RecordAfter(b[n], b[n + 1], records[n + 1])
  <2>1. n + 1 \in 1 .. N /\ (n + 1) - 1 = n
    BY <1>1
  <2>2. b[n + 1] = WriteRecord(b[n], records[n + 1]) /\ records[n + 1] \in Records
    BY <1>3, <2>1, ElementOfSeq
  <2> QED BY <1>5, <2>2, RecordWritten
<1> HIDE DEF Sound
<1>6. \A n \in 0 .. N : Sound(n)
  <2>1. 0 \in T
    BY <1>1, <1>3, <1>4 DEF Sound
  <2>2. \A n \in 0 .. N - 1 : n \in T => n + 1 \in T
    BY <1>1, <1>5
  <2> HIDE DEF T, N
  <2>3. \A n \in 0 .. N : n \in T
    BY <1>1, <2>1, <2>2, BoundedInduction
  <2> QED BY <2>3 DEF T
<1>7. \A n \in 0 .. N : b[n].buf \in Seq(Octets) /\ Len(b[n].buf) \in Nat
  BY <1>6 DEF Sound, SoundBuilder, Builder
\* Every builder is the beginning of the last.
<1>8. \A n \in 0 .. N : Begins(b[n].buf, b[N].buf)
  <2> DEFINE U == {d \in 0 .. N : Begins(b[N - d].buf, b[N].buf)}
  <2>1. 0 \in U
    <3>1. N - 0 = N /\ 0 \in 0 .. N /\ N \in 0 .. N
      BY <1>1
    <3>2. Begins(b[N].buf, b[N].buf)
      BY <1>7, <3>1 DEF Begins
    <3> QED BY <3>1, <3>2
  <2>2. ASSUME NEW d \in 0 .. N - 1, d \in U PROVE d + 1 \in U
    <3> DEFINE n == N - (d + 1)
    <3>1. n \in 0 .. N - 1 /\ n \in 0 .. N /\ n + 1 = N - d /\ n + 1 \in 0 .. N /\ d + 1 \in 0 .. N
      BY <1>1
    <3>2. Begins(b[n + 1].buf, b[N].buf)
      BY <2>2, <3>1
    <3> HIDE DEF n
    <3>3. Begins(b[n].buf, b[n + 1].buf)
      BY <1>5, <1>6, <3>1
    <3>4. Begins(b[n].buf, b[N].buf)
      BY <1>7, <3>1, <3>2, <3>3, BeginsBoth
    <3> QED BY <3>1, <3>4 DEF n
  <2> HIDE DEF U, N
  <2>3. \A d \in 0 .. N : d \in U
    BY <1>1, <2>1, <2>2, BoundedInduction
  <2> TAKE n \in 0 .. N
  <2>4. N - n \in 0 .. N /\ N - (N - n) = n
    BY <1>1
  <2>5. N - n \in U
    BY <2>3, <2>4
  <2> QED BY <2>4, <2>5 DEF U
<1> DEFINE buf == b[N].buf
           q == ReadName(buf, Header)
           e == Len(w.buf)
<1>9. buf \in Seq(Octets) /\ Len(buf) \in Nat /\ Begins(a.buf, buf)
  BY <1>1, <1>3, <1>7, <1>8
<1>10. w.buf \in Seq(Octets) /\ a.buf \in Seq(Octets) /\ e \in Nat
  BY <1>4 DEF SoundBuilder, Builder
<1> HIDE DEF buf
<1>11. q.state = "done" /\ q.labels = question /\ q.end = e
  <2>1. Begins(w.buf, buf)
    BY <1>4, <1>9, <1>10, BeginsBoth
  <2> QED BY <1>4, <1>9, <2>1 DEF NameAfter, Found
<1>12. e + 1 <= Len(buf) /\ e + 1 = Len(b[0].buf)
  BY <1>3, <1>4, <1>9, <1>10 DEF Begins
<1> HIDE DEF q, e
<1>13. PICK p : Parsing(p, buf, e + 1, N)
  BY <1>1, ParseSteps
<1>14. /\ ParseRecords(buf, e + 1, N) = p[N] /\ p[0] = NoneParsed(e + 1)
       /\ \A n \in 1 .. N : p[n] = AlsoParsed(buf, p[n - 1])
  BY <1>13 DEF Parsing
<1> DEFINE Upto(n) == [ok |-> TRUE, next |-> Len(b[n].buf), records |-> First(records, n)]
           V == {n \in 0 .. N : p[n] = Upto(n)}
<1>15. 0 \in V
  <2>1. First(records, 0) = <<>>
    BY <1>1, FirstOnes
  <2>2. p[0] = [ok |-> TRUE, next |-> e + 1, records |-> <<>>]
    BY <1>14 DEF NoneParsed
  <2>3. Upto(0) = [ok |-> TRUE, next |-> e + 1, records |-> <<>>]
    BY <1>12, <2>1
  <2>4. 0 \in 0 .. N
    BY <1>1
  <2> HIDE DEF Upto
  <2> QED BY <2>2, <2>3, <2>4
<1>16. ASSUME NEW n \in 0 .. N - 1, n \in V PROVE n + 1 \in V
  <2> DEFINE x == ParseRecord(buf, Len(b[n].buf))
  <2>1. n + 1 \in 1 .. N /\ (n + 1) - 1 = n /\ n + 1 \in 0 .. N /\ n \in 0 .. N /\ n < N
    BY <1>1
  <2>2. p[n] = Upto(n) /\ p[n + 1] = AlsoParsed(buf, p[n])
    BY <1>14, <1>16, <2>1
  <2>3. x = [ok |-> TRUE, next |-> Len(b[n + 1].buf), record |-> records[n + 1]]
    <3>1. RecordAfter(b[n], b[n + 1], records[n + 1])
      BY <1>5, <1>6, <2>1
    <3>2. Begins(b[n + 1].buf, buf)
      BY <1>8, <2>1 DEF buf
    <3> QED BY <1>9, <3>1, <3>2 DEF RecordAfter
  <2>4. First(records, n + 1) = Append(First(records, n), records[n + 1])
    BY <2>1, FirstOnes
  <2> HIDE DEF x, V
  <2>5. /\ p[n].ok = TRUE /\ p[n].next = Len(b[n].buf) /\ p[n].records = First(records, n)
        /\ x.ok = TRUE /\ x.next = Len(b[n + 1].buf) /\ x.record = records[n + 1]
    BY <2>2, <2>3
  <2>6. p[n + 1] = [ok |-> TRUE, next |-> x.next, records |-> Append(First(records, n), x.record)]
    BY <2>2, <2>5 DEF AlsoParsed, x
  <2>7. p[n + 1] = Upto(n + 1)
    BY <2>4, <2>5, <2>6
  <2> QED BY <2>1, <2>7 DEF V
<1>17. N \in V
  <2> HIDE DEF V, N
  <2>1. N \in 0 .. N
    BY <1>1
  <2> QED BY <1>1, <1>15, <1>16, <2>1, BoundedInduction
<1>18. p[N] = [ok |-> TRUE, next |-> Len(buf), records |-> records]
  <2>1. First(records, N) = records
    BY <1>1, FirstOnes
  <2> QED BY <1>17, <2>1 DEF buf
<1>19. Build(question, records) = buf
  BY <1>3 DEF buf
<1> HIDE DEF N
<1>20. /\ q.end \in Nat /\ q.end + 1 <= Len(buf)
       /\ ParseRecords(buf, q.end + 1, N) = [ok |-> TRUE, next |-> Len(buf), records |-> records]
  BY <1>10, <1>11, <1>12, <1>14, <1>18
<1> QED BY <1>9, <1>11, <1>19, <1>20 DEF q, N

-----------------------------------------------------------------------------
(* What is put into a reply *)

\* The reply holds nothing yet, or the records of the message.
ReplyInv ==
  /\ message \in Messages
  /\ reply \in [question : Questions, records : Seq(Records), limit : Limits]
  /\ reply.records # <<>> =>
       LET x == ParseRecords(message.buf, Header, message.count)
       IN  x.ok /\ reply.records = x.records

LEMMA ReplyInit == Init => ReplyInv
<1> SUFFICES ASSUME Init PROVE ReplyInv
  OBVIOUS
<1>1. <<>> \in Seq(Records)
  OBVIOUS
<1>2. PICK q \in Questions, l \in Limits : reply = [question |-> q, records |-> <<>>, limit |-> l]
  BY DEF Init
<1> QED BY <1>1, <1>2 DEF Init, ReplyInv

LEMMA ReplyNext == ReplyInv /\ [Next]_vars => ReplyInv'
<1> SUFFICES ASSUME ReplyInv, [Next]_vars PROVE ReplyInv'
  OBVIOUS
<1>1. CASE Read
  BY <1>1 DEF Read, ReplyInv
<1>2. CASE Answer
  <2> DEFINE x == ParseRecords(message.buf, Header, message.count)
  <2>1. x.ok /\ reply' = [reply EXCEPT !.records = x.records] /\ message' = message
    BY <1>2 DEF Answer
  <2>2. x.records \in Seq(Records)
    <3>1. message.buf \in Seq(Octets) /\ message.count \in Nat /\ Header \in Nat
      BY MessageType, Sizes DEF ReplyInv
    <3> QED BY <2>1, <3>1, RecordsParsed
  <2>3. ParseRecords(message.buf, Header, message.count)' = x
    BY <2>1
  <2> HIDE DEF x
  <2>4. /\ reply' \in [question : Questions, records : Seq(Records), limit : Limits]
        /\ reply'.records = x.records
    BY <2>1, <2>2 DEF ReplyInv
  <2> QED BY <2>1, <2>3, <2>4 DEF ReplyInv
<1>3. CASE UNCHANGED vars
  BY <1>3 DEF vars, ReplyInv
<1> QED BY <1>1, <1>2, <1>3 DEF Next

LEMMA QuestionsFit ==
  ASSUME NEW q \in Questions
  PROVE  FitName(q) /\ Len(Bytes(q)) \in Nat /\ Len(Bytes(q)) <= MaxName
<1>1. /\ q \in Seq(Seq(Octets)) /\ Len(Bytes(q)) <= MaxName
      /\ \A i \in DOMAIN q : Len(q[i]) \in 1 .. MaxLabel
  BY QuestionAssumption DEF Octets
<1>2. q \in Seq(Label)
  <2>1. Len(q) \in Nat /\ DOMAIN q = 1 .. Len(q) /\ q = [i \in 1 .. Len(q) |-> q[i]]
    BY <1>1
  <2>2. \A i \in 1 .. Len(q) : q[i] \in Label
    BY <1>1, <2>1, ElementOfSeq DEF Label
  <2> QED BY <2>1, <2>2
<1>3. Len(Bytes(q)) = Len(Body(q)) + 1 /\ Len(Body(q)) \in Nat
  BY <1>2, BytesMeaning, BodyType
<1>4. MaxName \in Nat
  BY Sizes
<1> QED BY <1>1, <1>2, <1>3, <1>4 DEF FitName

LEMMA LimitsSuffice ==
  ASSUME NEW limit \in Limits, limit > 0, NEW q \in Questions
  PROVE  Len(Build(q, <<>>)) <= limit
<1>1. FitName(q) /\ Len(Bytes(q)) \in Nat /\ Len(Bytes(q)) <= MaxName
  BY QuestionsFit
<1>2. PICK b : Building(b, q, <<>>)
  <2>1. Len(<<>>) \in Nat
    OBVIOUS
  <2> QED BY <2>1, BuildSteps
<1>3. Build(q, <<>>) = Asked(q).buf
  BY <1>2 DEF Building
<1>4. Len(Asked(q).buf) = Header + Len(Bytes(q)) + 1
  BY <1>1, QuestionWritten
<1>5. limit \in Nat /\ limit >= Header + MaxName + 1 /\ Header \in Nat /\ MaxName \in Nat
  BY WireAssumption
<1> QED BY <1>1, <1>3, <1>4, <1>5

LEMMA ReplyImplies == ReplyInv => CopySafe
<1> SUFFICES ASSUME ReplyInv PROVE CopySafe
  OBVIOUS
<1> DEFINE question == reply.question
           records == reply.records
           limit == reply.limit
           out == BuildReply(reply)
           m == ParseMessage(out)
           first == ReadName(out.buf, Header).end + 1
           told == IF out.tc THEN <<>> ELSE records
           whole == Build(question, records)
           short == limit > 0 /\ Len(whole) > limit
<1>1. question \in Questions /\ records \in Seq(Records) /\ limit \in Limits
  BY DEF ReplyInv
<1>2. FitName(question)
  BY <1>1, QuestionsFit
<1>3. /\ short => out = [buf |-> Build(question, <<>>), count |-> 0, tc |-> TRUE]
      /\ ~short => out = [buf |-> whole, count |-> Len(records), tc |-> FALSE]
  BY DEF BuildReply
<1>4. told \in Seq(Records) /\ out.buf = Build(question, told) /\ out.count = Len(told)
      /\ out.tc = short
  <2>1. CASE short
    <3>1. out.tc = TRUE /\ told = <<>> /\ out.buf = Build(question, <<>>) /\ out.count = 0
      BY <1>3, <2>1
    <3>2. <<>> \in Seq(Records) /\ Len(<<>>) = 0
      OBVIOUS
    <3> QED BY <2>1, <3>1, <3>2
  <2>2. CASE ~short
    <3>1. out.tc = FALSE /\ told = records /\ out.buf = whole /\ out.count = Len(records)
      BY <1>3, <2>2
    <3> QED BY <1>1, <2>2, <3>1
  <2> QED BY <2>1, <2>2
<1> HIDE DEF out, told
<1> DEFINE buf == out.buf
           q == ReadName(buf, Header)
           x == ParseRecords(buf, q.end + 1, out.count)
<1>5. /\ buf \in Seq(Octets)
      /\ q.state = "done" /\ q.labels = question /\ q.end \in Nat /\ q.end + 1 <= Len(buf)
      /\ x = [ok |-> TRUE, next |-> Len(buf), records |-> told]
  BY <1>2, <1>4, BuiltMessageParsed
<1>6. m = [ok |-> TRUE, question |-> question, records |-> told]
  <2>1. q.state = "done" /\ ~(q.end + 1 > Len(buf))
    BY <1>5
  <2>2. m = [ok |-> x.ok, question |-> q.labels, records |-> x.records]
    BY <2>1 DEF ParseMessage
  <2> HIDE DEF q, x
  <2> QED BY <1>5, <2>2
<1>7. m.ok /\ m.question = reply.question /\ m.records = told
  BY <1>6
<1>8. limit > 0 => Len(out.buf) <= limit
  <2> SUFFICES ASSUME limit > 0 PROVE Len(out.buf) <= limit
    OBVIOUS
  <2>1. CASE short
    BY <1>1, <1>3, <2>1, LimitsSuffice
  <2>2. CASE ~short
    <3>1. out.buf = whole /\ ~(Len(whole) > limit)
      BY <1>3, <2>2
    <3>2. Len(out.buf) \in Nat /\ limit \in Nat
      BY <1>1, <1>5, WireAssumption, SMTT(30)
    <3> QED BY <3>1, <3>2
  <2> QED BY <2>1, <2>2
<1>9. ASSUME ~out.tc, records # <<>>
      PROVE  Targets(out.buf, first, out.count) = Targets(message.buf, Header, message.count)
  <2>1. told = records
    BY <1>9 DEF told
  <2>2. Targets(buf, first, out.count) = NamesOf(records)
    <3>1. first = q.end + 1 /\ first \in Nat /\ out.count \in Nat
      BY <1>4, <1>5
    <3>2. x.ok /\ x.records = records
      BY <1>5, <2>1
    <3> HIDE DEF first, q, buf
    <3> QED BY <1>5, <3>1, <3>2, RecordsParsed
  <2> DEFINE y == ParseRecords(message.buf, Header, message.count)
  <2>3. y.ok /\ records = y.records
    BY <1>9 DEF ReplyInv
  <2>4. message.buf \in Seq(Octets) /\ message.count \in Nat /\ Header \in Nat
    BY MessageType, Sizes DEF ReplyInv
  <2>5. Targets(message.buf, Header, message.count) = NamesOf(records)
    BY <2>3, <2>4, RecordsParsed
  <2> QED BY <2>2, <2>5
<1> HIDE DEF m, first
<1> QED BY <1>7, <1>8, <1>9 DEF CopySafe, out, m, first, told

\* Whatever a server sends, its records mean the same in the reply that they
\* are put into, or are left out and said to be (expandRData, buildReply).
THEOREM CopiesAreSafe == Spec => []CopySafe
BY ReplyInit, ReplyNext, ReplyImplies, PTL DEF Spec

=============================================================================
