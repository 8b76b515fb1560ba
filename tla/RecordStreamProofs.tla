------------------------- MODULE RecordStreamProofs -------------------------
(***************************************************************************)
(* Lemmas about ReadCache: what GetArray reads and where it and SkipBytes  *)
(* leave the reader, for blocks of any number and size, and where the      *)
(* records are that it recognises.                                         *)
(***************************************************************************)
EXTENDS RecordStream, DataInduction, FiniteSetTheorems

-----------------------------------------------------------------------------
(* Sums *)

LEMMA SumsIsSum ==
  ASSUME NEW n \in Nat, NEW s \in [1 .. n -> Nat]
  PROVE  IsSum(Sums(s), s, n)
<1> DEFINE IsSumOf(g) == g = [i \in 0 .. n |-> IF i = 0 THEN 0 ELSE g[i - 1] + s[i]]
           sum == CHOOSE g : IsSumOf(g)
<1>1. \E g : IsSumOf(g)
  <2>1. PICK g : IsSum(g, s, n)
    BY SumExists
  <2> QED
    BY <2>1 DEF IsSum
<1>2. IsSumOf(sum)
  BY <1>1, Zenon
<1>3. Len(s) = n
  OBVIOUS
<1>4. Sums(s) = sum
  BY <1>3 DEF Sums
<1> QED
  BY <1>2, <1>4 DEF IsSum

LEMMA SumsValues ==
  ASSUME NEW n \in Nat, NEW s \in [1 .. n -> Nat]
  PROVE  /\ Sums(s) \in [0 .. n -> Nat]
         /\ Sums(s)[0] = 0
         /\ \A i \in 1 .. n : Sums(s)[i] = Sums(s)[i - 1] + s[i]
         /\ \A i, j \in 0 .. n : i <= j => Sums(s)[i] <= Sums(s)[j]
<1>1. IsSum(Sums(s), s, n)
  BY SumsIsSum
<1>2. /\ Sums(s) \in [0 .. n -> Nat]
      /\ Sums(s)[0] = 0
      /\ \A i \in 1 .. n : Sums(s)[i] = Sums(s)[i - 1] + s[i]
  BY <1>1, SumValues
<1>3. \A i, j \in 0 .. n : i <= j => Sums(s)[i] <= Sums(s)[j]
  BY <1>1, SumMonotone
<1> QED
  BY <1>2, <1>3

\* Ends[b] is the end of block b.
LEMMA EndsValues ==
  ASSUME blocks \in Seq(Blocks)
  PROVE  /\ Len(blocks) \in Nat
         /\ Ends \in [0 .. Len(blocks) -> Nat]
         /\ Ends[0] = 0
         /\ \A b \in 1 .. Len(blocks) :
              /\ blocks[b] \in Blocks
              /\ blocks[b].size \in Nat
              /\ Ends[b] = Ends[b - 1] + blocks[b].size
         /\ \A a, b \in 0 .. Len(blocks) : a <= b => Ends[a] <= Ends[b]
         /\ DataSize \in Nat
<1>1. PICK n \in Nat : n = Len(blocks) /\ DOMAIN blocks = 1 .. n
  OBVIOUS
<1>2. \A b \in 1 .. n : blocks[b] \in Blocks /\ blocks[b].size \in Nat
  <2>1. \A b \in 1 .. n : blocks[b] \in Blocks
    BY <1>1
  <2>2. \A x \in Blocks : x.size \in Nat
    BY DEF Blocks
  <2> QED
    BY <2>1, <2>2
<1> DEFINE s == [b \in DOMAIN blocks |-> blocks[b].size]
<1>3. s \in [1 .. n -> Nat] /\ \A b \in 1 .. n : s[b] = blocks[b].size
  BY <1>1, <1>2
<1>4. Ends = Sums(s)
  BY DEF Ends
<1> HIDE DEF s
<1>5. /\ Sums(s) \in [0 .. n -> Nat]
      /\ Sums(s)[0] = 0
      /\ \A i \in 1 .. n : Sums(s)[i] = Sums(s)[i - 1] + s[i]
      /\ \A i, j \in 0 .. n : i <= j => Sums(s)[i] <= Sums(s)[j]
  BY <1>3, SumsValues
<1>6. n \in 0 .. n /\ DataSize = Sums(s)[n]
  BY <1>1, <1>4 DEF DataSize
<1> QED
  BY <1>1, <1>2, <1>3, <1>4, <1>5, <1>6

-----------------------------------------------------------------------------
(* The reader *)

Readers ==
  [block_index : Nat, file_index : Nat, file_buffer : Nat,
   position : [block : Nat, byte : Nat], data_count : Nat]

\* The reader is in a block, and the rest of the block comes from where it is.
Located(c) ==
  /\ c \in Readers
  /\ c.block_index <= Len(blocks)
  /\ c.file_index <= BlockSize(c)
  /\ c.file_index < BlockSize(c) =>
       IF blocks[c.block_index].kind = "DZ"
       THEN c.file_buffer = c.block_index
       ELSE c.file_buffer = 0 /\ c.position = [block |-> c.block_index, byte |-> c.file_index]

\* n bytes of the data behind the first a
Run(a, n) == [k \in 1 .. n |-> a + k]

LEMMA RunType ==
  ASSUME NEW a \in Nat, NEW n \in Nat
  PROVE  Run(a, n) \in Seq(Nat) /\ Len(Run(a, n)) = n
BY DEF Run

LEMMA RunConcat ==
  ASSUME NEW a \in Nat, NEW n \in Nat, NEW m \in Nat
  PROVE  Run(a, n) \o Run(a + n, m) = Run(a, n + m)
<1> DEFINE s == Run(a, n)
           t == Run(a + n, m)
           r == Run(a, n + m)
<1>1. /\ s \in Seq(Nat) /\ Len(s) = n /\ t \in Seq(Nat) /\ Len(t) = m
      /\ r \in Seq(Nat) /\ Len(r) = n + m
  <2>1. a + n \in Nat /\ n + m \in Nat
    OBVIOUS
  <2> QED
    BY <2>1, RunType
<1>2. /\ \A k \in 1 .. n : s[k] = a + k
      /\ \A k \in 1 .. m : t[k] = a + n + k
      /\ \A k \in 1 .. n + m : r[k] = a + k
  BY DEF Run
<1> HIDE DEF s, t, r
<1>3. /\ s \o t \in Seq(Nat) /\ Len(s \o t) = n + m
      /\ \A k \in 1 .. n + m : (s \o t)[k] = IF k <= n THEN s[k] ELSE t[k - n]
  BY <1>1, ConcatProperties
<1>4. \A k \in 1 .. n + m : (s \o t)[k] = r[k]
  BY <1>2, <1>3, SMTT(30)
<1>5. s \o t = r
  BY <1>1, <1>3, <1>4, SeqEqual
<1> QED
  BY <1>5 DEF s, t, r

LEMMA PlaceType ==
  ASSUME blocks \in Seq(Blocks), NEW c, Located(c)
  PROVE  /\ c.block_index \in 0 .. Len(blocks)
         /\ c.file_index \in Nat /\ c.data_count \in Nat
         /\ BlockSize(c) \in Nat /\ Place(c) \in Nat
         /\ Place(c) + (BlockSize(c) - c.file_index) = Ends[c.block_index]
         /\ Place(c) <= DataSize
<1>1. c.block_index \in Nat /\ c.file_index \in Nat /\ c.data_count \in Nat
      /\ c.block_index <= Len(blocks) /\ c.file_index <= BlockSize(c)
  BY DEF Located, Readers
<1>2. c.block_index \in 0 .. Len(blocks) /\ Len(blocks) \in 0 .. Len(blocks)
  BY <1>1, EndsValues
<1>3. Ends[c.block_index] \in Nat /\ Ends[c.block_index] <= DataSize
  BY <1>2, EndsValues DEF DataSize
<1>4. CASE c.block_index = 0
  BY <1>1, <1>2, <1>3, <1>4, EndsValues DEF BlockSize, Place
<1>5. CASE c.block_index # 0
  <2>1. PICK b \in 1 .. Len(blocks) : b = c.block_index /\ b - 1 \in 0 .. Len(blocks)
    BY <1>2, <1>5
  <2>2. blocks[b].size \in Nat /\ Ends[b] = Ends[b - 1] + blocks[b].size /\ Ends[b - 1] \in Nat
    BY <2>1, EndsValues
  <2>3. BlockSize(c) = blocks[b].size /\ Place(c) = Ends[b - 1] + c.file_index
    BY <1>5, <2>1 DEF BlockSize, Place
  <2>4. Ends[b] \in Nat /\ Ends[b] <= DataSize /\ DataSize \in Nat
    BY <1>3, <2>1, EndsValues
  <2> QED
    BY <1>1, <1>2, <2>1, <2>2, <2>3, <2>4, SMTT(30)
<1> QED
  BY <1>4, <1>5

LEMMA NewReaderLocated ==
  ASSUME blocks \in Seq(Blocks)
  PROVE  /\ Located(NewReader) /\ Place(NewReader) = 0 /\ NewReader.data_count = 0
BY DEF Located, Readers, NewReader, Elsewhere, BlockSize, Place

LEMMA OpenLocated ==
  ASSUME blocks \in Seq(Blocks), NEW c \in Readers, NEW b \in 1 .. Len(blocks)
  PROVE  LET o == OpenBlock(c, b)
         IN  /\ Located(o) /\ o.block_index = b /\ o.file_index = 0
             /\ BlockSize(o) = blocks[b].size
             /\ Place(o) = Ends[b - 1]
             /\ o.data_count = c.data_count
<1> DEFINE o == OpenBlock(c, b)
<1>1. /\ blocks[b].size \in Nat /\ b \in Nat /\ b # 0
      /\ b <= Len(blocks) /\ Ends[b - 1] \in Nat
  <2>1. b - 1 \in 0 .. Len(blocks) /\ Len(blocks) \in Nat
    BY EndsValues
  <2> QED
    BY <2>1, EndsValues
<1>2. PICK i, f, e, p, n :
        /\ c = [block_index |-> i, file_index |-> f, file_buffer |-> e,
                position |-> p, data_count |-> n]
        /\ n \in Nat
  BY DEF Readers
<1> DEFINE u == IF blocks[b].kind = "DZ" /\ blocks[b].size > 0 THEN b ELSE 0
           w == IF blocks[b].kind = "DZ" THEN Elsewhere ELSE [block |-> b, byte |-> 0]
<1>3. o = [block_index |-> b, file_index |-> 0, file_buffer |-> u, position |-> w,
           data_count |-> n]
  <2>1. o = [c EXCEPT !.block_index = b, !.file_index = 0, !.file_buffer = u, !.position = w]
    BY DEF OpenBlock
  <2> HIDE DEF o, u, w
  <2> QED
    BY <1>2, <2>1
<1> HIDE DEF o
<1>4. o \in Readers /\ o.data_count = c.data_count
  BY <1>1, <1>2, <1>3 DEF Readers, Elsewhere
<1>5. BlockSize(o) = blocks[b].size /\ Place(o) = Ends[b - 1]
  BY <1>1, <1>3 DEF BlockSize, Place
<1>6. Located(o)
  BY <1>1, <1>3, <1>4, <1>5 DEF Located
<1> QED
  BY <1>3, <1>4, <1>5, <1>6 DEF o

LEMMA AdvanceType ==
  ASSUME NEW c \in Readers, NEW n \in Nat
  PROVE  LET a == Advance(c, n)
         IN  /\ a \in Readers
             /\ a.block_index = c.block_index
             /\ a.file_index = c.file_index + n
             /\ a.data_count = c.data_count + n
             /\ a.file_buffer = c.file_buffer
             /\ a.position = [block |-> c.position.block,
                              byte |-> IF c.file_buffer = 0 THEN c.position.byte + n
                                       ELSE c.position.byte]
<1> DEFINE a == Advance(c, n)
<1>1. PICK i \in Nat, f \in Nat, e \in Nat, x \in Nat, y \in Nat, k \in Nat :
        c = [block_index |-> i, file_index |-> f, file_buffer |-> e,
             position |-> [block |-> x, byte |-> y], data_count |-> k]
  BY DEF Readers
<1>2. a = [block_index |-> i, file_index |-> f + n, file_buffer |-> e,
           position |-> [block |-> x, byte |-> IF e = 0 THEN y + n ELSE y],
           data_count |-> k + n]
  <2>1. PICK z : z = IF e = 0 THEN y + n ELSE y
    OBVIOUS
  <2>2. a = [c EXCEPT !.file_index = f + n, !.data_count = k + n, !.position.byte = z]
    BY <1>1, <2>1 DEF Advance
  <2> HIDE DEF a
  <2> QED
    BY <1>1, <2>1, <2>2
<1> HIDE DEF a
<1>3. a \in Readers
  BY <1>1, <1>2 DEF Readers
<1> QED
  BY <1>1, <1>2, <1>3 DEF a

LEMMA AdvanceLocated ==
  ASSUME blocks \in Seq(Blocks), NEW c, Located(c), NEW n \in Nat,
         n <= BlockSize(c) - c.file_index
  PROVE  LET a == Advance(c, n)
         IN  /\ Located(a) /\ Place(a) = Place(c) + n
             /\ a.data_count = c.data_count + n
<1> DEFINE a == Advance(c, n)
<1>1. /\ c \in Readers /\ a \in Readers
      /\ a.block_index = c.block_index
      /\ a.file_index = c.file_index + n
      /\ a.data_count = c.data_count + n
      /\ a.file_buffer = c.file_buffer
      /\ a.position = [block |-> c.position.block,
                       byte |-> IF c.file_buffer = 0 THEN c.position.byte + n
                                ELSE c.position.byte]
  BY AdvanceType DEF Located
<1> HIDE DEF a
<1>2. BlockSize(a) = BlockSize(c)
  BY <1>1 DEF BlockSize
<1>3. /\ c.block_index \in 0 .. Len(blocks) /\ c.file_index \in Nat
      /\ BlockSize(c) \in Nat /\ Place(c) \in Nat
  BY PlaceType
<1>4. Place(a) = Place(c) + n
  <2>1. CASE c.block_index = 0
    <3>1. n = 0
      BY <1>3, <2>1 DEF BlockSize
    <3> QED
      BY <1>1, <2>1, <3>1 DEF Place
  <2>2. CASE c.block_index # 0
    <3>1. c.block_index - 1 \in 0 .. Len(blocks)
      BY <1>3, <2>2
    <3>2. Ends[c.block_index - 1] \in Nat
      BY <3>1, EndsValues
    <3> QED
      BY <1>1, <1>3, <2>2, <3>2 DEF Place
  <2> QED
    BY <2>1, <2>2
<1>5. a.file_index <= BlockSize(a)
  BY <1>1, <1>2, <1>3
<1>6. ASSUME a.file_index < BlockSize(a)
      PROVE  IF blocks[a.block_index].kind = "DZ"
             THEN a.file_buffer = a.block_index
             ELSE a.file_buffer = 0 /\ a.position = [block |-> a.block_index, byte |-> a.file_index]
  <2>1. c.file_index < BlockSize(c)
    BY <1>1, <1>2, <1>3, <1>6
  <2>2. IF blocks[c.block_index].kind = "DZ"
        THEN c.file_buffer = c.block_index
        ELSE c.file_buffer = 0 /\ c.position = [block |-> c.block_index, byte |-> c.file_index]
    BY <2>1 DEF Located
  <2> QED
    BY <1>1, <2>2
<1>7. Located(a)
  BY <1>1, <1>5, <1>6 DEF Located
<1> QED
  BY <1>1, <1>4, <1>7 DEF a

\* The bytes it reads in the block are those at its place.
LEMMA BytesLocated ==
  ASSUME blocks \in Seq(Blocks), NEW c, Located(c), NEW n \in Nat,
         n <= BlockSize(c) - c.file_index
  PROVE  Bytes(c, n) = Run(Place(c), n)
<1>1. /\ c.block_index \in 0 .. Len(blocks) /\ c.file_index \in Nat
      /\ BlockSize(c) \in Nat /\ Place(c) \in Nat
  BY PlaceType
<1>2. ASSUME NEW k \in 1 .. n PROVE NextByte(c, k) = Place(c) + k
  <2>1. c.file_index < BlockSize(c) /\ c.file_index + k <= BlockSize(c)
    BY <1>1
  <2>2. c.block_index # 0 /\ BlockSize(c) = blocks[c.block_index].size
    BY <1>1, <2>1 DEF BlockSize
  <2>3. Ends[c.block_index - 1] \in Nat
    <3>1. c.block_index - 1 \in 0 .. Len(blocks)
      BY <1>1, <2>2
    <3> QED
      BY <3>1, EndsValues
  <2>4. ByteAt(c.block_index, c.file_index + k) = Place(c) + k
    BY <1>1, <2>1, <2>2, <2>3 DEF ByteAt, Place
  <2>5. IF blocks[c.block_index].kind = "DZ"
        THEN c.file_buffer = c.block_index
        ELSE c.file_buffer = 0 /\ c.position = [block |-> c.block_index, byte |-> c.file_index]
    BY <2>1 DEF Located
  <2> QED
    BY <2>2, <2>4, <2>5 DEF NextByte
<1> QED
  BY <1>2 DEF Bytes, Run

\* Landing is the first block that n more bytes do not go beyond.
LEMMA LandingFirst ==
  ASSUME blocks \in Seq(Blocks), NEW c, c.block_index \in 0 .. Len(blocks), NEW n \in Int
  PROVE  \/ /\ Landing(c, n) = 0
            /\ \A l \in c.block_index + 1 .. Len(blocks) : Ends[l] - Ends[c.block_index] < n
         \/ /\ Landing(c, n) \in c.block_index + 1 .. Len(blocks)
            /\ n <= Ends[Landing(c, n)] - Ends[c.block_index]
            /\ \A l \in c.block_index + 1 .. Landing(c, n) - 1 :
                 Ends[l] - Ends[c.block_index] < n
<1> DEFINE lands == {b \in c.block_index + 1 .. Len(blocks) :
                       n <= Ends[b] - Ends[c.block_index]}
           first == CHOOSE b \in lands : \A l \in lands : b <= l
<1>1. Landing(c, n) = IF lands = {} THEN 0 ELSE first
  BY DEF Landing
<1>2. /\ Len(blocks) \in Nat
      /\ \A l \in 0 .. Len(blocks) : Ends[l] \in Nat
  BY EndsValues
<1>3. CASE lands = {}
  <2>1. \A l \in c.block_index + 1 .. Len(blocks) : ~(n <= Ends[l] - Ends[c.block_index])
    BY <1>3
  <2>2. \A l \in c.block_index + 1 .. Len(blocks) : Ends[l] \in Nat /\ Ends[c.block_index] \in Nat
    BY <1>2
  <2>3. \A l \in c.block_index + 1 .. Len(blocks) : Ends[l] - Ends[c.block_index] < n
    BY <2>1, <2>2
  <2> QED
    BY <1>1, <1>3, <2>3
<1>4. CASE lands # {}
  <2>1. \E b \in lands : \A l \in lands : b <= l
    <3>1. lands \in SUBSET Nat
      OBVIOUS
    <3> HIDE DEF lands
    <3> QED
      BY <1>4, <3>1, LeastNatural
  <2>2. first \in lands /\ \A l \in lands : first <= l
    <3> HIDE DEF lands
    <3> QED
      BY <2>1
  <2>3. Landing(c, n) = first
    BY <1>1, <1>4
  <2> HIDE DEF first
  <2>4. /\ first \in c.block_index + 1 .. Len(blocks)
        /\ n <= Ends[first] - Ends[c.block_index]
    BY <2>2
  <2>5. ASSUME NEW l \in c.block_index + 1 .. first - 1
        PROVE  Ends[l] - Ends[c.block_index] < n
    <3>1. l \in c.block_index + 1 .. Len(blocks) /\ ~(first <= l)
      BY <1>2, <2>4
    <3>2. ~(n <= Ends[l] - Ends[c.block_index])
      BY <2>2, <3>1
    <3>3. Ends[l] \in Nat /\ Ends[c.block_index] \in Nat
      BY <1>2, <3>1
    <3> QED
      BY <3>2, <3>3
  <2> QED
    BY <2>3, <2>4, <2>5
<1> QED
  BY <1>3, <1>4

-----------------------------------------------------------------------------
(* GetArray and SkipBytes *)

\* The bytes of successive blocks
LEMMA BlocksFlatten ==
  ASSUME blocks \in Seq(Blocks), NEW a \in Nat, NEW n \in Nat, a + n <= Len(blocks), NEW s,
         s = [k \in 1 .. n |-> s[k]],
         \A k \in 1 .. n : s[k] = Run(Ends[a + k - 1], blocks[a + k].size)
  PROVE  FlattenSeq(s) = Run(Ends[a], Ends[a + n] - Ends[a])
<1>1. /\ Len(blocks) \in Nat
      /\ \A k \in 0 .. n : Ends[a + k] \in Nat /\ Ends[a] <= Ends[a + k]
      /\ \A k \in 1 .. n : Ends[a + k] = Ends[a + k - 1] + blocks[a + k].size
                           /\ blocks[a + k].size \in Nat
  <2>1. Len(blocks) \in Nat
    BY EndsValues
  <2>2. \A k \in 0 .. n : a + k \in 0 .. Len(blocks) /\ a <= a + k
    BY <2>1
  <2>3. \A k \in 1 .. n : a + k \in 1 .. Len(blocks)
    BY <2>1
  <2>4. a \in 0 .. Len(blocks)
    BY <2>1
  <2> QED
    BY <2>1, <2>2, <2>3, <2>4, EndsValues
<1>2. \A k \in 1 .. n : s[k] \in Seq(Nat)
  <2>1. \A k \in 1 .. n : k - 1 \in 0 .. n /\ a + (k - 1) = a + k - 1
    OBVIOUS
  <2>2. \A k \in 1 .. n : Ends[a + k - 1] \in Nat
    BY <1>1, <2>1
  <2> QED
    BY <1>1, <2>2, RunType, ZenonT(60)
<1>3. s \in Seq(Seq(Nat)) /\ Len(s) = n
  BY <1>2
<1>4. CASE n = 0
  <2>1. s = <<>>
    BY <1>3, <1>4
  <2>2. Run(Ends[a], Ends[a + n] - Ends[a]) = <<>>
    <3>1. a + n = a /\ Ends[a] \in Nat
      BY <1>1, <1>4
    <3>2. Ends[a + n] - Ends[a] = 0
      BY <3>1
    <3> QED
      BY <3>2 DEF Run
  <2> QED
    BY <2>1, <2>2, FlattenEmpty
<1>5. CASE n # 0
  <2>1. PICK f : IsFlat(f, s) /\ FlattenSeq(s) = f[n]
    <3>1. s # <<>>
      <4>1. Len(s) # 0 /\ Len(<<>>) = 0
        BY <1>3, <1>5
      <4> QED
        BY <4>1
    <3> QED
      BY <1>3, <3>1, FlattenIsFlat
  <2>2. \A k \in 1 .. n : f[k] = IF k = 1 THEN s[k] ELSE f[k - 1] \o s[k]
    BY <1>3, <2>1 DEF IsFlat
  <2> DEFINE T == {k \in 0 .. n : k = 0 \/ f[k] = Run(Ends[a], Ends[a + k] - Ends[a])}
  <2>3. 0 \in T
    OBVIOUS
  <2>4. ASSUME NEW k \in 0 .. n, k # n, k \in T PROVE k + 1 \in T
    <3>1. PICK m \in 1 .. n : m = k + 1 /\ m - 1 = k /\ a + m - 1 = a + k
      BY <2>4
    <3>2. PICK x \in Nat, y \in Nat, z \in Nat :
            /\ Ends[a] = x /\ Ends[a + k] = x + y /\ blocks[a + m].size = z
            /\ Ends[a + m] = x + y + z
      <4>1. Ends[a] \in Nat /\ Ends[a + k] - Ends[a] \in Nat
        <5>1. 0 \in 0 .. n /\ a + 0 = a
          OBVIOUS
        <5> QED
          BY <1>1, <2>4, <5>1
      <4>2. Ends[a + m] = Ends[a + k] + blocks[a + m].size /\ blocks[a + m].size \in Nat
        BY <1>1, <3>1
      <4>3. Ends[a + k] = Ends[a] + (Ends[a + k] - Ends[a])
        BY <1>1, <2>4, <4>1
      <4> QED
        BY <4>1, <4>2, <4>3
    <3>3. s[m] = Run(x + y, z)
      BY <3>1, <3>2
    <3>4. f[m] = Run(x, y + z)
      <4>1. CASE k = 0
        <5>1. y = 0
          BY <3>2, <4>1
        <5> QED
          BY <2>2, <3>1, <3>3, <4>1, <5>1
      <4>2. CASE k # 0
        <5>1. f[k] = Run(x, y)
          <6>1. f[k] = Run(x, Ends[a + k] - x)
            BY <2>4, <3>2, <4>2
          <6>2. Ends[a + k] - x = y
            BY <3>2
          <6> QED
            BY <6>1, <6>2
        <5>2. f[m] = f[k] \o s[m]
          <6>1. m # 1
            BY <3>1, <4>2
          <6> QED
            BY <2>2, <3>1, <6>1
        <5>3. Run(x, y) \o Run(x + y, z) = Run(x, y + z)
          BY <3>2, RunConcat, ZenonT(60)
        <5> QED
          BY <3>3, <5>1, <5>2, <5>3
      <4> QED
        BY <4>1, <4>2
    <3>5. Ends[a + m] - Ends[a] = y + z
      BY <3>2
    <3>6. f[m] = Run(Ends[a], Ends[a + m] - Ends[a])
      BY <3>2, <3>4, <3>5
    <3> QED
      BY <3>1, <3>6
  <2> HIDE DEF T
  <2>5. n \in T
    <3>1. 0 .. n \subseteq T
      BY <2>3, <2>4, SetInduction
    <3> QED
      BY <3>1
  <2> QED
    BY <1>5, <2>1, <2>5 DEF T
<1> QED
  BY <1>4, <1>5

\* The bytes counted do not matter for where the reader is.
LEMMA RecountLocated ==
  ASSUME NEW c, Located(c), NEW n \in Nat
  PROVE  LET a == [c EXCEPT !.data_count = n]
         IN  Located(a) /\ Place(a) = Place(c) /\ a.data_count = n
<1> DEFINE a == [c EXCEPT !.data_count = n]
<1>1. /\ c \in Readers /\ a \in Readers /\ a.data_count = n
      /\ a.block_index = c.block_index /\ a.file_index = c.file_index
      /\ a.file_buffer = c.file_buffer /\ a.position = c.position
  BY DEF Located, Readers
<1> HIDE DEF a
<1>2. BlockSize(a) = BlockSize(c) /\ Place(a) = Place(c)
  BY <1>1 DEF BlockSize, Place
<1>3. Located(a)
  BY <1>1, <1>2 DEF Located
<1> QED
  BY <1>1, <1>2, <1>3 DEF a

\* Where bytes that end behind the current block end
LEMMA LandingPlace ==
  ASSUME blocks \in Seq(Blocks), NEW c, Located(c), NEW n \in Nat \ {0}, Landing(c, n) # 0
  PROVE  LET b    == Landing(c, n)
             last == n - (Ends[b - 1] - Ends[c.block_index])
         IN  /\ b \in c.block_index + 1 .. Len(blocks) /\ b \in 1 .. Len(blocks)
             /\ last \in Nat /\ last <= n /\ last <= blocks[b].size
             /\ Ends[b - 1] \in Nat /\ Ends[c.block_index] \in Nat
             /\ Ends[c.block_index] <= Ends[b - 1]
             /\ Ends[b - 1] + last = Ends[c.block_index] + n
<1>1. PICK i \in 0 .. Len(blocks) : i = c.block_index
  BY PlaceType
<1>2. PICK b : b = Landing(c, n)
  OBVIOUS
<1>3. /\ b \in i + 1 .. Len(blocks)
      /\ n <= Ends[b] - Ends[i]
      /\ \A l \in i + 1 .. b - 1 : Ends[l] - Ends[i] < n
  <2>1. n \in Int
    OBVIOUS
  <2> QED
    BY <1>1, <1>2, <2>1, LandingFirst
<1>4. Len(blocks) \in Nat
  BY EndsValues
<1>5. b \in 1 .. Len(blocks) /\ b - 1 \in 0 .. Len(blocks) /\ i <= b - 1
  BY <1>3, <1>4
<1>6. /\ Ends[b] = Ends[b - 1] + blocks[b].size /\ blocks[b].size \in Nat
      /\ Ends[b - 1] \in Nat /\ Ends[i] \in Nat /\ Ends[i] <= Ends[b - 1]
  BY <1>5, EndsValues
<1>7. Ends[b - 1] - Ends[i] < n
  <2>1. CASE b - 1 = i
    BY <1>6, <2>1
  <2>2. CASE b - 1 # i
    <3>1. b - 1 \in i + 1 .. b - 1
      BY <1>5, <2>2
    <3> QED
      BY <1>3, <3>1
  <2> QED
    BY <2>1, <2>2
<1> DEFINE last == n - (Ends[b - 1] - Ends[i])
<1>8. last \in Nat /\ last <= n /\ last <= blocks[b].size /\ Ends[b - 1] + last = Ends[i] + n
  BY <1>3, <1>6, <1>7
<1> QED
  BY <1>1, <1>2, <1>3, <1>5, <1>6, <1>8

\* GetArray reads the bytes at the place of the reader and moves it behind them,
\* in whatever blocks they are.
LEMMA GetArrayReads ==
  ASSUME blocks \in Seq(Blocks), NEW c, Located(c), NEW n \in Nat, GetArray(c, n).ok
  PROVE  LET r == GetArray(c, n)
         IN  /\ Located(r.cache)
             /\ Place(r.cache) = Place(c) + n
             /\ r.cache.data_count = c.data_count + n
             /\ r.bytes = Run(Place(c), n)
<1> DEFINE left == BlockSize(c) - c.file_index
<1>1. /\ c.block_index \in 0 .. Len(blocks) /\ Place(c) \in Nat
      /\ Place(c) + left = Ends[c.block_index] /\ left \in Nat /\ c \in Readers
      /\ c.data_count \in Nat
  <2>1. /\ BlockSize(c) \in Nat /\ c.file_index \in Nat /\ c.file_index <= BlockSize(c)
        /\ c \in Readers
    BY PlaceType DEF Located
  <2> QED
    BY <2>1, PlaceType
<1>2. CASE n <= left
  <2>1. GetArray(c, n) = [cache |-> Advance(c, n), bytes |-> Bytes(c, n), ok |-> TRUE]
    BY <1>2 DEF GetArray
  <2> QED
    BY <1>2, <2>1, AdvanceLocated, BytesLocated
<1>3. CASE ~(n <= left)
  <2> DEFINE m == n - left
             b == Landing(c, m)
             last == m - (Ends[b - 1] - Ends[c.block_index])
             middle == [k \in 1 .. b - 1 - c.block_index |->
                          LET j == c.block_index + k IN Bytes(OpenBlock(c, j), blocks[j].size)]
             o == OpenBlock(c, b)
             end == [Advance(o, last) EXCEPT !.data_count = c.data_count + n]
             read == [cache |-> end,
                      bytes |-> Bytes(c, left) \o FlattenSeq(middle) \o Bytes(o, last),
                      ok |-> TRUE]
             empty == \E j \in c.block_index + 1 .. b : blocks[j].size = 0
  <2>1. GetArray(c, n) = IF b = 0 \/ empty
                         THEN [cache |-> c, bytes |-> <<>>, ok |-> FALSE]
                         ELSE read
    BY <1>3 DEF GetArray
  <2> HIDE DEF read, empty
  <2>2. b # 0 /\ GetArray(c, n) = read
    <3> HIDE DEF b
    <3> QED
      BY <2>1
  <2>3. m \in Nat \ {0} /\ n = left + m
    BY <1>1, <1>3
  <2> HIDE DEF m, left
  <2>4. /\ b \in c.block_index + 1 .. Len(blocks) /\ b \in 1 .. Len(blocks)
        /\ last \in Nat /\ last <= blocks[b].size
        /\ Ends[b - 1] \in Nat /\ Ends[c.block_index] \in Nat
        /\ Ends[c.block_index] <= Ends[b - 1]
        /\ Ends[b - 1] + last = Ends[c.block_index] + m
    BY <2>2, <2>3, LandingPlace
  <2> HIDE DEF b
  <2>5. /\ Located(o) /\ o.file_index = 0 /\ BlockSize(o) = blocks[b].size
        /\ Place(o) = Ends[b - 1] /\ o.data_count = c.data_count
    BY <1>1, <2>4, OpenLocated
  <2> HIDE DEF o
  <2>6. last <= BlockSize(o) - o.file_index
    <3>1. blocks[b].size \in Nat
      BY <2>4, EndsValues
    <3> QED
      BY <2>4, <2>5, <3>1
  <2> HIDE DEF last
  <2>7. Located(Advance(o, last)) /\ Place(Advance(o, last)) = Place(o) + last
    BY <2>4, <2>5, <2>6, AdvanceLocated
  <2>8. Located(end) /\ Place(end) = Place(c) + n /\ end.data_count = c.data_count + n
    <3>1. c.data_count + n \in Nat
      BY <1>1
    <3>2. /\ Located(end) /\ Place(end) = Place(Advance(o, last))
          /\ end.data_count = c.data_count + n
      BY <2>7, <3>1, RecountLocated
    <3>3. Ends[b - 1] + last = Place(c) + n
      BY <1>1, <2>3, <2>4
    <3> QED
      BY <2>5, <2>7, <3>2, <3>3
  <2>9. Bytes(c, left) = Run(Place(c), left)
    <3>1. left <= BlockSize(c) - c.file_index
      BY <1>1 DEF left
    <3> QED
      BY <1>1, <3>1, BytesLocated
  <2>10. Bytes(o, last) = Run(Ends[b - 1], last)
    BY <2>4, <2>5, <2>6, BytesLocated
  <2>11. FlattenSeq(middle) = Run(Ends[c.block_index], Ends[b - 1] - Ends[c.block_index])
    <3>1. PICK i \in Nat : i = c.block_index /\ i + 1 <= b
      BY <1>1, <2>4
    <3>2. PICK k \in Nat : k = b - 1 - i /\ i + k = b - 1
      BY <2>4, <3>1
    <3>3. i + k <= Len(blocks)
      BY <2>4, <3>2, EndsValues, SMTT(30)
    <3>4. ASSUME NEW l \in 1 .. k
          PROVE  middle[l] = Run(Ends[i + l - 1], blocks[i + l].size)
      <4>1. middle[l] = Bytes(OpenBlock(c, i + l), blocks[i + l].size)
        BY <3>1, <3>2
      <4>2. PICK j \in 1 .. Len(blocks) : j = i + l
        BY <3>3, EndsValues
      <4>3. /\ Located(OpenBlock(c, j)) /\ OpenBlock(c, j).file_index = 0
            /\ BlockSize(OpenBlock(c, j)) = blocks[j].size
            /\ Place(OpenBlock(c, j)) = Ends[j - 1]
        BY <1>1, OpenLocated
      <4>4. /\ blocks[j].size \in Nat
            /\ blocks[j].size <= BlockSize(OpenBlock(c, j)) - OpenBlock(c, j).file_index
        BY <4>3, EndsValues
      <4>5. Bytes(OpenBlock(c, j), blocks[j].size) = Run(Ends[j - 1], blocks[j].size)
        BY <4>3, <4>4, BytesLocated
      <4> QED
        BY <4>1, <4>2, <4>5
    <3>5. middle = [l \in 1 .. k |-> middle[l]]
      BY <3>1, <3>2
    <3> HIDE DEF middle
    <3>6. FlattenSeq(middle) = Run(Ends[i], Ends[i + k] - Ends[i])
      BY <3>3, <3>4, <3>5, BlocksFlatten
    <3> QED
      BY <3>1, <3>2, <3>6
  <2>12. read.bytes = Run(Place(c), n)
    <3>1. PICK x \in Nat, y \in Nat :
            x = Place(c) /\ y = Ends[b - 1] - Ends[c.block_index]
            /\ Ends[c.block_index] = x + left /\ Ends[b - 1] = x + (left + y)
            /\ left + y + last = n
      <4>1. PICK x \in Nat, e \in Nat, f \in Nat :
              x = Place(c) /\ e = Ends[c.block_index] /\ f = Ends[b - 1]
        BY <1>1, <2>4
      <4>2. x + left = e /\ e <= f /\ f + last = e + m
        BY <1>1, <2>4, <4>1
      <4>3. left \in Nat /\ last \in Nat /\ m \in Nat /\ n = left + m
        BY <1>1, <2>3, <2>4
      <4>4. PICK y \in Nat : y = f - e
        BY <4>2
      <4>5. f = x + (left + y) /\ left + y + last = n
        BY <4>2, <4>3, <4>4
      <4> QED
        BY <4>1, <4>2, <4>4, <4>5
    <3>2. Run(x, left) \o Run(x + left, y) = Run(x, left + y)
      BY <1>1, RunConcat
    <3>3. Run(x, left + y) \o Run(x + (left + y), last) = Run(x, left + y + last)
      <4>1. left + y \in Nat
        BY <1>1
      <4> QED
        BY <2>4, <4>1, RunConcat, ZenonT(60)
    <3>4. read.bytes = Run(x, left) \o Run(x + left, y) \o Run(x + (left + y), last)
      BY <2>9, <2>10, <2>11, <3>1 DEF read
    <3> QED
      BY <3>1, <3>2, <3>3, <3>4
  <2>13. read.cache = end
    BY DEF read
  <2> HIDE DEF end
  <2> QED
    BY <2>2, <2>8, <2>12, <2>13
<1> QED
  BY <1>2, <1>3

\* SkipBytes moves the reader as far, in the data there is, and counts no more.
LEMMA SkipBytesMoves ==
  ASSUME blocks \in Seq(Blocks), NEW c, Located(c), NEW n \in Nat, Place(c) + n <= DataSize
  PROVE  LET s == SkipBytes(c, n)
         IN  /\ Located(s)
             /\ Place(s) = Place(c) + n
             /\ s.data_count <= c.data_count + n
<1> DEFINE left == BlockSize(c) - c.file_index
           rest == n - left
<1>1. /\ c.block_index \in 0 .. Len(blocks) /\ Place(c) \in Nat
      /\ Place(c) + left = Ends[c.block_index] /\ left \in Nat /\ c \in Readers
      /\ c.data_count \in Nat
  <2>1. /\ BlockSize(c) \in Nat /\ c.file_index \in Nat /\ c.file_index <= BlockSize(c)
        /\ c \in Readers
    BY PlaceType DEF Located
  <2> QED
    BY <2>1, PlaceType
<1>2. CASE rest <= 0
  <2>1. SkipBytes(c, n) = Advance(c, n)
    BY <1>2 DEF SkipBytes
  <2>2. n <= left
    BY <1>1, <1>2
  <2> QED
    BY <1>1, <2>1, <2>2, AdvanceLocated
<1>3. CASE ~(rest <= 0)
  <2>1. rest \in Nat \ {0} /\ n = left + rest /\ rest <= n
    BY <1>1, <1>3
  <2> DEFINE b == Landing(c, rest)
             last == rest - (Ends[b - 1] - Ends[c.block_index])
             o == OpenBlock(c, b)
  <2>2. b # 0
    <3>1. PICK x \in Nat, e \in Nat : x = Place(c) /\ e = Ends[c.block_index]
                                      /\ x + left = e /\ x + n <= DataSize
      BY <1>1
    <3>2. rest <= DataSize - e /\ e < DataSize
      BY <1>1, <2>1, <3>1, EndsValues, SMTT(30)
    <3>3. c.block_index # Len(blocks)
      BY <3>1, <3>2, EndsValues DEF DataSize
    <3>4. Len(blocks) \in c.block_index + 1 .. Len(blocks)
      BY <1>1, <3>3, EndsValues
    <3>5. ~(Ends[Len(blocks)] - Ends[c.block_index] < rest)
      BY <2>1, <3>1, <3>2, EndsValues DEF DataSize
    <3>6. rest \in Int
      BY <2>1
    <3> HIDE DEF rest
    <3> QED
      BY <1>1, <3>4, <3>5, <3>6, LandingFirst
  <2>3. SkipBytes(c, n) = Advance(o, last)
    <3>1. ~(n - (BlockSize(c) - c.file_index) <= 0)
      BY <1>3
    <3> QED
      BY <2>2, <3>1 DEF SkipBytes
  <2> HIDE DEF rest, left
  <2>4. /\ b \in 1 .. Len(blocks)
        /\ last \in Nat /\ last <= rest /\ last <= blocks[b].size
        /\ Ends[b - 1] \in Nat
        /\ Ends[b - 1] + last = Ends[c.block_index] + rest
    BY <2>1, <2>2, LandingPlace
  <2> HIDE DEF b
  <2>5. /\ Located(o) /\ o.file_index = 0 /\ BlockSize(o) = blocks[b].size
        /\ Place(o) = Ends[b - 1] /\ o.data_count = c.data_count
    BY <1>1, <2>4, OpenLocated
  <2> HIDE DEF o
  <2>6. last <= BlockSize(o) - o.file_index
    <3>1. blocks[b].size \in Nat
      BY <2>4, EndsValues
    <3> QED
      BY <2>4, <2>5, <3>1
  <2> HIDE DEF last
  <2>7. /\ Located(Advance(o, last)) /\ Place(Advance(o, last)) = Place(o) + last
        /\ Advance(o, last).data_count = o.data_count + last
    BY <2>4, <2>5, <2>6, AdvanceLocated
  <2>8. Ends[b - 1] + last = Place(c) + n
    BY <1>1, <2>1, <2>4
  <2>9. c.data_count + last <= c.data_count + n
    BY <1>1, <2>1, <2>4
  <2> QED
    BY <2>3, <2>5, <2>7, <2>8, <2>9
<1> QED
  BY <1>2, <1>3

-----------------------------------------------------------------------------
(* The file *)

FileTypes ==
  /\ layout \in Layouts
  /\ records \in Seq(Records)
  /\ blocks \in Seq(Blocks)
  /\ blocks # <<>>
  /\ DataSize = Starts[Len(records)]

LEMMA LayoutTypes ==
  ASSUME layout \in Layouts
  PROVE  /\ FixedGroups \cup VlsdGroups = Groups /\ FixedGroups \cap VlsdGroups = {}
         /\ Groups # {} /\ IsFiniteSet(Groups)
         /\ RecordSize \in Nat /\ IdSize \in Nat
         /\ \A g \in Groups : HeaderSize(g) \in Nat
         /\ \A g \in VlsdGroups : HeaderSize(g) = IdSize + LengthSize
         /\ \A g \in FixedGroups : HeaderSize(g) = IdSize
         /\ IdSize = 0 => Cardinality(Groups) = 1
<1>1. /\ layout.size \in Nat /\ layout.id \in Nat
      /\ layout.fixed \cap layout.vlsd = {} /\ layout.fixed \cup layout.vlsd # {}
      /\ IsFiniteSet(layout.fixed \cup layout.vlsd)
      /\ layout.id = 0 => Cardinality(layout.fixed \cup layout.vlsd) = 1
  BY LayoutAssumption DEF Layout
<1>2. LengthSize \in Nat
  BY LengthAssumption
<1> QED
  BY <1>1, <1>2 DEF FixedGroups, VlsdGroups, Groups, RecordSize, IdSize, HeaderSize

LEMMA RecordTypes ==
  ASSUME layout \in Layouts, NEW r \in Records
  PROVE  /\ r.group \in Groups /\ r.length \in Nat
         /\ HeaderSize(r.group) \in Nat
         /\ r.group \notin VlsdGroups => r.length = RecordSize
         /\ r.group \in VlsdGroups => r.length \in 0 .. MaxLength
<1>1. /\ FixedGroups \cup VlsdGroups = Groups /\ FixedGroups \cap VlsdGroups = {}
      /\ RecordSize \in Nat /\ \A g \in Groups : HeaderSize(g) \in Nat
  BY LayoutTypes
<1>2. MaxLength \in Nat
  BY LengthAssumption
<1>3. \/ r.group \in FixedGroups /\ r.length = RecordSize
      \/ r.group \in VlsdGroups /\ r.length \in 0 .. MaxLength
  BY DEF Records
<1> QED
  BY <1>1, <1>2, <1>3

\* Starts[i] is where record i + 1 begins.
LEMMA StartsValues ==
  ASSUME layout \in Layouts, records \in Seq(Records)
  PROVE  /\ Len(records) \in Nat /\ DOMAIN records = 1 .. Len(records)
         /\ \A i \in 0 .. Len(records) : Starts[i] \in Nat
         /\ Starts[0] = 0
         /\ \A i \in 1 .. Len(records) :
              /\ records[i] \in Records /\ records[i].group \in Groups
              /\ records[i].length \in Nat /\ HeaderSize(records[i].group) \in Nat
              /\ Starts[i] = Starts[i - 1]
                             + (HeaderSize(records[i].group) + records[i].length)
         /\ \A i, j \in 0 .. Len(records) : i <= j => Starts[i] <= Starts[j]
<1>1. PICK n \in Nat : n = Len(records) /\ DOMAIN records = 1 .. n
  OBVIOUS
<1>2. \A i \in 1 .. n : records[i] \in Records
  BY <1>1
<1>3. \A i \in 1 .. n : /\ records[i].group \in Groups /\ records[i].length \in Nat
                        /\ HeaderSize(records[i].group) \in Nat
  BY <1>2, RecordTypes
<1> DEFINE s == [i \in DOMAIN records |->
                   HeaderSize(records[i].group) + records[i].length]
<1>4. /\ s \in [1 .. n -> Nat]
      /\ \A i \in 1 .. n : s[i] = HeaderSize(records[i].group) + records[i].length
  BY <1>1, <1>3
<1>5. Starts = Sums(s)
  BY DEF Starts
<1> HIDE DEF s
<1>6. /\ Sums(s) \in [0 .. n -> Nat]
      /\ Sums(s)[0] = 0
      /\ \A i \in 1 .. n : Sums(s)[i] = Sums(s)[i - 1] + s[i]
      /\ \A i, j \in 0 .. n : i <= j => Sums(s)[i] <= Sums(s)[j]
  BY <1>4, SumsValues
<1> QED
  BY <1>1, <1>2, <1>3, <1>4, <1>5, <1>6

\* The blocks end where they were cut.
LEMMA BlocksOfEnds ==
  ASSUME NEW n \in Nat \ {0}, NEW ends \in [1 .. n -> Nat], NEW kinds \in [1 .. n -> {"DT", "DZ"}],
         blocks = BlocksOf(ends, kinds), \A b \in 1 .. n : blocks[b].size >= 0
  PROVE  blocks \in Seq(Blocks) /\ Len(blocks) = n /\ Ends[n] = ends[n]
<1>1. blocks = [b \in 1 .. n |->
                  [kind |-> kinds[b], size |-> ends[b] - (IF b = 1 THEN 0 ELSE ends[b - 1])]]
  BY DEF BlocksOf
<1>2. ASSUME NEW b \in 1 .. n
      PROVE  /\ blocks[b] \in Blocks
             /\ blocks[b].size = ends[b] - (IF b = 1 THEN 0 ELSE ends[b - 1])
  <2>1. PICK k \in {"DT", "DZ"} : k = kinds[b]
    OBVIOUS
  <2>2. PICK z : z = ends[b] - (IF b = 1 THEN 0 ELSE ends[b - 1])
    OBVIOUS
  <2>3. z \in Int
    <3>1. CASE b = 1
      BY <2>2, <3>1
    <3>2. CASE b # 1
      <4>1. b - 1 \in 1 .. n
        BY <3>2
      <4> QED
        BY <2>2, <3>2, <4>1
    <3> QED
      BY <3>1, <3>2
  <2>4. blocks[b] = [kind |-> k, size |-> z]
    BY <1>1, <2>1, <2>2
  <2>5. z \in Nat
    BY <2>3, <2>4
  <2> QED
    BY <2>2, <2>4, <2>5 DEF Blocks
<1>3. blocks \in Seq(Blocks) /\ Len(blocks) = n
  <2>1. blocks \in [1 .. n -> Blocks]
    BY <1>1, <1>2
  <2> QED
    BY <2>1
<1>4. Ends[0] = 0 /\ \A b \in 1 .. n : Ends[b] = Ends[b - 1] + blocks[b].size
  BY <1>3, EndsValues
<1> DEFINE T == {b \in 0 .. n : Ends[b] = IF b = 0 THEN 0 ELSE ends[b]}
<1>5. 0 \in T
  BY <1>4
<1>6. ASSUME NEW b \in 0 .. n, b # n, b \in T PROVE b + 1 \in T
  <2>1. PICK k \in 1 .. n : k = b + 1 /\ k - 1 = b
    BY <1>6
  <2>2. /\ Ends[k] = Ends[b] + (ends[k] - (IF k = 1 THEN 0 ELSE ends[b]))
        /\ Ends[b] = IF b = 0 THEN 0 ELSE ends[b]
        /\ k = 1 <=> b = 0
    BY <1>2, <1>4, <1>6, <2>1
  <2>3. ends[k] \in Nat /\ (b # 0 => ends[b] \in Nat)
    BY <1>6
  <2>4. Ends[k] = ends[k]
    BY <2>2, <2>3
  <2> QED
    BY <2>1, <2>4
<1> HIDE DEF T
<1>7. n \in T
  <2>1. 0 .. n \subseteq T
    BY <1>5, <1>6, SetInduction
  <2> QED
    BY <2>1
<1>8. Ends[n] = ends[n]
  BY <1>7 DEF T
<1> QED
  BY <1>3, <1>8

LEMMA FileInitTypes == ASSUME FileInit PROVE FileTypes
<1>1. layout \in Layouts
  BY DEF FileInit
<1>2. records \in Seq(Records)
  <2>1. records \in BoundedSeq(Records, MaxRecords)
    BY DEF FileInit
  <2>2. PICK m \in 0 .. MaxRecords : records \in [1 .. m -> Records]
    BY <2>1 DEF BoundedSeq, SeqOf
  <2> QED
    BY <2>2
<1>3. PICK size \in Nat : size = Starts[Len(records)]
  <2>1. Len(records) \in 0 .. Len(records)
    BY <1>2
  <2> QED
    BY <1>1, <1>2, <2>1, StartsValues
<1>4. PICK n \in 1 .. layout.blocks :
        \E cuts \in [1 .. n - 1 -> 0 .. size], kinds \in [1 .. n -> {"DT", "DZ"}] :
          /\ blocks = BlocksOf(Append(cuts, size), kinds)
          /\ \A b \in 1 .. n : blocks[b].size >= (IF EmptyBlocks THEN 0 ELSE 1)
  BY <1>3 DEF FileInit
<1>5. PICK cuts \in [1 .. n - 1 -> 0 .. size], kinds \in [1 .. n -> {"DT", "DZ"}] :
        /\ blocks = BlocksOf(Append(cuts, size), kinds)
        /\ \A b \in 1 .. n : blocks[b].size >= (IF EmptyBlocks THEN 0 ELSE 1)
  BY <1>4
<1>6. n \in Nat \ {0}
  BY <1>1, <1>4, LayoutAssumption DEF Layout
<1>7. PICK ends \in [1 .. n -> Nat] : ends = Append(cuts, size) /\ ends[n] = size
  <2>1. cuts \in Seq(Nat) /\ Len(cuts) = n - 1
    BY <1>5, <1>6
  <2>2. PICK s : s = Append(cuts, size)
    OBVIOUS
  <2>3. s \in Seq(Nat) /\ Len(s) = n - 1 + 1 /\ s[n - 1 + 1] = size
    BY <1>3, <2>1, <2>2, AppendProperties
  <2>4. n - 1 + 1 = n
    BY <1>6
  <2> QED
    BY <2>2, <2>3, <2>4, SMTT(30)
<1>8. \A b \in 1 .. n : blocks[b].size >= 0
  <2> SUFFICES ASSUME NEW b \in 1 .. n PROVE blocks[b].size >= 0
    OBVIOUS
  <2>1. blocks[b].size >= 0 \/ blocks[b].size >= 1
    BY <1>5
  <2>2. blocks[b].size = ends[b] - (IF b = 1 THEN 0 ELSE ends[b - 1])
    BY <1>5, <1>7 DEF BlocksOf
  <2>3. b # 1 => b - 1 \in 1 .. n
    BY <1>6
  <2>4. blocks[b].size \in Int
    BY <1>7, <2>2, <2>3
  <2> QED
    BY <2>1, <2>4
<1>9. blocks \in Seq(Blocks) /\ Len(blocks) = n /\ Ends[n] = ends[n]
  BY <1>5, <1>6, <1>7, <1>8, BlocksOfEnds
<1>10. DataSize = Starts[Len(records)] /\ blocks # <<>>
  <2>1. DataSize = size
    BY <1>7, <1>9 DEF DataSize
  <2>2. blocks # <<>>
    BY <1>6, <1>9
  <2> QED
    BY <1>3, <2>1, <2>2
<1> QED
  BY <1>1, <1>2, <1>9, <1>10 DEF FileTypes

LEMMA CountValues ==
  ASSUME layout \in Layouts, records \in Seq(Records), NEW g
  PROVE  /\ \A i \in 0 .. Len(records) : Count(g, i) \in Nat
         /\ Count(g, 0) = 0
         /\ \A i \in 0 .. Len(records) - 1 :
              Count(g, i + 1) = Count(g, i) + (IF records[i + 1].group = g THEN 1 ELSE 0)
<1> DEFINE Of(i) == {j \in 1 .. i : records[j].group = g}
<1>1. ASSUME NEW i \in Nat PROVE IsFiniteSet(Of(i))
  <2>1. IsFiniteSet(1 .. i)
    BY FS_Interval
  <2> QED
    BY <2>1, FS_Subset
<1>2. Len(records) \in Nat
  OBVIOUS
<1>3. \A i : Count(g, i) = Cardinality(Of(i))
  BY DEF Count
<1>4. \A i \in 0 .. Len(records) : Count(g, i) \in Nat
  <2> SUFFICES ASSUME NEW i \in 0 .. Len(records) PROVE Count(g, i) \in Nat
    OBVIOUS
  <2>1. i \in Nat
    BY <1>2
  <2>2. Cardinality(Of(i)) \in Nat
    BY <1>1, <2>1, FS_CardinalityType
  <2> QED
    BY <1>3, <2>2
<1>5. Count(g, 0) = 0
  <2>1. Of(0) = {}
    OBVIOUS
  <2> QED
    BY <1>3, <2>1, FS_EmptySet
<1>6. ASSUME NEW i \in 0 .. Len(records) - 1
      PROVE  Count(g, i + 1) = Count(g, i) + (IF records[i + 1].group = g THEN 1 ELSE 0)
  <2>1. i \in Nat /\ i \in 0 .. Len(records)
    BY <1>2
  <2>2. CASE records[i + 1].group = g
    <3>1. Of(i + 1) = Of(i) \cup {i + 1} /\ i + 1 \notin Of(i)
      BY <2>1, <2>2
    <3>2. IsFiniteSet(Of(i))
      BY <1>1, <2>1
    <3> HIDE DEF Of
    <3>3. Cardinality(Of(i) \cup {i + 1}) = Cardinality(Of(i)) + 1
      BY <3>1, <3>2, FS_AddElement
    <3> QED
      BY <1>3, <2>2, <3>1, <3>3
  <2>3. CASE records[i + 1].group # g
    <3>1. Of(i + 1) = Of(i)
      BY <2>1, <2>3
    <3> HIDE DEF Of
    <3>2. Count(g, i + 1) = Count(g, i) /\ Count(g, i) \in Nat
      BY <1>3, <1>4, <2>1, <3>1
    <3> QED
      BY <2>3, <3>2
  <2> QED
    BY <2>2, <2>3
<1> QED
  BY <1>4, <1>5, <1>6

-----------------------------------------------------------------------------
(* The reader in the records *)

(***************************************************************************)
(* The reader is at record i + 1, in front of the part it reads next, with *)
(* what it has recognised of the record, and the bytes to come are those   *)
(* of that place.                                                          *)
(***************************************************************************)
InStep(i) ==
  /\ i \in 0 .. Len(records)
  /\ Located(cache)
  /\ cache.data_count <= Place(cache)
  /\ next \in {"id", "length", "data"}
  /\ next # "id" => i < Len(records) /\ group = records[i + 1].group
  /\ next = "id" => Place(cache) = Starts[i]
  /\ next = "length" => Place(cache) = Starts[i] + IdSize /\ group \in VlsdGroups
  /\ next = "data" => /\ Place(cache) = Starts[i] + HeaderSize(group)
                      /\ length = records[i + 1].length

\* No byte was skipped without being counted.
Exact == cache.data_count = Place(cache)

LEMMA InStepAtRecord ==
  ASSUME FileTypes, NEW i, InStep(i)
  PROVE  AtRecord(i)
<1>1. i \in 0 .. Len(records) /\ layout \in Layouts /\ records \in Seq(Records)
  BY DEF FileTypes, InStep
<1>2. Starts[i] \in Nat
  BY <1>1, StartsValues
<1> DEFINE place == Starts[i] + CASE next = "id" -> 0
                                  [] next = "length" -> IdSize
                                  [] next = "data" -> HeaderSize(group)
<1>3. Place(cache) = place
  BY <1>2 DEF InStep
<1>4. cache.file_index < BlockSize(cache) => NextByte(cache, 1) = Place(cache) + 1
  <2> SUFFICES ASSUME cache.file_index < BlockSize(cache)
               PROVE  NextByte(cache, 1) = Place(cache) + 1
    OBVIOUS
  <2>1. blocks \in Seq(Blocks) /\ Located(cache)
    BY DEF FileTypes, InStep
  <2>2. 1 <= BlockSize(cache) - cache.file_index
    BY <2>1, PlaceType
  <2>3. Bytes(cache, 1) = Run(Place(cache), 1)
    BY <2>1, <2>2, BytesLocated
  <2>4. Bytes(cache, 1)[1] = NextByte(cache, 1) /\ Run(Place(cache), 1)[1] = Place(cache) + 1
    BY DEF Bytes, Run
  <2> QED
    BY <2>3, <2>4
<1> QED
  BY <1>3, <1>4 DEF AtRecord, InStep

\* While the file stays as it is, so does what is said of it.
LEMMA SameFile ==
  ASSUME UNCHANGED data
  PROVE  /\ FileTypes' <=> FileTypes
         /\ Groups' = Groups /\ VlsdGroups' = VlsdGroups /\ FixedGroups' = FixedGroups
         /\ IdSize' = IdSize /\ RecordSize' = RecordSize /\ Starts' = Starts
         /\ DataSize' = DataSize
         /\ \A g : HeaderSize(g)' = HeaderSize(g)
         /\ \A g, i : Count(g, i)' = Count(g, i)
         /\ Place(cache)' = Place(cache')
         /\ Located(cache)' <=> Located(cache')
<1> USE DEF data
<1>1. Groups' = Groups /\ VlsdGroups' = VlsdGroups /\ FixedGroups' = FixedGroups
      /\ IdSize' = IdSize /\ RecordSize' = RecordSize
  BY DEF Groups, VlsdGroups, FixedGroups, IdSize, RecordSize
<1>2. \A g : HeaderSize(g)' = HeaderSize(g)
  BY <1>1 DEF HeaderSize
<1>3. Starts' = Starts
  BY <1>2 DEF Starts, HeaderSize, IdSize, VlsdGroups
<1>4. Ends' = Ends /\ DataSize' = DataSize
  BY DEF Ends, DataSize
<1>5. Place(cache)' = Place(cache')
  BY <1>4 DEF Place
<1>6. Located(cache)' <=> Located(cache')
  BY DEF Located, Readers, BlockSize
<1>7. \A g, i : Count(g, i)' = Count(g, i)
  BY DEF Count
<1>8. FileTypes' <=> FileTypes
  <2>1. Records' = Records
    BY <1>1 DEF Records
  <2> QED
    BY <1>3, <1>4, <2>1 DEF FileTypes, Blocks
<1> QED
  BY <1>1, <1>2, <1>3, <1>4, <1>5, <1>6, <1>7, <1>8

\* A field of a record is a run of bytes.
LEMMA FieldIsRun ==
  ASSUME NEW i, NEW skip, NEW n
  PROVE  Field(i, skip, n) = Run(Starts[i - 1] + skip, n)
BY DEF Field, Run

\* What was recognised has its type.
PartsTyped ==
  /\ next \in {"id", "length", "data"}
  /\ group \in Groups
  /\ length \in Nat

LEMMA HeaderTyped ==
  ASSUME FileTypes, PartsTyped, ParseRecordId \/ ParseLength, UNCHANGED data
  PROVE  PartsTyped'
<1>1. RecordSize \in Nat /\ LengthSize \in Nat /\ MaxLength \in Nat
  BY LayoutTypes, LengthAssumption DEF FileTypes
<1>2. next' \in {"id", "length", "data"} /\ group' \in Groups /\ length' \in Nat
  <2>1. CASE ParseRecordId
    BY <1>1, <2>1 DEF ParseRecordId
  <2>2. CASE ParseLength
    <3>1. length' \in 0 .. MaxLength /\ group' = group /\ next' = "data"
      BY <2>2 DEF ParseLength
    <3> QED
      BY <1>1, <3>1 DEF PartsTyped
  <2> QED
    BY <2>1, <2>2
<1> QED
  BY <1>2, SameFile DEF PartsTyped

\* So does reading a record id, also where there is none.
LEMMA ReadIdReads ==
  ASSUME blocks \in Seq(Blocks), Located(cache), IdSize \in Nat, ReadId.ok
  PROVE  /\ Located(ReadId.cache)
         /\ Place(ReadId.cache) = Place(cache) + IdSize
         /\ ReadId.cache.data_count = cache.data_count + IdSize
         /\ ReadId.bytes = Run(Place(cache), IdSize)
<1>1. CASE IdSize = 0
  <2>1. ReadId.cache = cache /\ ReadId.bytes = <<>>
    BY <1>1 DEF ReadId
  <2>2. Place(cache) \in Nat /\ cache.data_count \in Nat
    BY PlaceType
  <2>3. Run(Place(cache), 0) = <<>>
    BY DEF Run
  <2> QED
    BY <1>1, <2>1, <2>2, <2>3
<1>2. CASE IdSize # 0
  <2>1. ReadId = GetArray(cache, IdSize)
    BY <1>2 DEF ReadId
  <2>2. PICK n \in Nat : n = IdSize
    OBVIOUS
  <2>3. GetArray(cache, n).ok
    BY <2>1, <2>2
  <2> QED
    BY <2>1, <2>2, <2>3, GetArrayReads
<1> QED
  BY <1>1, <1>2

LEMMA IdRecognised ==
  ASSUME FileTypes, NEW i, InStep(i), i < Len(records), ParseRecordId, UNCHANGED data
  PROVE  InStep(i)' /\ (Exact => Exact')
<1>1. /\ layout \in Layouts /\ records \in Seq(Records) /\ blocks \in Seq(Blocks)
      /\ i \in 0 .. Len(records) /\ Located(cache) /\ next = "id"
      /\ Place(cache) = Starts[i] /\ cache.data_count <= Place(cache)
  BY DEF FileTypes, InStep, ParseRecordId
<1>2. PICK n \in Nat : n = IdSize
  BY <1>1, LayoutTypes
<1>3. PICK j \in 1 .. Len(records) : j = i + 1 /\ j - 1 = i
  BY <1>1
<1>4. PICK g \in Groups :
        /\ ReadId.ok
        /\ \A k \in DOMAIN records :
             ReadId.bytes = Field(k, 0, n) => g = records[k].group
        /\ cache' = ReadId.cache
        /\ group' = g
  BY <1>2 DEF ParseRecordId
<1>5. /\ Located(cache') /\ Place(cache') = Starts[i] + n
      /\ cache'.data_count = cache.data_count + n
      /\ ReadId.bytes = Run(Starts[i], n)
  BY <1>1, <1>2, <1>4, ReadIdReads
<1>6. Starts[i] \in Nat /\ cache.data_count \in Nat
  BY <1>1, StartsValues, PlaceType
<1>7. group' = records[j].group
  <2>1. Field(j, 0, n) = Run(Starts[i], n)
    <3>1. Field(j, 0, n) = Run(Starts[j - 1] + 0, n)
      BY FieldIsRun
    <3> QED
      BY <1>3, <1>6, <3>1
  <2> QED
    BY <1>1, <1>4, <1>5, <2>1
<1>8. records[j] \in Records
  BY <1>1
<1>9. /\ next' = IF group' \in VlsdGroups THEN "length" ELSE "data"
      /\ length' = RecordSize
  BY DEF ParseRecordId
<1>10. /\ group' \notin VlsdGroups => records[j].length = RecordSize
       /\ group' \notin VlsdGroups => HeaderSize(group') = n
  BY <1>1, <1>2, <1>7, <1>8, RecordTypes DEF HeaderSize
<1>11. cache'.data_count <= Place(cache')
  BY <1>1, <1>2, <1>5, <1>6
<1>12. Exact => Exact'
  <2>1. Place(cache)' = Place(cache')
    BY SameFile
  <2> QED
    BY <1>1, <1>5, <2>1 DEF Exact
<1>13. InStep(i)'
  BY <1>1, <1>2, <1>3, <1>5, <1>7, <1>9, <1>10, <1>11, SameFile DEF InStep, data
<1> QED
  BY <1>12, <1>13

\* There is no record id behind the last record.
LEMMA IdBehindLast ==
  ASSUME FileTypes, InStep(Len(records)), ParseRecordId
  PROVE  IdSize = 0 /\ group' \in Groups /\ Located(cache') /\ Place(cache') = DataSize
         /\ cache'.data_count = cache.data_count
<1>1. /\ layout \in Layouts /\ records \in Seq(Records) /\ blocks \in Seq(Blocks)
      /\ Located(cache) /\ next = "id" /\ Place(cache) = DataSize
  BY DEF FileTypes, InStep, ParseRecordId
<1>2. PICK n \in Nat : n = IdSize
  BY <1>1, LayoutTypes
<1>3. /\ ReadId.ok /\ cache' = ReadId.cache /\ group' \in Groups
  BY <1>2 DEF ParseRecordId
<1>4. /\ Located(cache') /\ Place(cache') = Place(cache) + n
      /\ cache'.data_count = cache.data_count + n
  BY <1>1, <1>2, <1>3, ReadIdReads
<1>5. Place(cache') <= DataSize /\ DataSize \in Nat /\ cache.data_count \in Nat
  BY <1>1, <1>4, PlaceType, EndsValues
<1>6. n = 0
  BY <1>1, <1>4, <1>5
<1> QED
  BY <1>1, <1>2, <1>3, <1>4, <1>5, <1>6

LEMMA LengthRecognised ==
  ASSUME FileTypes, NEW i, InStep(i), ParseLength, UNCHANGED data
  PROVE  InStep(i)' /\ (Exact => Exact')
<1>1. /\ layout \in Layouts /\ records \in Seq(Records) /\ blocks \in Seq(Blocks)
      /\ i \in 0 .. Len(records) /\ i < Len(records) /\ Located(cache)
      /\ Place(cache) = Starts[i] + IdSize /\ cache.data_count <= Place(cache)
      /\ group \in VlsdGroups /\ group = records[i + 1].group
  BY DEF FileTypes, InStep, ParseLength
<1>2. PICK n \in Nat : n = LengthSize
  BY LengthAssumption
<1>3. PICK j \in 1 .. Len(records) : j = i + 1 /\ j - 1 = i
  BY <1>1
<1>4. PICK l \in 0 .. MaxLength :
        /\ GetArray(cache, n).ok
        /\ \A k \in DOMAIN records :
             records[k].group \in VlsdGroups
             /\ GetArray(cache, n).bytes = Field(k, IdSize, n) => l = records[k].length
        /\ cache' = GetArray(cache, n).cache
        /\ length' = l
  BY <1>2 DEF ParseLength
<1>5. /\ Located(cache') /\ Place(cache') = Starts[i] + IdSize + n
      /\ cache'.data_count = cache.data_count + n
      /\ GetArray(cache, n).bytes = Run(Starts[i] + IdSize, n)
  BY <1>1, <1>4, GetArrayReads
<1>6. Starts[i] \in Nat /\ cache.data_count \in Nat /\ IdSize \in Nat
  BY <1>1, StartsValues, PlaceType, LayoutTypes
<1>7. length' = records[j].length
  <2>1. Field(j, IdSize, n) = Run(Starts[i] + IdSize, n)
    <3>1. Field(j, IdSize, n) = Run(Starts[j - 1] + IdSize, n)
      BY FieldIsRun
    <3> QED
      BY <1>3, <3>1
  <2> QED
    BY <1>1, <1>3, <1>4, <1>5, <2>1
<1>8. next' = "data" /\ group' = group
  BY DEF ParseLength
<1>9. Starts[i] + IdSize + n = Starts[i] + HeaderSize(group)
  BY <1>1, <1>2, <1>6 DEF HeaderSize
<1>10. cache'.data_count <= Place(cache')
  BY <1>1, <1>2, <1>5, <1>6
<1>11. Exact => Exact'
  <2>1. Place(cache)' = Place(cache')
    BY SameFile
  <2> QED
    BY <1>1, <1>5, <2>1 DEF Exact
<1>12. InStep(i)'
  BY <1>1, <1>3, <1>5, <1>7, <1>8, <1>9, <1>10, SameFile DEF InStep, data
<1> QED
  BY <1>11, <1>12

\* Record i + 1 ends with its data.
LEMMA DataPlace ==
  ASSUME FileTypes, NEW i, InStep(i), next = "data"
  PROVE  /\ i \in 0 .. Len(records) - 1 /\ i + 1 \in 0 .. Len(records)
         /\ length \in Nat /\ Place(cache) \in Nat /\ cache.data_count \in Nat
         /\ Place(cache) + length = Starts[i + 1]
         /\ Place(cache) + length <= DataSize
         /\ Payload(i + 1) = Run(Place(cache), length)
<1>1. /\ layout \in Layouts /\ records \in Seq(Records) /\ blocks \in Seq(Blocks)
      /\ i \in 0 .. Len(records) /\ i < Len(records) /\ Located(cache)
      /\ Place(cache) = Starts[i] + HeaderSize(group)
      /\ group = records[i + 1].group /\ length = records[i + 1].length
      /\ DataSize = Starts[Len(records)]
  BY DEF FileTypes, InStep
<1>2. PICK j \in 1 .. Len(records) : j = i + 1 /\ j - 1 = i
  BY <1>1
<1>3. /\ records[j].length \in Nat /\ HeaderSize(records[j].group) \in Nat
      /\ Starts[j] = Starts[j - 1] + (HeaderSize(records[j].group) + records[j].length)
      /\ Starts[j - 1] \in Nat /\ Starts[j] <= Starts[Len(records)]
  <2>1. j - 1 \in 0 .. Len(records) /\ j \in 0 .. Len(records)
        /\ Len(records) \in 0 .. Len(records) /\ j <= Len(records)
    BY <1>1, <1>2
  <2> QED
    BY <1>1, <2>1, StartsValues
<1>4. Place(cache) + length = Starts[j]
  BY <1>1, <1>2, <1>3
<1>5. Payload(j) = Run(Place(cache), length)
  <2>1. Payload(j) = Run(Starts[j - 1] + HeaderSize(records[j].group), records[j].length)
    BY FieldIsRun DEF Payload
  <2> QED
    BY <1>1, <1>2, <2>1
<1>6. i \in 0 .. Len(records) - 1 /\ i + 1 \in 0 .. Len(records)
  BY <1>1
<1>7. Place(cache) \in Nat /\ cache.data_count \in Nat
  BY <1>1, PlaceType
<1> QED
  BY <1>1, <1>2, <1>3, <1>4, <1>5, <1>6, <1>7

LEMMA DataSkipped ==
  ASSUME FileTypes, NEW i, InStep(i), SkipData, UNCHANGED data
  PROVE  InStep(i + 1)'
<1>1. /\ blocks \in Seq(Blocks) /\ Located(cache) /\ next = "data"
      /\ cache.data_count <= Place(cache)
  BY DEF FileTypes, InStep, SkipData
<1>2. /\ i + 1 \in 0 .. Len(records)
      /\ length \in Nat /\ Place(cache) \in Nat /\ cache.data_count \in Nat
      /\ Place(cache) + length = Starts[i + 1]
      /\ Place(cache) + length <= DataSize
  BY <1>1, DataPlace
<1>3. cache' = SkipBytes(cache, length) /\ next' = "id"
  BY DEF SkipData
<1>4. /\ Located(cache') /\ Place(cache') = Starts[i + 1]
      /\ cache'.data_count <= cache.data_count + length
  BY <1>1, <1>2, <1>3, SkipBytesMoves
<1>5. cache'.data_count <= Place(cache')
  <2>1. cache'.data_count \in Nat
    BY <1>1, <1>4, PlaceType
  <2> QED
    BY <1>1, <1>2, <1>4, <2>1
<1> QED
  BY <1>2, <1>3, <1>4, <1>5, SameFile DEF InStep, data

LEMMA DataRead ==
  ASSUME FileTypes, NEW i, InStep(i), ReadData(GetArray(cache, length)), UNCHANGED data
  PROVE  /\ InStep(i + 1)' /\ (Exact => Exact')
         /\ GetArray(cache, length).bytes = Payload(i + 1)
<1>1. /\ blocks \in Seq(Blocks) /\ Located(cache) /\ next = "data"
      /\ cache.data_count <= Place(cache)
  BY DEF FileTypes, InStep, ReadData
<1>2. /\ i + 1 \in 0 .. Len(records)
      /\ length \in Nat /\ Place(cache) \in Nat /\ cache.data_count \in Nat
      /\ Place(cache) + length = Starts[i + 1]
      /\ Payload(i + 1) = Run(Place(cache), length)
  BY <1>1, DataPlace
<1>3. /\ cache' = GetArray(cache, length).cache /\ next' = "id" /\ GetArray(cache, length).ok
  BY DEF ReadData
<1>4. /\ Located(cache') /\ Place(cache') = Starts[i + 1]
      /\ cache'.data_count = cache.data_count + length
      /\ GetArray(cache, length).bytes = Payload(i + 1)
  BY <1>1, <1>2, <1>3, GetArrayReads
<1>5. cache'.data_count <= Place(cache')
  BY <1>1, <1>2, <1>4
<1>6. Exact => Exact'
  <2>1. Place(cache)' = Place(cache')
    BY SameFile
  <2> QED
    BY <1>2, <1>4, <2>1 DEF Exact
<1>7. InStep(i + 1)'
  BY <1>2, <1>3, <1>4, <1>5, SameFile DEF InStep, data
<1> QED
  BY <1>4, <1>6, <1>7

\* At the beginning the reader is in front of the first record.
LEMMA ParseInitInStep ==
  ASSUME ParseInit
  PROVE  FileTypes /\ InStep(0) /\ Exact /\ group \in Groups /\ length \in Nat
<1>1. FileTypes
  BY FileInitTypes DEF ParseInit
<1>2. /\ layout \in Layouts /\ records \in Seq(Records) /\ blocks \in Seq(Blocks)
      /\ cache = NewReader /\ next = "id"
  BY <1>1 DEF FileTypes, ParseInit
<1>3. Located(cache) /\ Place(cache) = 0 /\ cache.data_count = 0
  BY <1>2, NewReaderLocated
<1>4. Starts[0] = 0 /\ 0 \in 0 .. Len(records)
  BY <1>2, StartsValues
<1>5. group \in Groups /\ length \in Nat
  BY <1>2, LayoutTypes DEF ParseInit
<1> QED
  BY <1>1, <1>2, <1>3, <1>4, <1>5 DEF InStep, Exact

-----------------------------------------------------------------------------
(* The reader behind the records *)

\* Without record ids the reader may go on behind the last record: SkipBytes has
\* counted too few bytes.
PastEnd(c) ==
  /\ c \in Readers
  /\ c.block_index <= Len(blocks)
  /\ c.block_index < Len(blocks) => c.file_index <= BlockSize(c)
  /\ Place(c) >= DataSize

\* There is nothing left in the block, and nothing in the blocks behind it.
LEMMA PastEndValues ==
  ASSUME blocks \in Seq(Blocks), blocks # <<>>, NEW c, PastEnd(c)
  PROVE  /\ c.block_index \in 0 .. Len(blocks) /\ c.file_index \in Nat
         /\ Place(c) \in Nat /\ BlockSize(c) \in Nat
         /\ BlockSize(c) - c.file_index <= 0
         /\ c.block_index < Len(blocks) =>
              /\ BlockSize(c) - c.file_index = 0
              /\ \A b \in c.block_index .. Len(blocks) : Ends[b] = DataSize
<1>1. PICK i \in 0 .. Len(blocks), f \in Nat : i = c.block_index /\ f = c.file_index
  BY DEF PastEnd, Readers
<1>2. Len(blocks) \in Nat /\ DataSize \in Nat /\ \A b \in 0 .. Len(blocks) : Ends[b] \in Nat
  BY EndsValues
<1>3. CASE i = 0
  <2>1. Place(c) = 0 /\ BlockSize(c) = 0 /\ DataSize = 0
    BY <1>1, <1>2, <1>3 DEF Place, BlockSize, PastEnd
  <2>2. Len(blocks) # 0
    OBVIOUS
  <2>3. f = 0
    BY <1>1, <1>2, <1>3, <2>1, <2>2 DEF PastEnd
  <2>4. ASSUME NEW b \in 0 .. Len(blocks) PROVE Ends[b] = 0
    <3>1. b <= Len(blocks) /\ Len(blocks) \in 0 .. Len(blocks)
      BY <1>2
    <3>2. Ends[b] <= Ends[Len(blocks)]
      BY <3>1, EndsValues
    <3> QED
      BY <1>2, <2>1, <3>2 DEF DataSize
  <2> QED
    BY <1>1, <1>2, <1>3, <2>1, <2>3, <2>4
<1>4. CASE i # 0
  <2>1. i \in 1 .. Len(blocks) /\ i - 1 \in 0 .. Len(blocks)
    BY <1>1, <1>2, <1>4
  <2>2. PICK s \in Nat, e \in Nat :
          s = blocks[i].size /\ e = Ends[i - 1] /\ Ends[i] = e + s
    BY <2>1, EndsValues
  <2>3. BlockSize(c) = s /\ Place(c) = e + f /\ e + f >= DataSize
    BY <1>1, <1>4, <2>2 DEF BlockSize, Place, PastEnd
  <2>4. CASE i = Len(blocks)
    <3>1. DataSize = e + s
      BY <2>2, <2>4 DEF DataSize
    <3>2. s - f <= 0 /\ e + f \in Nat
      <4>1. e + f >= e + s
        BY <2>3, <3>1
      <4> QED
        BY <4>1
    <3>3. ~(c.block_index < Len(blocks))
      BY <1>1, <1>2, <2>4
    <3> QED
      BY <1>1, <2>2, <2>3, <3>2, <3>3
  <2>5. CASE i # Len(blocks)
    <3>1. i < Len(blocks) /\ f <= s
      BY <1>1, <1>2, <2>3, <2>5 DEF PastEnd
    <3>2. ASSUME NEW b \in i .. Len(blocks)
          PROVE  Ends[i] <= Ends[b] /\ Ends[b] <= DataSize /\ Ends[b] \in Nat
      <4>1. /\ i \in 0 .. Len(blocks) /\ b \in 0 .. Len(blocks) /\ i <= b
            /\ b <= Len(blocks) /\ Len(blocks) \in 0 .. Len(blocks)
        BY <1>2
      <4> QED
        BY <4>1, EndsValues DEF DataSize
    <3>3. e + s <= DataSize
      <4>1. i \in i .. Len(blocks)
        BY <1>2, <3>1
      <4> QED
        BY <2>2, <3>2, <4>1
    <3>4. f = s /\ DataSize = e + s
      BY <1>2, <2>2, <2>3, <3>1, <3>3, SMTT(30)
    <3>5. \A b \in i .. Len(blocks) : Ends[b] = DataSize
      BY <1>2, <2>2, <3>2, <3>4
    <3> QED
      BY <1>1, <2>2, <2>3, <3>1, <3>4, <3>5, SMTT(30)
  <2> QED
    BY <2>4, <2>5
<1> QED
  BY <1>3, <1>4

LEMMA NoLanding ==
  ASSUME blocks \in Seq(Blocks), blocks # <<>>, NEW c, PastEnd(c), NEW n \in Nat \ {0}
  PROVE  Landing(c, n) = 0
<1>1. PICK i \in 0 .. Len(blocks) : i = c.block_index
  BY PastEndValues
<1>2. Len(blocks) \in Nat /\ DataSize \in Nat
  BY EndsValues
<1>3. SUFFICES ASSUME NEW b \in i + 1 .. Len(blocks), n <= Ends[b] - Ends[i]
               PROVE  FALSE
  <2>1. n \in Int
    OBVIOUS
  <2> QED
    BY <1>1, <2>1, LandingFirst
<1>4. i < Len(blocks) /\ i \in i .. Len(blocks) /\ b \in i .. Len(blocks)
  BY <1>2, <1>3
<1>5. Ends[b] = DataSize /\ Ends[i] = DataSize
  BY <1>1, <1>4, PastEndValues
<1> QED
  BY <1>2, <1>3, <1>5

\* Nothing can be read there.
LEMMA GetArrayPastEnd ==
  ASSUME blocks \in Seq(Blocks), blocks # <<>>, NEW c, PastEnd(c), NEW n \in Nat,
         GetArray(c, n).ok
  PROVE  n = 0 /\ PastEnd(GetArray(c, n).cache)
<1> DEFINE left == BlockSize(c) - c.file_index
<1>1. left \in Int /\ left <= 0
  BY PastEndValues
<1>2. CASE n <= left
  <2>1. GetArray(c, n).cache = Advance(c, n)
    BY <1>2 DEF GetArray
  <2>2. n = 0
    BY <1>1, <1>2
  <2> DEFINE a == Advance(c, n)
  <2>3. /\ c \in Readers /\ c.file_index \in Nat /\ a \in Readers
        /\ a.block_index = c.block_index /\ a.file_index = c.file_index + n
    BY AdvanceType DEF PastEnd, Readers
  <2> HIDE DEF a
  <2>4. BlockSize(a) = BlockSize(c) /\ a.file_index = c.file_index /\ Place(a) = Place(c)
    BY <2>2, <2>3 DEF BlockSize, Place
  <2>5. PastEnd(a)
    BY <2>3, <2>4 DEF PastEnd
  <2> QED
    BY <2>1, <2>2, <2>5 DEF a
<1>3. CASE ~(n <= left)
  <2>1. n - left \in Nat \ {0}
    BY <1>1, <1>3
  <2>2. Landing(c, n - left) = 0
    <3> HIDE DEF left
    <3> QED
      BY <2>1, NoLanding
  <2>3. GetArray(c, n) = [cache |-> c, bytes |-> <<>>, ok |-> FALSE]
    BY <1>3, <2>2 DEF GetArray
  <2> QED
    BY <2>3
<1> QED
  BY <1>2, <1>3

\* Skipping leads nowhere else.
LEMMA SkipBytesPastEnd ==
  ASSUME blocks \in Seq(Blocks), blocks # <<>>, NEW c, PastEnd(c), NEW n \in Nat
  PROVE  PastEnd(SkipBytes(c, n))
<1> DEFINE left == BlockSize(c) - c.file_index
           rest == n - left
<1>1. /\ left \in Int /\ left <= 0 /\ rest \in Nat /\ c \in Readers
      /\ c.block_index \in 0 .. Len(blocks) /\ c.file_index \in Nat
      /\ Len(blocks) \in Nat /\ Len(blocks) # 0
  BY PastEndValues DEF PastEnd
<1>2. DataSize \in Nat /\ \A b \in 0 .. Len(blocks) : Ends[b] \in Nat
  BY EndsValues
<1>3. ASSUME NEW k \in Nat,
             c.block_index = Len(blocks) \/ k = 0
      PROVE  PastEnd(Advance(c, k))
  <2> DEFINE a == Advance(c, k)
  <2>1. /\ a \in Readers /\ a.block_index = c.block_index
        /\ a.file_index = c.file_index + k
    BY <1>1, AdvanceType
  <2> HIDE DEF a
  <2>2. BlockSize(a) = BlockSize(c) /\ Place(a) >= Place(c) /\ Place(a) \in Nat
    <3>1. CASE c.block_index = 0
      BY <1>1, <1>3, <2>1, <3>1, PastEndValues DEF BlockSize, Place
    <3>2. CASE c.block_index # 0
      <4>1. c.block_index - 1 \in 0 .. Len(blocks)
        BY <1>1, <3>2
      <4>2. PICK e \in Nat : e = Ends[c.block_index - 1]
        BY <1>2, <4>1
      <4>3. Place(a) = e + a.file_index /\ Place(c) = e + c.file_index
        BY <2>1, <3>2, <4>2 DEF Place
      <4>4. BlockSize(a) = BlockSize(c)
        BY <2>1 DEF BlockSize
      <4>5. c.file_index \in Nat /\ a.file_index = c.file_index + k
        BY <1>1, <2>1
      <4> QED
        BY <4>3, <4>4, <4>5
    <3> QED
      BY <3>1, <3>2
  <2>3. Place(a) >= DataSize
    <3>1. Place(c) >= DataSize /\ Place(c) \in Nat
      BY PastEndValues DEF PastEnd
    <3> QED
      BY <1>2, <2>2, <3>1
  <2>4. a.block_index < Len(blocks) => a.file_index <= BlockSize(a)
    BY <1>1, <1>3, <2>1, <2>2 DEF PastEnd
  <2>5. PastEnd(a)
    BY <1>1, <2>1, <2>3, <2>4 DEF PastEnd
  <2> QED
    BY <2>5 DEF a
<1>4. CASE rest <= 0
  <2>1. n = 0
    BY <1>1, <1>4
  <2>2. SkipBytes(c, n) = Advance(c, n)
    BY <1>4 DEF SkipBytes
  <2> QED
    BY <1>3, <2>1, <2>2
<1>5. CASE ~(rest <= 0)
  <2>1. Landing(c, rest) = 0
    <3>1. rest \in Nat \ {0}
      BY <1>1, <1>5
    <3> HIDE DEF rest
    <3> QED
      BY <3>1, NoLanding
  <2>2. CASE c.block_index = Len(blocks)
    <3>1. SkipBytes(c, n) = Advance(c, rest)
      BY <1>5, <2>1, <2>2 DEF SkipBytes
    <3> HIDE DEF rest
    <3> QED
      BY <1>1, <1>3, <2>2, <3>1
  <2>3. CASE c.block_index # Len(blocks)
    <3> DEFINE o == [c EXCEPT !.block_index = Len(blocks), !.file_index = 0]
               k == rest - (DataSize - Ends[c.block_index])
    <3>1. SkipBytes(c, n) = Advance(o, k)
      BY <1>5, <2>1, <2>3 DEF SkipBytes
    <3>2. c.block_index < Len(blocks) /\ c.block_index \in c.block_index .. Len(blocks)
          /\ Len(blocks) - 1 \in c.block_index .. Len(blocks)
      BY <1>1, <2>3
    <3>3. Ends[c.block_index] = DataSize /\ Ends[Len(blocks) - 1] = DataSize
      BY <3>2, PastEndValues
    <3>4. k \in Nat
      BY <1>1, <1>2, <3>3
    <3>5. o \in Readers /\ o.block_index = Len(blocks) /\ o.file_index = 0
      BY <1>1 DEF Readers
    <3> HIDE DEF o, k, rest, left
    <3> DEFINE a == Advance(o, k)
    <3>6. a \in Readers /\ a.block_index = Len(blocks) /\ a.file_index = k
      <4>1. a \in Readers /\ a.block_index = o.block_index /\ a.file_index = o.file_index + k
        BY <3>4, <3>5, AdvanceType
      <4> HIDE DEF a
      <4> QED
        BY <3>4, <3>5, <4>1
    <3> HIDE DEF a
    <3>7. Place(a) = DataSize + k
      BY <1>1, <3>3, <3>6 DEF Place
    <3>8. PastEnd(a)
      BY <1>1, <1>2, <3>4, <3>6, <3>7 DEF PastEnd
    <3> QED
      BY <3>1, <3>8 DEF a
  <2> QED
    BY <2>2, <2>3
<1> QED
  BY <1>4, <1>5

LEMMA LocatedPastEnd ==
  ASSUME blocks \in Seq(Blocks), NEW c, Located(c), Place(c) = DataSize
  PROVE  PastEnd(c)
BY PlaceType, EndsValues DEF Located, PastEnd

-----------------------------------------------------------------------------
(* The end of the records *)

\* No block is empty, and every record has bytes.
FullBlocks      == \A b \in 1 .. Len(blocks) : blocks[b].size # 0
RecordsHaveSize == \A r \in Records : HeaderSize(r.group) + r.length # 0

\* The data groups in which every record has bytes
BytesInRecords == \A l \in Layouts : l.id = 0 => l.fixed = {} \/ l.size # 0

LEMMA FileInitFull ==
  ASSUME FileInit, ~EmptyBlocks
  PROVE  FullBlocks
<1>1. PICK n \in 1 .. layout.blocks :
        \E cuts \in [1 .. n - 1 -> 0 .. Starts[Len(records)]], kinds \in [1 .. n -> {"DT", "DZ"}] :
          /\ blocks = BlocksOf(Append(cuts, Starts[Len(records)]), kinds)
          /\ \A b \in 1 .. n : blocks[b].size >= (IF EmptyBlocks THEN 0 ELSE 1)
  BY DEF FileInit
<1>2. PICK cuts \in [1 .. n - 1 -> 0 .. Starts[Len(records)]] :
        /\ DOMAIN blocks = DOMAIN Append(cuts, Starts[Len(records)])
        /\ \A b \in 1 .. n : blocks[b].size >= 1
  BY <1>1 DEF BlocksOf
<1>3. /\ n \in Nat \ {0} /\ layout \in Layouts /\ records \in Seq(Records) /\ blocks \in Seq(Blocks)
  BY <1>1, FileInitTypes, LayoutAssumption DEF FileTypes, Layout
<1>4. PICK size \in Nat : size = Starts[Len(records)]
  <2>1. Len(records) \in 0 .. Len(records)
    BY <1>3
  <2> QED
    BY <1>3, <2>1, StartsValues
<1>5. DOMAIN Append(cuts, size) = 1 .. n
  <2>1. cuts \in Seq(Nat) /\ Len(cuts) = n - 1
    BY <1>2, <1>3, <1>4
  <2>2. Append(cuts, size) \in Seq(Nat) /\ Len(Append(cuts, size)) = n - 1 + 1
    BY <1>4, <2>1, AppendProperties
  <2> QED
    BY <1>3, <2>2
<1>6. \A b \in 1 .. Len(blocks) : b \in 1 .. n
  BY <1>2, <1>3, <1>4, <1>5
<1> QED
  BY <1>2, <1>6 DEF FullBlocks

LEMMA RecordsSized ==
  ASSUME layout \in Layouts, BytesInRecords
  PROVE  RecordsHaveSize
<1> SUFFICES ASSUME NEW r \in Records PROVE HeaderSize(r.group) + r.length # 0
  BY DEF RecordsHaveSize
<1>1. /\ FixedGroups \cap VlsdGroups = {} /\ RecordSize \in Nat /\ IdSize \in Nat
      /\ \A g \in VlsdGroups : HeaderSize(g) = IdSize + LengthSize
      /\ \A g \in FixedGroups : HeaderSize(g) = IdSize
  BY LayoutTypes
<1>2. LengthSize \in Nat \ {0} /\ r.length \in Nat
  BY LengthAssumption, RecordTypes
<1>3. \/ r.group \in FixedGroups /\ r.length = RecordSize
      \/ r.group \in VlsdGroups
  BY DEF Records
<1>4. CASE r.group \in VlsdGroups
  BY <1>1, <1>2, <1>4
<1>5. CASE r.group \in FixedGroups /\ r.length = RecordSize
  <2>1. IdSize # 0 \/ RecordSize # 0
    BY <1>5 DEF BytesInRecords, IdSize, RecordSize, FixedGroups
  <2> QED
    BY <1>1, <1>5, <2>1
<1> QED
  BY <1>3, <1>4, <1>5

\* Without empty blocks GetArray finds all the bytes there are.
LEMMA GetArrayEnough ==
  ASSUME blocks \in Seq(Blocks), FullBlocks, NEW c, Located(c), NEW n \in Nat,
         Place(c) + n <= DataSize
  PROVE  GetArray(c, n).ok
<1> DEFINE left == BlockSize(c) - c.file_index
<1>1. /\ c.block_index \in 0 .. Len(blocks) /\ Place(c) \in Nat
      /\ Place(c) + left = Ends[c.block_index] /\ left \in Nat
  <2>1. BlockSize(c) \in Nat /\ c.file_index \in Nat /\ c.file_index <= BlockSize(c)
    BY PlaceType DEF Located
  <2> QED
    BY <2>1, PlaceType
<1>2. CASE n <= left
  BY <1>2 DEF GetArray
<1>3. CASE ~(n <= left)
  <2>1. PICK i \in 0 .. Len(blocks) : i = c.block_index
    BY <1>1
  <2>2. PICK m \in Nat : m = n - left /\ m \in Int
    BY <1>1, <1>3
  <2>3. PICK b : b = Landing(c, m)
    OBVIOUS
  <2>4. Len(blocks) \in Nat /\ Ends[i] \in Nat /\ DataSize \in Nat /\ DataSize = Ends[Len(blocks)]
    BY <2>1, EndsValues DEF DataSize
  <2>5. ~(DataSize - Ends[i] < m)
    BY <1>1, <1>3, <2>1, <2>2, <2>4
  <2>6. i < Len(blocks)
    <3>1. i # Len(blocks)
      BY <1>1, <1>3, <2>1, <2>4
    <3> QED
      BY <2>1, <2>4, <3>1
  <2>7. b \in i + 1 .. Len(blocks)
    <3>1. Len(blocks) \in i + 1 .. Len(blocks)
      BY <2>4, <2>6
    <3>2. \/ /\ b = 0
             /\ \A l \in i + 1 .. Len(blocks) : Ends[l] - Ends[i] < m
          \/ b \in i + 1 .. Len(blocks)
      BY <2>1, <2>2, <2>3, LandingFirst
    <3> QED
      BY <2>4, <2>5, <3>1, <3>2
  <2>8. b # 0 /\ \A j \in i + 1 .. b : blocks[j].size # 0
    <3>1. \A j \in i + 1 .. b : j \in 1 .. Len(blocks)
      BY <2>4, <2>7
    <3> QED
      BY <2>4, <2>7, <3>1 DEF FullBlocks
  <2> HIDE DEF left
  <2> QED
    BY <1>3, <2>1, <2>2, <2>3, <2>8 DEF GetArray, left
<1> QED
  BY <1>2, <1>3

\* At a record there is nothing that GetArray could throw at.
LEMMA RecordComplete ==
  ASSUME FileTypes, FullBlocks, NEW i, InStep(i), i < Len(records)
  PROVE  ~GetArrayThrows
<1>1. /\ layout \in Layouts /\ records \in Seq(Records) /\ blocks \in Seq(Blocks)
      /\ i \in 0 .. Len(records) /\ Located(cache) /\ DataSize = Starts[Len(records)]
  BY DEF FileTypes, InStep
<1>2. PICK j \in 1 .. Len(records) : j = i + 1 /\ j - 1 = i
  BY <1>1
<1>3. /\ records[j].length \in Nat /\ HeaderSize(records[j].group) \in Nat
      /\ Starts[j] = Starts[i] + (HeaderSize(records[j].group) + records[j].length)
      /\ Starts[i] \in Nat
  BY <1>1, <1>2, StartsValues
<1>4. Starts[j] \in Nat /\ Starts[j] <= DataSize /\ DataSize \in Nat
  <2>1. j \in 0 .. Len(records) /\ Len(records) \in 0 .. Len(records) /\ j <= Len(records)
    BY <1>1, <1>2
  <2> QED
    BY <1>1, <2>1, StartsValues
<1>5. IdSize \in Nat /\ LengthSize \in Nat
  BY <1>1, LayoutTypes, LengthAssumption
<1>6. CASE next = "id"
  <2>1. Place(cache) + IdSize <= DataSize
    <3>1. HeaderSize(records[j].group) = IdSize \/ HeaderSize(records[j].group) = IdSize + LengthSize
      BY <1>5 DEF HeaderSize
    <3>2. Place(cache) = Starts[i]
      BY <1>6 DEF InStep
    <3> QED
      BY <1>3, <1>4, <1>5, <3>1, <3>2
  <2> QED
    BY <1>1, <1>5, <1>6, <2>1, GetArrayEnough DEF GetArrayThrows, ReadId
<1>7. CASE next = "length"
  <2>1. HeaderSize(records[j].group) = IdSize + LengthSize /\ Place(cache) = Starts[i] + IdSize
    BY <1>1, <1>2, <1>7, LayoutTypes DEF InStep
  <2>2. Place(cache) + LengthSize <= DataSize
    BY <1>3, <1>4, <1>5, <2>1
  <2> QED
    BY <1>1, <1>5, <1>7, <2>2, GetArrayEnough DEF GetArrayThrows
<1>8. CASE next = "data"
  <2>1. length = records[j].length /\ Place(cache) = Starts[i] + HeaderSize(records[j].group)
    BY <1>2, <1>8 DEF InStep
  <2>2. Place(cache) + length <= DataSize
    BY <1>3, <1>4, <2>1
  <2> QED
    BY <1>1, <1>3, <1>8, <2>1, <2>2, GetArrayEnough DEF GetArrayThrows
<1> QED
  BY <1>6, <1>7, <1>8 DEF GetArrayThrows

\* No more data is left only behind the last record.
LEMMA NoMoreRecords ==
  ASSUME FileTypes, RecordsHaveSize, NEW i, InStep(i), next = "id", NoMoreData
  PROVE  i = Len(records)
<1>1. /\ layout \in Layouts /\ records \in Seq(Records) /\ blocks \in Seq(Blocks) /\ blocks # <<>>
      /\ i \in 0 .. Len(records) /\ Located(cache) /\ DataSize = Starts[Len(records)]
      /\ Place(cache) = Starts[i] /\ cache.data_count <= Place(cache)
  BY DEF FileTypes, InStep
<1> SUFFICES ASSUME i # Len(records) PROVE FALSE
  OBVIOUS
<1>2. PICK j \in 1 .. Len(records) : j = i + 1 /\ j - 1 = i
  BY <1>1
<1>3. /\ records[j] \in Records /\ records[j].length \in Nat /\ HeaderSize(records[j].group) \in Nat
      /\ Starts[j] = Starts[i] + (HeaderSize(records[j].group) + records[j].length)
      /\ Starts[i] \in Nat
  BY <1>1, <1>2, StartsValues
<1>4. Starts[j] \in Nat /\ Starts[j] <= DataSize /\ DataSize \in Nat
  <2>1. j \in 0 .. Len(records) /\ Len(records) \in 0 .. Len(records) /\ j <= Len(records)
    BY <1>1, <1>2
  <2> QED
    BY <1>1, <2>1, StartsValues
<1>5. cache.data_count >= DataSize /\ cache.data_count \in Nat
  BY <1>1, PlaceType DEF NoMoreData
<1> QED
  BY <1>1, <1>3, <1>4, <1>5, SMTT(30) DEF RecordsHaveSize

-----------------------------------------------------------------------------
(* Ascending *)

\* The members of s up to i
Upto(s, i) == {j \in s : j <= i}

LEMMA UptoCounts ==
  ASSUME NEW n \in Nat, NEW s \in SUBSET (1 .. n)
  PROVE  /\ IsFiniteSet(s) /\ Cardinality(s) \in Nat
         /\ Upto(s, 0) = {} /\ Upto(s, n) = s /\ Cardinality(Upto(s, 0)) = 0
         /\ \A i \in 0 .. n : IsFiniteSet(Upto(s, i)) /\ Cardinality(Upto(s, i)) \in 0 .. Cardinality(s)
         /\ \A i \in 1 .. n :
              IF i \in s
              THEN Cardinality(Upto(s, i)) = Cardinality(Upto(s, i - 1)) + 1
              ELSE Upto(s, i) = Upto(s, i - 1)
         /\ \A i, j \in 0 .. n : i <= j => Cardinality(Upto(s, i)) <= Cardinality(Upto(s, j))
<1>0. \A j \in s : j \in Int /\ 1 <= j /\ j <= n
  OBVIOUS
<1>1. IsFiniteSet(s) /\ Cardinality(s) \in Nat
  <2>1. IsFiniteSet(1 .. n)
    BY FS_Interval
  <2>2. IsFiniteSet(s)
    BY <2>1, FS_Subset
  <2> QED
    BY <2>2, FS_CardinalityType
<1>2. Upto(s, 0) = {} /\ Upto(s, n) = s /\ Cardinality(Upto(s, 0)) = 0
  <2>1. Upto(s, 0) = {}
    <3>1. \A j \in s : ~(j <= 0)
      BY <1>0
    <3> QED
      BY <3>1 DEF Upto
  <2>2. Upto(s, n) = s
    <3>1. \A j \in s : j <= n
      BY <1>0
    <3> QED
      BY <3>1, Zenon DEF Upto
  <2> QED
    BY <2>1, <2>2, FS_EmptySet
<1>3. \A i \in 0 .. n : IsFiniteSet(Upto(s, i)) /\ Cardinality(Upto(s, i)) \in 0 .. Cardinality(s)
  <2> SUFFICES ASSUME NEW i \in 0 .. n
               PROVE  IsFiniteSet(Upto(s, i)) /\ Cardinality(Upto(s, i)) \in 0 .. Cardinality(s)
    OBVIOUS
  <2>1. Upto(s, i) \subseteq s
    BY DEF Upto
  <2>2. IsFiniteSet(Upto(s, i)) /\ Cardinality(Upto(s, i)) <= Cardinality(s)
    BY <1>1, <2>1, FS_Subset
  <2>3. Cardinality(Upto(s, i)) \in Nat
    BY <2>2, FS_CardinalityType
  <2> QED
    BY <1>1, <2>2, <2>3
<1>4. ASSUME NEW i \in 1 .. n
      PROVE  IF i \in s
             THEN Cardinality(Upto(s, i)) = Cardinality(Upto(s, i - 1)) + 1
             ELSE Upto(s, i) = Upto(s, i - 1)
  <2>1. CASE i \in s
    <3>1. Upto(s, i) = Upto(s, i - 1) \cup {i} /\ i \notin Upto(s, i - 1)
      <4>1. \A j \in s : j <= i <=> (j <= i - 1 \/ j = i)
        BY <1>0
      <4>2. ~(i <= i - 1) /\ i <= i
        OBVIOUS
      <4> QED
        BY <2>1, <4>1, <4>2 DEF Upto
    <3>2. IsFiniteSet(Upto(s, i - 1))
      BY <1>3
    <3>3. Cardinality(Upto(s, i - 1) \cup {i}) = Cardinality(Upto(s, i - 1)) + 1
      BY <3>1, <3>2, FS_AddElement
    <3> QED
      BY <2>1, <3>1, <3>3
  <2>2. CASE i \notin s
    <3>1. \A j \in s : j <= i <=> j <= i - 1
      BY <1>0, <2>2
    <3> QED
      BY <2>2, <3>1 DEF Upto
  <2> QED
    BY <2>1, <2>2
<1>5. ASSUME NEW i \in 0 .. n, NEW j \in 0 .. n, i <= j
      PROVE  Cardinality(Upto(s, i)) <= Cardinality(Upto(s, j))
  <2>1. Upto(s, i) \subseteq Upto(s, j)
    <3>1. \A k \in s : k <= i => k <= j
      BY <1>0, <1>5
    <3> QED
      BY <3>1 DEF Upto
  <2> QED
    BY <1>3, <2>1, FS_Subset
<1> QED
  BY <1>1, <1>2, <1>3, <1>4, <1>5

\* A member comes behind those that are less.
LEMMA AscendingAt ==
  ASSUME NEW n \in Nat, NEW s \in SUBSET (1 .. n), NEW i \in s
  PROVE  /\ Cardinality(Upto(s, i - 1)) + 1 \in 1 .. Cardinality(s)
         /\ Ascending(s)[Cardinality(Upto(s, i - 1)) + 1] = i
<1> DEFINE rank(j) == Cardinality({k \in s : k < j})
<1>1. \A j \in s : j \in 1 .. n /\ j - 1 \in 0 .. n /\ j \in 0 .. n
  OBVIOUS
<1>2. ASSUME NEW j \in s PROVE rank(j) = Cardinality(Upto(s, j - 1))
  <2>1. \A k \in s : k < j <=> k <= j - 1
    BY <1>1
  <2>2. {k \in s : k < j} = Upto(s, j - 1)
    BY <2>1 DEF Upto
  <2> QED
    BY <2>2
<1> HIDE DEF rank
<1>3. \A j \in 0 .. n : Cardinality(Upto(s, j)) \in 0 .. Cardinality(s)
  BY UptoCounts
<1>4. ASSUME NEW j \in s PROVE Cardinality(Upto(s, j)) = rank(j) + 1 /\ rank(j) \in Nat
  <2>1. \A l \in 1 .. n :
          IF l \in s THEN Cardinality(Upto(s, l)) = Cardinality(Upto(s, l - 1)) + 1
          ELSE Upto(s, l) = Upto(s, l - 1)
    BY UptoCounts
  <2>2. Cardinality(Upto(s, j)) = Cardinality(Upto(s, j - 1)) + 1
    BY <1>1, <2>1
  <2>3. Cardinality(Upto(s, j - 1)) \in Nat
    BY <1>1, <1>3
  <2> QED
    BY <1>2, <2>2, <2>3
<1>5. Cardinality(s) \in Nat
  BY UptoCounts
<1>6. rank(i) + 1 \in 1 .. Cardinality(s)
  BY <1>1, <1>3, <1>4, <1>5
<1>7. ASSUME NEW j \in s, NEW k \in s, j < k PROVE rank(j) < rank(k)
  <2>1. j \in 0 .. n /\ k - 1 \in 0 .. n /\ j <= k - 1
    BY <1>1, <1>7
  <2>2. Cardinality(Upto(s, j)) <= Cardinality(Upto(s, k - 1))
    <3>1. \A a, b \in 0 .. n : a <= b => Cardinality(Upto(s, a)) <= Cardinality(Upto(s, b))
      BY UptoCounts
    <3> QED
      BY <2>1, <3>1
  <2> QED
    BY <1>2, <1>4, <2>2
<1>8. \A j \in s : rank(j) = rank(i) => j = i
  <2> SUFFICES ASSUME NEW j \in s, rank(j) = rank(i), j # i PROVE FALSE
    OBVIOUS
  <2>1. j < i \/ i < j
    BY <1>1
  <2> QED
    BY <1>4, <1>7, <2>1
<1>9. PICK r \in 1 .. Cardinality(s) : r = rank(i) + 1
  BY <1>6
<1>10. Ascending(s)[r] = CHOOSE j \in s : rank(j) = r - 1
  <2>1. Ascending(s) = [k \in 1 .. Cardinality(s) |-> CHOOSE j \in s : rank(j) = k - 1]
    BY DEF Ascending, rank
  <2> QED
    BY <2>1, Zenon
<1>11. (CHOOSE j \in s : rank(j) = r - 1) = i
  <2>1. rank(i) = r - 1
    BY <1>4, <1>9
  <2> QED
    BY <1>8, <2>1
<1> QED
  BY <1>2, <1>9, <1>10, <1>11, Zenon

-----------------------------------------------------------------------------
(* What was delivered of a list *)

\* The first k members of a list
First(list, k) == [j \in 1 .. k |-> list[j]]

LEMMA FirstGrows ==
  ASSUME NEW S, NEW list \in Seq(S), NEW k \in Nat, k < Len(list)
  PROVE  /\ Len(First(list, k)) = k
         /\ Append(First(list, k), list[k + 1]) = First(list, k + 1)
<1>1. \A j \in 1 .. k + 1 : list[j] \in S
  OBVIOUS
<1>2. /\ First(list, k) \in Seq(S) /\ Len(First(list, k)) = k
      /\ First(list, k + 1) \in Seq(S) /\ Len(First(list, k + 1)) = k + 1
      /\ \A j \in 1 .. k : First(list, k)[j] = list[j]
      /\ \A j \in 1 .. k + 1 : First(list, k + 1)[j] = list[j]
  BY <1>1 DEF First
<1>3. list[k + 1] \in S
  BY <1>1
<1>4. PICK a : a = Append(First(list, k), list[k + 1])
  OBVIOUS
<1>5. /\ a \in Seq(S) /\ Len(a) = k + 1 /\ a[k + 1] = list[k + 1]
      /\ \A j \in 1 .. k : a[j] = list[j]
  BY <1>2, <1>3, <1>4, AppendProperties
<1>6. \A j \in 1 .. k + 1 : a[j] = First(list, k + 1)[j]
  BY <1>2, <1>5, SMTT(30)
<1>7. a = First(list, k + 1)
  BY <1>2, <1>5, <1>6, SeqEqual
<1> QED
  BY <1>2, <1>4, <1>7

LEMMA FirstAll ==
  ASSUME NEW S, NEW list \in Seq(S)
  PROVE  First(list, Len(list)) = list
BY DEF First

\* list has a member for each member of s.  If those up to i were handled, the
\* next number adds the next member exactly if it is in s.
LEMMA ListAdds ==
  ASSUME NEW n \in Nat, NEW s \in SUBSET (1 .. n), NEW S, NEW list \in Seq(S),
         Len(list) = Cardinality(s), NEW i \in 0 .. n - 1, i + 1 \in s,
         NEW k, k = Cardinality(Upto(s, i))
  PROVE  /\ k \in Nat /\ k < Len(list) /\ Len(First(list, k)) = k
         /\ Ascending(s)[k + 1] = i + 1
         /\ Append(First(list, k), list[k + 1]) = First(list, k + 1)
         /\ Cardinality(Upto(s, i + 1)) = k + 1
<1>1. PICK j \in 1 .. n : j = i + 1 /\ j - 1 = i
  OBVIOUS
<1>2. \A l \in 1 .. n : l \in s => Cardinality(Upto(s, l)) = Cardinality(Upto(s, l - 1)) + 1
  BY UptoCounts
<1>3. k + 1 \in 1 .. Cardinality(s) /\ Ascending(s)[k + 1] = j
  BY <1>1, AscendingAt
<1>4. k \in Nat
  <2>1. \A l \in 0 .. n : Cardinality(Upto(s, l)) \in 0 .. Cardinality(s)
    BY UptoCounts
  <2>2. i \in 0 .. n /\ Cardinality(s) \in Nat
    BY UptoCounts
  <2> QED
    BY <2>1, <2>2
<1>5. k < Len(list)
  BY <1>3, <1>4
<1>6. Len(First(list, k)) = k /\ Append(First(list, k), list[k + 1]) = First(list, k + 1)
  BY <1>4, <1>5, FirstGrows
<1>7. Cardinality(Upto(s, j)) = k + 1
  BY <1>1, <1>2
<1> QED
  BY <1>1, <1>3, <1>4, <1>5, <1>6, <1>7

\* Numbers that are not in s add nothing.
LEMMA UptoSame ==
  ASSUME NEW n \in Nat, NEW s \in SUBSET (1 .. n), NEW i \in 0 .. n, NEW k \in 0 .. n, i <= k,
         \A j \in i + 1 .. k : j \notin s
  PROVE  Upto(s, i) = Upto(s, k)
<1>1. \A j \in s : j <= i <=> j <= k
  <2> SUFFICES ASSUME NEW j \in s PROVE j <= i <=> j <= k
    OBVIOUS
  <2>1. j \in 1 .. n
    OBVIOUS
  <2>2. ~(j \in i + 1 .. k)
    OBVIOUS
  <2> QED
    BY <2>1, <2>2
<1> QED
  BY <1>1 DEF Upto

LEMMA ListComplete ==
  ASSUME NEW n \in Nat, NEW s \in SUBSET (1 .. n), NEW S, NEW list \in Seq(S),
         Len(list) = Cardinality(s), NEW i \in 0 .. n, \A j \in i + 1 .. n : j \notin s
  PROVE  First(list, Cardinality(Upto(s, i))) = list
<1>1. Upto(s, i) = s
  BY UptoSame, UptoCounts
<1> QED
  BY <1>1, FirstAll
=============================================================================
