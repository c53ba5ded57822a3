------------------------ MODULE UpstreamFeed_proofs ------------------------
(***************************************************************************)
(* Machine-checked proofs about UpstreamFeed, for any number of pictures   *)
(* and failures and any limit on what is in transit.  What the client has  *)
(* in its buffer and on the connection is a run of the stream the server   *)
(* sends, which begins after the pictures the parser found and not later   *)
(* than the next one.                                                      *)
(***************************************************************************)
EXTENDS UpstreamFeed, FiniteSetTheorems, SequenceTheorems, TLAPS

\* The byte at place i of the stream that carries the pictures s, eight places
\* for each.
StreamAt(s, i) ==
    CASE i % 8 \in {3, 6} -> FF
      [] i % 8 = 4 -> D8
      [] i % 8 = 7 -> D9
      [] i % 8 = 5 -> s[(i \div 8) + 1]
      [] OTHER -> Text

\* b is what follows the first c bytes of that stream.
Lies(b, s, c) ==
    /\ c + Len(b) <= 8 * Len(s)
    /\ \A j \in 1..Len(b) : b[j] = StreamAt(s, c + j)

\* Place c is past the first k pictures and not past the start of the next.
Between(c, k) == 8 * k - 1 <= c /\ c <= 8 * k + 2

-----------------------------------------------------------------------------
(* The inductive invariant.                                                *)

InStream ==
    \E c \in 0..(8 * Len(sent)) :
        /\ Between(c, Len(yielded))
        /\ Lies(buffer, sent, c)
        /\ Lies(wire, sent, c + Len(buffer))
        /\ server # "broken" => c + Len(buffer) + Len(wire) = 8 * Len(sent)

YieldedInv ==
    /\ Len(yielded) <= Len(sent)
    /\ \A i \in 1..Len(yielded) : yielded[i] = sent[i]

Increasing(s) == \A i, j \in 1..Len(s) : i < j => s[i] < s[j]

LastOr0(s) == IF s = <<>> THEN 0 ELSE s[Len(s)]

SentInv == Increasing(sent) /\ lastSent = LastOr0(sent)

HandInv ==
    IF at = "processing"
    THEN /\ yielded # <<>> /\ hand = yielded[Len(yielded)]
         /\ handled = IF Len(yielded) = 1 THEN 0 ELSE yielded[Len(yielded) - 1]
    ELSE hand = 0 /\ handled = LastOr0(yielded)

ConnectionInv ==
    /\ at \in {"idle", "backoff", "stopped"} <=> server = "none"
    /\ server = "none" => sent = <<>> /\ wire = <<>> /\ buffer = <<>> /\ yielded = <<>>

IInv == TypeOK /\ InStream /\ YieldedInv /\ SentInv /\ HandInv /\ ConnectionInv

-----------------------------------------------------------------------------
(* The stream and the parser.                                              *)

\* Which bytes of the stream are markers' bytes.
LEMMA StreamBytes ==
    ASSUME NEW s \in Seq(Pictures), NEW i \in 1..(8 * Len(s))
    PROVE  /\ StreamAt(s, i) \in Byte
           /\ StreamAt(s, i) = FF <=> i % 8 \in {3, 6}
           /\ StreamAt(s, i) = D8 <=> i % 8 = 4
           /\ StreamAt(s, i) = D9 <=> i % 8 = 7
           /\ i % 8 = 5 => StreamAt(s, i) = s[(i \div 8) + 1]
<1> USE FeedAssumption DEF FF, D8, D9, Text
<1>1. i % 8 \in 0..7 /\ i = 8 * (i \div 8) + (i % 8) /\ i \div 8 \in Nat
  <2>1. i \in Nat
    OBVIOUS
  <2>2. \A n \in Nat : n % 8 \in 0..7 /\ n = 8 * (n \div 8) + (n % 8) /\ n \div 8 \in Nat
    OBVIOUS
  <2> QED BY <2>1, <2>2
<1>2. CASE i % 8 = 5
  <2>1. (i \div 8) + 1 \in 1..Len(s)
    BY <1>1, <1>2
  <2>2. s[(i \div 8) + 1] \in Pictures
    BY <2>1
  <2>3. StreamAt(s, i) = s[(i \div 8) + 1]
    BY <1>2 DEF StreamAt
  <2> HIDE DEF StreamAt
  <2> QED BY <1>2, <2>2, <2>3 DEF Byte, Pictures
<1>3. CASE i % 8 # 5
  <2>1. StreamAt(s, i) = IF i % 8 \in {3, 6} THEN FF ELSE
                         IF i % 8 = 4 THEN D8 ELSE
                         IF i % 8 = 7 THEN D9 ELSE Text
    BY <1>3 DEF StreamAt
  <2> QED BY <1>1, <1>3, <2>1 DEF Byte
<1> QED BY <1>2, <1>3

\* A run of the stream has the markers of the stream and no others.
LEMMA MarkersInStream ==
    ASSUME NEW s \in Seq(Pictures), NEW b \in Seq(Byte), NEW c \in Nat, Lies(b, s, c),
           NEW i \in Nat \ {0}
    PROVE  /\ Markers(b, D8, i) = {p \in i..(Len(b) - 1) : (c + p) % 8 = 3}
           /\ Markers(b, D9, i) = {p \in i..(Len(b) - 1) : (c + p) % 8 = 6}
<1> SUFFICES ASSUME NEW p \in i..(Len(b) - 1)
             PROVE  /\ b[p] = FF /\ b[p + 1] = D8 <=> (c + p) % 8 = 3
                    /\ b[p] = FF /\ b[p + 1] = D9 <=> (c + p) % 8 = 6
  BY DEF Markers
<1>1. p \in 1..Len(b) /\ p + 1 \in 1..Len(b)
  OBVIOUS
<1>2. b[p] = StreamAt(s, c + p) /\ b[p + 1] = StreamAt(s, c + p + 1)
  BY <1>1 DEF Lies
<1>3. c + p \in 1..(8 * Len(s)) /\ c + p + 1 \in 1..(8 * Len(s))
  BY <1>1 DEF Lies
<1>4. (c + p + 1) % 8 = IF (c + p) % 8 = 7 THEN 0 ELSE ((c + p) % 8) + 1
  BY <1>1
<1>5. /\ StreamAt(s, c + p) = FF <=> (c + p) % 8 \in {3, 6}
      /\ StreamAt(s, c + p + 1) = D8 <=> (c + p + 1) % 8 = 4
      /\ StreamAt(s, c + p + 1) = D9 <=> (c + p + 1) % 8 = 7
  BY <1>3, StreamBytes
<1> QED BY <1>2, <1>4, <1>5

LEMMA LeastIsMin ==
    ASSUME NEW S \in SUBSET Int, NEW x \in S, \A y \in S : x <= y
    PROVE  Min(S) = x
<1>1. \A z \in S : (\A y \in S : z <= y) => z = x
  OBVIOUS
<1> QED BY <1>1 DEF Min

\* The rest of a run is a run.
LEMMA SuffixLies ==
    ASSUME NEW s \in Seq(Pictures), NEW b \in Seq(Byte), NEW c \in Nat, Lies(b, s, c),
           NEW i \in 1..(Len(b) + 1)
    PROVE  /\ Suffix(b, i) \in Seq(Byte)
           /\ Len(Suffix(b, i)) = Len(b) - i + 1
           /\ Lies(Suffix(b, i), s, c + i - 1)
<1>1. /\ Suffix(b, i) \in Seq(Byte) /\ Len(Suffix(b, i)) = Len(b) - i + 1
      /\ \A j \in 1..(Len(b) - i + 1) : Suffix(b, i)[j] = b[i + j - 1]
  BY DEF Suffix
<1> QED BY <1>1 DEF Lies

\* So is its beginning.
LEMMA PrefixLies ==
    ASSUME NEW s \in Seq(Pictures), NEW b \in Seq(Byte), NEW c \in Nat, Lies(b, s, c),
           NEW i \in 0..Len(b)
    PROVE  /\ SubSeq(b, 1, i) \in Seq(Byte)
           /\ Len(SubSeq(b, 1, i)) = i
           /\ Lies(SubSeq(b, 1, i), s, c)
<1>1. /\ SubSeq(b, 1, i) \in Seq(Byte) /\ Len(SubSeq(b, 1, i)) = i
      /\ \A j \in 1..i : SubSeq(b, 1, i)[j] = b[j]
  OBVIOUS
<1> QED BY <1>1 DEF Lies

\* Two runs of which one begins where the other ends are a run.
LEMMA ConcatLies ==
    ASSUME NEW s \in Seq(Pictures), NEW b \in Seq(Byte), NEW d \in Seq(Byte), NEW c \in Nat,
           Lies(b, s, c), Lies(d, s, c + Len(b))
    PROVE  /\ b \o d \in Seq(Byte)
           /\ Len(b \o d) = Len(b) + Len(d)
           /\ Lies(b \o d, s, c)
<1>1. /\ b \o d \in Seq(Byte) /\ Len(b \o d) = Len(b) + Len(d)
      /\ \A j \in 1..(Len(b) + Len(d)) :
            (b \o d)[j] = IF j <= Len(b) THEN b[j] ELSE d[j - Len(b)]
  OBVIOUS
<1>2. \A j \in 1..(Len(b) + Len(d)) : (b \o d)[j] = StreamAt(s, c + j)
  <2> TAKE j \in 1..(Len(b) + Len(d))
  <2>1. CASE j <= Len(b)
    BY <1>1, <2>1 DEF Lies
  <2>2. CASE j > Len(b)
    <3>1. j - Len(b) \in 1..Len(d)
      BY <2>2
    <3>2. d[j - Len(b)] = StreamAt(s, c + Len(b) + (j - Len(b)))
      BY <3>1 DEF Lies
    <3>3. c + Len(b) + (j - Len(b)) = c + j
      OBVIOUS
    <3> QED BY <1>1, <2>2, <3>2, <3>3
  <2> QED BY <2>1, <2>2
<1> QED BY <1>1, <1>2 DEF Lies

\* The first places of a marker after place c.
LEMMA NextMarkers ==
    ASSUME NEW c \in Nat, NEW k \in Nat, Between(c, k), NEW p \in Nat \ {0}
    PROVE  /\ (c + p) % 8 = 3 => 8 * k + 3 <= c + p
           /\ (c + p) % 8 = 6 /\ 8 * k + 3 <= c + p => 8 * k + 6 <= c + p
           /\ c + p = 8 * k + 3 => (c + p) % 8 = 3
           /\ c + p = 8 * k + 6 => (c + p) % 8 = 6
<1>1. PICK q \in Nat, r \in 0..7 : c + p = 8 * q + r /\ (c + p) % 8 = r
  <2>1. \A n \in Nat : n \div 8 \in Nat /\ n % 8 \in 0..7 /\ n = 8 * (n \div 8) + (n % 8)
    OBVIOUS
  <2> QED BY <2>1
<1> QED BY <1>1 DEF Between

\* What lies at the place of a picture is that picture.
LEMMA PictureInStream ==
    ASSUME NEW s \in Seq(Pictures), NEW b \in Seq(Byte), NEW c \in Nat, Lies(b, s, c),
           NEW k \in Nat, k < Len(s), NEW x \in Nat \ {0}, x + 4 <= Len(b), c + x = 8 * k + 3
    PROVE  SubSeq(b, x, x + 4) = Jpeg(s[k + 1]) /\ b[x + 2] = s[k + 1]
<1>1. k < Len(s) /\ x \in 1..Len(b) /\ Len(b) \in Nat
  OBVIOUS
<1>2. \A j \in 0..4 : b[x + j] = StreamAt(s, 8 * k + 3 + j)
  <2> TAKE j \in 0..4
  <2>1. x + j \in 1..Len(b)
    BY <1>1
  <2>2. c + (x + j) = 8 * k + 3 + j
    OBVIOUS
  <2> QED BY <2>1, <2>2 DEF Lies
<1>3. /\ (8 * k + 3) % 8 = 3 /\ (8 * k + 4) % 8 = 4 /\ (8 * k + 5) % 8 = 5
      /\ (8 * k + 6) % 8 = 6 /\ (8 * k + 7) % 8 = 7 /\ (8 * k + 5) \div 8 = k
  OBVIOUS
<1>4. \A j \in 3..7 : 8 * k + j \in 1..(8 * Len(s))
  BY <1>1
<1>5. /\ StreamAt(s, 8 * k + 3) = FF /\ StreamAt(s, 8 * k + 4) = D8
      /\ StreamAt(s, 8 * k + 5) = s[k + 1]
      /\ StreamAt(s, 8 * k + 6) = FF /\ StreamAt(s, 8 * k + 7) = D9
  <2>1. \A i \in 1..(8 * Len(s)) :
            /\ StreamAt(s, i) = FF <=> i % 8 \in {3, 6}
            /\ StreamAt(s, i) = D8 <=> i % 8 = 4
            /\ StreamAt(s, i) = D9 <=> i % 8 = 7
            /\ i % 8 = 5 => StreamAt(s, i) = s[(i \div 8) + 1]
    BY StreamBytes
  <2>2. /\ 8 * k + 3 \in 1..(8 * Len(s)) /\ 8 * k + 4 \in 1..(8 * Len(s))
        /\ 8 * k + 5 \in 1..(8 * Len(s)) /\ 8 * k + 6 \in 1..(8 * Len(s))
        /\ 8 * k + 7 \in 1..(8 * Len(s))
    BY <1>4
  <2> QED BY <1>3, <2>1, <2>2
<1>6. /\ b[x] = FF /\ b[x + 1] = D8 /\ b[x + 2] = s[k + 1]
      /\ b[x + 3] = FF /\ b[x + 4] = D9
  <2>1. /\ b[x + 0] = StreamAt(s, 8 * k + 3 + 0) /\ b[x + 1] = StreamAt(s, 8 * k + 3 + 1)
        /\ b[x + 2] = StreamAt(s, 8 * k + 3 + 2) /\ b[x + 3] = StreamAt(s, 8 * k + 3 + 3)
        /\ b[x + 4] = StreamAt(s, 8 * k + 3 + 4)
    <3> QED BY <1>2
  <2>2. /\ x + 0 = x /\ 8 * k + 3 + 0 = 8 * k + 3 /\ 8 * k + 3 + 1 = 8 * k + 4
        /\ 8 * k + 3 + 2 = 8 * k + 5 /\ 8 * k + 3 + 3 = 8 * k + 6
        /\ 8 * k + 3 + 4 = 8 * k + 7
    BY <1>1
  <2> QED BY <1>5, <2>1, <2>2
<1>7. \A i \in x..(x + 4) : b[i] \in Byte
  BY <1>1
<1>8. /\ SubSeq(b, x, x + 4) \in Seq(Byte) /\ Len(SubSeq(b, x, x + 4)) = 5
      /\ \A j \in 1..5 : SubSeq(b, x, x + 4)[j] = b[x + j - 1]
  BY <1>1, <1>7
<1>9. SubSeq(b, x, x + 4) = <<b[x], b[x + 1], b[x + 2], b[x + 3], b[x + 4]>>
  <2> DEFINE f == SubSeq(b, x, x + 4)
  <2>1. f \in Seq(Byte) /\ Len(f) = 5
    BY <1>8
  <2>2. f[1] = b[x] /\ f[2] = b[x + 1] /\ f[3] = b[x + 2] /\ f[4] = b[x + 3] /\ f[5] = b[x + 4]
    <3>1. /\ x + 1 - 1 = x /\ x + 2 - 1 = x + 1 /\ x + 3 - 1 = x + 2
          /\ x + 4 - 1 = x + 3 /\ x + 5 - 1 = x + 4
      BY <1>1
    <3>2. /\ f[1] = b[x + 1 - 1] /\ f[2] = b[x + 2 - 1] /\ f[3] = b[x + 3 - 1]
          /\ f[4] = b[x + 4 - 1] /\ f[5] = b[x + 5 - 1]
      <4> HIDE DEF f
      <4>1. \A j \in 1..5 : f[j] = b[x + j - 1]
        BY <1>8 DEF f
      <4> QED BY <4>1
    <3> HIDE DEF f
    <3> QED BY <3>1, <3>2
  <2> HIDE DEF f
  <2>3. f = <<f[1], f[2], f[3], f[4], f[5]>>
    BY <2>1
  <2>4. f = <<b[x], b[x + 1], b[x + 2], b[x + 3], b[x + 4]>>
    <3> QED BY <2>2, <2>3
  <2> QED BY <2>4 DEF f
<1> QED BY <1>1, <1>6, <1>9 DEF Jpeg

\* A buffer in which no picture was found: it holds less than one, and begins with
\* a marker, or may end in half of one.
Waits(b) == Len(b) < 5 /\ (Len(b) <= 2 \/ Markers(b, D8, 1) = {1})

\* b runs up to `end', and begins where the parser may stand after k pictures.
Continues(s, b, k, end) ==
    /\ b \in Seq(Byte)
    /\ \E c \in Nat : Between(c, k) /\ Lies(b, s, c) /\ c + Len(b) = end

\* One round of the parser, on a run of the stream that begins before the next
\* picture: it finds that picture, whole, and goes on behind it, or finds
\* nothing, and keeps what the next picture may begin in.
LEMMA ParsedInStream ==
    ASSUME NEW s \in Seq(Pictures), NEW b \in Seq(Byte), NEW c \in Nat, NEW k \in Nat,
           Between(c, k), Lies(b, s, c)
    PROVE  \/ /\ Parsed(b).frame = <<>>
              /\ Waits(Parsed(b).rest)
              /\ Continues(s, Parsed(b).rest, k, c + Len(b))
           \/ /\ k < Len(s) /\ Parsed(b).frame = Jpeg(s[k + 1])
              /\ Continues(s, Parsed(b).rest, k + 1, c + Len(b))
<1> DEFINE x == 8 * k + 3 - c
           starts == Markers(b, D8, 1)
           ends == Markers(b, D9, x + 2)
<1>1. x \in 1..4 /\ Len(b) \in Nat
  BY DEF Between
<1>2. starts = {p \in 1..(Len(b) - 1) : (c + p) % 8 = 3}
  BY MarkersInStream
<1>0. \A p \in Nat \ {0} :
          /\ (c + p) % 8 = 3 => 8 * k + 3 <= c + p
          /\ (c + p) % 8 = 6 /\ 8 * k + 3 <= c + p => 8 * k + 6 <= c + p
          /\ c + p = 8 * k + 3 => (c + p) % 8 = 3
          /\ c + p = 8 * k + 6 => (c + p) % 8 = 6
  BY NextMarkers
<1>3. \A p \in starts : x <= p
  <2> TAKE p \in starts
  <2>1. p \in Nat \ {0} /\ (c + p) % 8 = 3
    BY <1>2
  <2>2. 8 * k + 3 <= c + p
    BY <1>0, <2>1
  <2> HIDE DEF starts
  <2> QED BY <2>1, <2>2
<1>4. CASE Len(b) <= x
  <2>1. starts = {}
    BY <1>1, <1>3, <1>4, <1>2
  <2>2. Parsed(b) = [rest |-> IF Len(b) > 2 THEN Suffix(b, Len(b) - 1) ELSE b, frame |-> <<>>]
    BY <2>1 DEF Parsed
  <2>3. CASE Len(b) > 2
    <3>1. /\ Suffix(b, Len(b) - 1) \in Seq(Byte)
          /\ Len(Suffix(b, Len(b) - 1)) = 2
          /\ Lies(Suffix(b, Len(b) - 1), s, c + (Len(b) - 1) - 1)
      <4>1. Len(b) - 1 \in 1..(Len(b) + 1)
        BY <2>3
      <4>2. Len(b) - (Len(b) - 1) + 1 = 2
        OBVIOUS
      <4> QED BY <4>1, <4>2, SuffixLies
    <3>2. Parsed(b).rest = Suffix(b, Len(b) - 1) /\ Parsed(b).frame = <<>>
      BY <2>2, <2>3
    <3>3. /\ c + (Len(b) - 1) - 1 \in Nat /\ Between(c + (Len(b) - 1) - 1, k)
          /\ c + (Len(b) - 1) - 1 + 2 = c + Len(b)
      BY <1>1, <1>4, <2>3 DEF Between
    <3>4. Continues(s, Suffix(b, Len(b) - 1), k, c + Len(b))
      <4> DEFINE d == c + (Len(b) - 1) - 1
      <4>1. d \in Nat /\ Between(d, k) /\ d + 2 = c + Len(b)
        BY <3>3
      <4>2. Lies(Suffix(b, Len(b) - 1), s, d)
        BY <3>1
      <4> HIDE DEF d
      <4> QED BY <3>1, <4>1, <4>2 DEF Continues
    <3>5. Waits(Suffix(b, Len(b) - 1))
      <4>1. \A r \in Seq(Byte) : Len(r) = 2 => Waits(r)
        BY DEF Waits
      <4> QED BY <3>1, <4>1
    <3> QED BY <3>2, <3>4, <3>5
  <2>4. CASE Len(b) <= 2
    BY <2>2, <2>4 DEF Waits, Continues
  <2> QED BY <1>1, <2>3, <2>4
<1>5. CASE x < Len(b)
  <2>1. x \in starts
    <3>1. x \in Nat \ {0} /\ c + x = 8 * k + 3
      BY <1>1
    <3>2. (c + x) % 8 = 3
      BY <1>0, <3>1
    <3> HIDE DEF x
    <3> QED BY <1>1, <1>2, <1>5, <3>2
  <2>2. Min(starts) = x
    <3>1. starts \in SUBSET Int
      BY <1>2
    <3> QED BY <1>3, <2>1, <3>1, LeastIsMin
  <2>3. ends = {p \in (x + 2)..(Len(b) - 1) : (c + p) % 8 = 6}
    BY <1>1, MarkersInStream
  <2>4. \A p \in ends : x + 3 <= p
    <3> TAKE p \in ends
    <3>1. p \in Nat \ {0} /\ x + 2 <= p /\ (c + p) % 8 = 6
      BY <1>1, <2>3
    <3>2. 8 * k + 3 <= c + p
      BY <3>1
    <3>3. 8 * k + 6 <= c + p
      BY <1>0, <3>1, <3>2
    <3> QED BY <3>1, <3>3
  <2>5. CASE Len(b) <= x + 3
    <3>1. ends = {}
      BY <1>1, <2>3, <2>4, <2>5
    <3>2. Parsed(b) = [rest |-> Suffix(b, x), frame |-> <<>>]
      BY <2>1, <2>2, <3>1 DEF Parsed
    <3>3. /\ Suffix(b, x) \in Seq(Byte)
          /\ Len(Suffix(b, x)) = Len(b) - x + 1
          /\ Lies(Suffix(b, x), s, c + x - 1)
      <4>1. x \in 1..(Len(b) + 1)
        BY <1>1, <1>5
      <4> HIDE DEF x
      <4> QED BY <4>1, SuffixLies
    <3>4. c + x - 1 = 8 * k + 2
      OBVIOUS
    <3>5. Markers(Suffix(b, x), D8, 1) = {1}
      <4>1. Markers(Suffix(b, x), D8, 1)
                = {p \in 1..(Len(Suffix(b, x)) - 1) : (8 * k + 2 + p) % 8 = 3}
        BY <3>3, <3>4, MarkersInStream
      <4>2. Len(Suffix(b, x)) - 1 \in 1..3
        <5> HIDE DEF x
        <5> QED BY <1>1, <1>5, <2>5, <3>3
      <4>3. \A p \in 1..3 : (8 * k + 2 + p) % 8 = 2 + p
        OBVIOUS
      <4> DEFINE m == Len(Suffix(b, x)) - 1
      <4>4. Markers(Suffix(b, x), D8, 1) = {p \in 1..m : (8 * k + 2 + p) % 8 = 3}
        BY <4>1
      <4>5. m \in 1..3
        BY <4>2
      <4> HIDE DEF m
      <4>6. \A p \in 1..m : (8 * k + 2 + p) % 8 = 3 <=> p = 1
        BY <4>3, <4>5
      <4>7. {p \in 1..m : (8 * k + 2 + p) % 8 = 3} = {1}
        BY <4>5, <4>6
      <4> QED BY <4>4, <4>7
    <3>6. /\ 8 * k + 2 \in Nat /\ Between(8 * k + 2, k)
          /\ 8 * k + 2 + (Len(b) - x + 1) = c + Len(b)
      BY DEF Between
    <3>7. Len(b) - x + 1 < 5
      BY <1>1, <2>5
    <3> HIDE DEF x
    <3> QED BY <3>2, <3>3, <3>4, <3>5, <3>6, <3>7 DEF Waits, Continues
  <2>6. CASE x + 3 < Len(b)
    <3>1. x + 3 \in ends
      <4>1. x + 3 \in Nat \ {0} /\ c + (x + 3) = 8 * k + 6
        BY <1>1
      <4>2. (c + (x + 3)) % 8 = 6
        BY <1>0, <4>1
      <4> HIDE DEF x
      <4> QED BY <1>1, <2>3, <2>6, <4>2
    <3>2. Min(ends) = x + 3
      <4>1. ends \in SUBSET Int
        BY <2>3
      <4> QED BY <1>1, <2>4, <3>1, <4>1, LeastIsMin
    <3>3. Parsed(b) = [rest |-> Suffix(b, x + 5), frame |-> SubSeq(b, x, x + 4)]
      <4>1. x + 3 + 2 = x + 5 /\ x + 3 + 1 = x + 4
        BY <1>1
      <4> QED BY <2>1, <2>2, <3>1, <3>2, <4>1 DEF Parsed
    <3>4. /\ Suffix(b, x + 5) \in Seq(Byte)
          /\ Len(Suffix(b, x + 5)) = Len(b) - (x + 5) + 1
          /\ Lies(Suffix(b, x + 5), s, c + (x + 5) - 1)
      <4> DEFINE y == x + 5
      <4>1. y \in 1..(Len(b) + 1)
        BY <1>1, <2>6
      <4> HIDE DEF y
      <4>2. /\ Suffix(b, y) \in Seq(Byte)
            /\ Len(Suffix(b, y)) = Len(b) - y + 1
            /\ Lies(Suffix(b, y), s, c + y - 1)
        BY <4>1, SuffixLies
      <4> QED BY <4>2 DEF y
    <3>5. /\ c + (x + 5) - 1 = 8 * k + 7
          /\ 8 * k + 7 + (Len(b) - (x + 5) + 1) = c + Len(b)
          /\ 8 * k + 7 \in Nat /\ Between(8 * k + 7, k + 1)
      BY DEF Between
    <3>6. k < Len(s) /\ SubSeq(b, x, x + 4) = Jpeg(s[k + 1])
      <4>1. /\ k < Len(s) /\ x \in Nat \ {0} /\ x + 4 <= Len(b) /\ c + x = 8 * k + 3
        BY <1>1, <2>6 DEF Lies
      <4>2. \A i, y \in Nat : /\ i < Len(s) /\ y # 0 /\ y + 4 <= Len(b) /\ c + y = 8 * i + 3
                              => SubSeq(b, y, y + 4) = Jpeg(s[i + 1])
        BY PictureInStream
      <4> HIDE DEF x, starts, ends
      <4> QED BY <4>1, <4>2
    <3>7. Continues(s, Suffix(b, x + 5), k + 1, c + Len(b))
      <4> DEFINE r == Suffix(b, x + 5)
      <4>1. r \in Seq(Byte) /\ Lies(r, s, 8 * k + 7) /\ 8 * k + 7 + Len(r) = c + Len(b)
        BY <3>4, <3>5
      <4> HIDE DEF r
      <4>2. Continues(s, r, k + 1, c + Len(b))
        BY <3>5, <4>1 DEF Continues
      <4> QED BY <4>2 DEF r
    <3>8. Parsed(b).frame = SubSeq(b, x, x + 4) /\ Parsed(b).rest = Suffix(b, x + 5)
      BY <3>3
    <3> HIDE DEF x
    <3> QED BY <3>6, <3>7, <3>8
  <2> QED BY <1>1, <2>5, <2>6
<1> QED BY <1>1, <1>4, <1>5

\* A run of the stream stays one when another picture is sent after it.
LEMMA SendingLies ==
    ASSUME NEW s \in Seq(Pictures), NEW n \in Pictures, NEW b \in Seq(Byte), NEW c \in Nat,
           Lies(b, s, c)
    PROVE  Lies(b, Append(s, n), c)
<1> DEFINE t == Append(s, n)
<1>1. /\ t \in Seq(Pictures) /\ Len(t) = Len(s) + 1 /\ Len(s) \in Nat
      /\ \A i \in 1..Len(s) : t[i] = s[i]
  OBVIOUS
<1> HIDE DEF t
<1>2. \A i \in 1..(8 * Len(s)) : StreamAt(t, i) = StreamAt(s, i)
  <2> TAKE i \in 1..(8 * Len(s))
  <2>1. i % 8 = 5 => (i \div 8) + 1 \in 1..Len(s)
    <3>1. \A m \in Nat : m \div 8 \in Nat /\ m % 8 \in 0..7 /\ m = 8 * (m \div 8) + (m % 8)
      OBVIOUS
    <3>2. i \in Nat /\ i <= 8 * Len(s)
      BY <1>1
    <3> QED BY <1>1, <3>1, <3>2
  <2>2. CASE i % 8 = 5
    <3>1. StreamAt(t, i) = t[(i \div 8) + 1] /\ StreamAt(s, i) = s[(i \div 8) + 1]
      BY <2>2 DEF StreamAt
    <3> QED BY <1>1, <2>1, <2>2, <3>1
  <2>3. CASE i % 8 # 5
    BY <2>3 DEF StreamAt
  <2> QED BY <2>2, <2>3
<1>3. \A j \in 1..Len(b) : c + j \in 1..(8 * Len(s))
  BY <1>1 DEF Lies
<1>4. c + Len(b) <= 8 * Len(t)
  BY <1>1 DEF Lies
<1>5. Lies(b, t, c)
  BY <1>2, <1>3, <1>4 DEF Lies
<1> QED BY <1>5 DEF t

\* A part is the stretch of the stream that carries its picture.
LEMMA PartLies ==
    ASSUME NEW s \in Seq(Pictures), NEW n \in Pictures
    PROVE  /\ Part(n) \in Seq(Byte) /\ Len(Part(n)) = 8
           /\ Lies(Part(n), Append(s, n), 8 * Len(s))
<1> DEFINE t == Append(s, n)
           part == <<Text, Text, FF, D8, n, FF, D9, Text>>
<1>1. Part(n) = part
  <2>1. <<Text, Text>> \o <<FF, D8, n, FF, D9>> = <<Text, Text, FF, D8, n, FF, D9>>
    <3> DEFINE l == <<Text, Text>> \o <<FF, D8, n, FF, D9>>
    <3>1. <<Text, Text>> \in Seq(Byte) /\ <<FF, D8, n, FF, D9>> \in Seq(Byte)
      BY DEF Byte
    <3>2. l \in Seq(Byte) /\ Len(l) = 7
      BY <3>1
    <3>3. /\ l[1] = Text /\ l[2] = Text /\ l[3] = FF /\ l[4] = D8 /\ l[5] = n
          /\ l[6] = FF /\ l[7] = D9
      BY <3>1
    <3> HIDE DEF l
    <3>4. l = <<Text, Text, FF, D8, n, FF, D9>>
      BY <3>2, <3>3
    <3> QED BY <3>4 DEF l
  <2>2. <<Text, Text, FF, D8, n, FF, D9>> \o <<Text>> = part
    <3> DEFINE l == <<Text, Text, FF, D8, n, FF, D9>> \o <<Text>>
    <3>1. <<Text, Text, FF, D8, n, FF, D9>> \in Seq(Byte) /\ <<Text>> \in Seq(Byte)
      BY DEF Byte
    <3>2. l \in Seq(Byte) /\ Len(l) = 8
      BY <3>1
    <3>3. /\ l[1] = Text /\ l[2] = Text /\ l[3] = FF /\ l[4] = D8 /\ l[5] = n
          /\ l[6] = FF /\ l[7] = D9 /\ l[8] = Text
      BY <3>1
    <3> HIDE DEF l
    <3>4. l = <<Text, Text, FF, D8, n, FF, D9, Text>>
      BY <3>2, <3>3
    <3> QED BY <3>4 DEF l
  <2>3. Part(n) = <<Text, Text>> \o <<FF, D8, n, FF, D9>> \o <<Text>>
    BY DEF Part, Jpeg
  <2> QED BY <2>1, <2>2, <2>3
<1>2. part \in Seq(Byte) /\ Len(part) = 8
  BY DEF Byte
<1>3. t \in Seq(Pictures) /\ Len(t) = Len(s) + 1 /\ t[Len(s) + 1] = n /\ Len(s) \in Nat
  OBVIOUS
<1> HIDE DEF t
<1>4. \A j \in 1..8 : part[j] = StreamAt(t, 8 * Len(s) + j)
  <2>1. \A m \in Nat : /\ \A j \in 1..7 : (8 * m + j) % 8 = j
                       /\ (8 * m + 8) % 8 = 0 /\ (8 * m + 5) \div 8 = m
    OBVIOUS
  <2> DEFINE m == Len(s)
  <2>2. m \in Nat
    BY <1>3
  <2>3. /\ (8 * m + 1) % 8 = 1 /\ (8 * m + 2) % 8 = 2 /\ (8 * m + 3) % 8 = 3
        /\ (8 * m + 4) % 8 = 4 /\ (8 * m + 5) % 8 = 5 /\ (8 * m + 6) % 8 = 6
        /\ (8 * m + 7) % 8 = 7 /\ (8 * m + 8) % 8 = 0 /\ (8 * m + 5) \div 8 = m
    <3> HIDE DEF m
    <3> QED BY <2>1, <2>2
  <2> HIDE DEF m
  <2>4. /\ StreamAt(t, 8 * m + 1) = Text /\ StreamAt(t, 8 * m + 2) = Text
        /\ StreamAt(t, 8 * m + 3) = FF /\ StreamAt(t, 8 * m + 4) = D8
        /\ StreamAt(t, 8 * m + 5) = t[m + 1] /\ StreamAt(t, 8 * m + 6) = FF
        /\ StreamAt(t, 8 * m + 7) = D9 /\ StreamAt(t, 8 * m + 8) = Text
    BY <2>3 DEF StreamAt
  <2>5. t[m + 1] = n
    BY <1>3 DEF m
  <2>6. \A j \in 1..8 : part[j] = StreamAt(t, 8 * m + j)
    BY <2>4, <2>5
  <2> QED BY <2>6 DEF m
<1>5. Lies(part, t, 8 * Len(s))
  <2> HIDE DEF part
  <2> QED BY <1>2, <1>3, <1>4 DEF Lies
<1> QED BY <1>1, <1>2, <1>5 DEF t

-----------------------------------------------------------------------------
(* The invariant is inductive.                                             *)

LEMMA NothingLies == \A s \in Seq(Pictures) : Lies(<<>>, s, 8 * Len(s))
BY DEF Lies

\* What was sent is stored.
LEMMA SentAreStored ==
    ASSUME TypeOK, SentInv
    PROVE  \A i \in 1..Len(sent) : sent[i] \in 1..newest
<1> TAKE i \in 1..Len(sent)
<1>1. sent[i] \in Pictures /\ sent # <<>> /\ Len(sent) \in Nat /\ Len(sent) \in 1..Len(sent)
  BY DEF TypeOK
<1>2. sent[i] <= sent[Len(sent)]
  <2>1. sent[Len(sent)] \in Pictures
    BY <1>1 DEF TypeOK
  <2>2. CASE i = Len(sent)
    BY <1>1, <2>2, FeedAssumption DEF Pictures
  <2>3. CASE i < Len(sent)
    <3>1. sent[i] < sent[Len(sent)]
      BY <1>1, <2>3 DEF SentInv, Increasing
    <3> QED BY <1>1, <2>1, <3>1, FeedAssumption DEF Pictures
  <2> QED BY <1>1, <2>2, <2>3
<1>3. sent[Len(sent)] = lastSent /\ lastSent \in 0..newest /\ newest \in Nat
  BY <1>1, FeedAssumption DEF SentInv, LastOr0, TypeOK
<1> QED BY <1>1, <1>2, <1>3, FeedAssumption DEF Pictures

LEMMA InitIInv == Init => IInv
<1> SUFFICES ASSUME Init PROVE IInv
  OBVIOUS
<1> USE FeedAssumption DEF Init
<1>1. TypeOK
  BY DEF TypeOK
<1>2. InStream
  <2>1. Between(0, Len(yielded)) /\ Lies(buffer, sent, 0) /\ Lies(wire, sent, 0 + Len(buffer))
        /\ 0 + Len(buffer) + Len(wire) = 8 * Len(sent) /\ 0 \in 0..(8 * Len(sent))
    BY DEF Between, Lies
  <2> QED BY <2>1 DEF InStream
<1>3. YieldedInv /\ SentInv /\ HandInv /\ ConnectionInv
  BY DEF YieldedInv, SentInv, HandInv, ConnectionInv, Increasing, LastOr0
<1> QED BY <1>1, <1>2, <1>3 DEF IInv

\* Breaking off a connection leaves nothing of it.
LEMMA DisconnectKeeps ==
    ASSUME IInv, NEW next \in {"idle", "backoff", "stopped"}, Disconnect(next)
    PROVE  IInv'
<1> USE FeedAssumption DEF Disconnect, IInv
<1>1. TypeOK'
  BY DEF TypeOK, cameraVars
<1>2. InStream'
  <2>1. /\ Between(0, Len(yielded)') /\ Lies(buffer', sent', 0)
        /\ Lies(wire', sent', 0 + Len(buffer'))
        /\ 0 + Len(buffer') + Len(wire') = 8 * Len(sent') /\ 0 \in 0..(8 * Len(sent'))
    BY DEF Between, Lies
  <2> QED BY <2>1 DEF InStream
<1>3. YieldedInv' /\ SentInv' /\ HandInv' /\ ConnectionInv'
  BY DEF YieldedInv, SentInv, HandInv, ConnectionInv, Increasing, LastOr0
<1> QED BY <1>1, <1>2, <1>3

\* The steps that leave the bytes alone.
LEMMA QuietKeeps ==
    ASSUME IInv,
           \/ Store \/ CameraStops \/ CameraStarts \/ EndVideo
           \/ Connect \/ Wake \/ ConnectFails \/ UNCHANGED vars
    PROVE  IInv'
<1> USE FeedAssumption DEF Fail, Serving, vars, cameraVars, serverVars, clientVars
<1>2. /\ UNCHANGED <<wire, buffer, sent, yielded, lastSent, handled, hand>>
      /\ newest' \in newest..MaxFrames /\ latest' \in {0, newest'} /\ running' \in BOOLEAN
      /\ server' \in {"none", "serving", "ended", "broken"}
      /\ failures' \in 0..MaxFailures
      /\ at' \in {"idle", "reading", "processing", "backoff", "stopped"}
      /\ at' = "reading" => at = "reading" \/ buffer = <<>>
      /\ at' = "processing" <=> at = "processing"
      /\ at' \in {"idle", "backoff", "stopped"} <=> server' = "none"
      /\ server' = "none" => server = "none"
      /\ server' # "broken" => server # "broken"
  <2> USE DEF IInv, TypeOK, ConnectionInv
  <2>1. CASE Store
    BY <2>1 DEF Store
  <2>2. CASE CameraStops
    <3>1. /\ failures' = failures + 1 /\ failures < MaxFailures /\ running' = FALSE
          /\ UNCHANGED <<newest, latest, server, lastSent, wire, sent,
                         at, buffer, hand, handled, yielded>>
      BY <2>2 DEF CameraStops
    <3>2. failures' \in 0..MaxFailures /\ newest' \in newest..MaxFrames
      BY <3>1
    <3> QED BY <3>1, <3>2
  <2>7. CASE CameraStarts
    BY <2>7 DEF CameraStarts
  <2>3. CASE EndVideo
    BY <2>3 DEF EndVideo
  <2>4. CASE Connect
    BY <2>4 DEF Connect
  <2>5. CASE Wake \/ ConnectFails
    BY <2>5 DEF Wake, ConnectFails
  <2>6. CASE UNCHANGED vars
    BY <2>6
  <2> QED BY <2>1, <2>2, <2>3, <2>4, <2>5, <2>6, <2>7
<1>1. TypeOK'
  BY <1>2 DEF IInv, TypeOK, Markers
<1>4. InStream'
  <2>1. PICK c \in 0..(8 * Len(sent)) :
            /\ Between(c, Len(yielded)) /\ Lies(buffer, sent, c)
            /\ Lies(wire, sent, c + Len(buffer))
            /\ server # "broken" => c + Len(buffer) + Len(wire) = 8 * Len(sent)
    BY DEF IInv, InStream
  <2> QED BY <1>2, <2>1 DEF InStream
<1>5. YieldedInv' /\ SentInv'
  BY <1>2 DEF IInv, YieldedInv, SentInv, Increasing, LastOr0
<1>6. HandInv'
  BY <1>2 DEF IInv, HandInv, LastOr0
<1>7. ConnectionInv'
  BY <1>2 DEF IInv, ConnectionInv
<1> QED BY <1>1, <1>4, <1>5, <1>6, <1>7 DEF IInv

\* Sending a picture makes the stream longer by its part.
LEMMA SendKeeps == ASSUME IInv, SendFrame PROVE IInv'
<1> USE FeedAssumption
<1> DEFINE n == latest
<1>1. /\ n = newest /\ n \in Pictures /\ n > lastSent /\ lastSent' = n
      /\ sent' = Append(sent, n) /\ wire' = wire \o Part(n)
      /\ UNCHANGED <<newest, latest, running, server, at, buffer, hand, handled, yielded, failures>>
  BY DEF SendFrame, Serving, cameraVars, clientVars, IInv, TypeOK, Pictures
<1>2. /\ sent \in Seq(Pictures) /\ wire \in Seq(Byte) /\ buffer \in Seq(Byte)
      /\ server = "serving"
  BY DEF SendFrame, Serving, IInv, TypeOK
<1> HIDE DEF n
<1>3. /\ sent' \in Seq(Pictures) /\ Len(sent') = Len(sent) + 1 /\ Len(sent) \in Nat
      /\ sent'[Len(sent')] = n /\ \A i \in 1..Len(sent) : sent'[i] = sent[i]
  BY <1>1, <1>2
<1>4. /\ Part(n) \in Seq(Byte) /\ Len(Part(n)) = 8 /\ Lies(Part(n), sent', 8 * Len(sent))
  BY <1>1, <1>2, PartLies
<1>5. PICK c \in 0..(8 * Len(sent)) :
          /\ Between(c, Len(yielded)) /\ Lies(buffer, sent, c)
          /\ Lies(wire, sent, c + Len(buffer))
          /\ c + Len(buffer) + Len(wire) = 8 * Len(sent)
  BY <1>2 DEF IInv, InStream
<1>6. Lies(buffer, sent', c) /\ Lies(wire, sent', c + Len(buffer))
  BY <1>1, <1>2, <1>5, SendingLies
<1>7. wire' \in Seq(Byte) /\ Len(wire') = Len(wire) + 8 /\ Lies(wire', sent', c + Len(buffer))
  <2> DEFINE d == c + Len(buffer)
  <2>1. /\ d \in Nat /\ d + Len(wire) = 8 * Len(sent) /\ Lies(wire, sent', d)
        /\ Lies(Part(n), sent', d + Len(wire))
    BY <1>2, <1>4, <1>5, <1>6
  <2> DEFINE t == sent'
             part == Part(n)
  <2>2. /\ t \in Seq(Pictures) /\ part \in Seq(Byte) /\ Len(part) = 8
        /\ Lies(wire, t, d) /\ Lies(part, t, d + Len(wire))
    BY <1>3, <1>4, <2>1
  <2> HIDE DEF d, t, part
  <2>3. /\ wire \o part \in Seq(Byte) /\ Len(wire \o part) = Len(wire) + Len(part)
        /\ Lies(wire \o part, t, d)
    BY <1>2, <2>1, <2>2, ConcatLies
  <2> QED BY <1>1, <2>2, <2>3 DEF d, t, part
<1>8. InStream'
  <2>1. c \in 0..(8 * Len(sent')) /\ c + Len(buffer) + Len(wire') = 8 * Len(sent')
    <3>1. /\ Len(buffer) \in Nat /\ Len(wire) \in Nat /\ Len(wire') = Len(wire) + 8
          /\ 8 * Len(sent') = 8 * Len(sent) + 8
      BY <1>2, <1>3, <1>7
    <3>2. c \in Nat /\ c <= 8 * Len(sent) /\ c + Len(buffer) + Len(wire) = 8 * Len(sent)
      BY <1>3, <1>5
    <3>3. 8 * Len(sent) \in Nat
      BY <1>3
    <3> QED BY <3>1, <3>2, <3>3
  <2> QED BY <1>1, <1>5, <1>6, <1>7, <2>1 DEF InStream
<1>9. TypeOK'
  BY <1>1, <1>2, <1>3, <1>7 DEF IInv, TypeOK, Markers
<1>10. YieldedInv'
  BY <1>1, <1>3 DEF IInv, TypeOK, YieldedInv
<1>11. SentInv'
  <2>1. \A i \in 1..Len(sent) : sent[i] \in Pictures /\ sent[i] <= lastSent
    <3> TAKE i \in 1..Len(sent)
    <3>1. sent[i] \in Pictures /\ sent[Len(sent)] \in Pictures /\ lastSent = sent[Len(sent)]
      BY <1>2 DEF IInv, SentInv, LastOr0
    <3>2. i < Len(sent) => sent[i] < sent[Len(sent)]
      BY <1>3 DEF IInv, SentInv, Increasing
    <3> QED BY <1>3, <3>1, <3>2 DEF Pictures
  <2>2. \A i \in 1..Len(sent) : sent[i] < n
    BY <1>1, <2>1 DEF IInv, TypeOK, Pictures
  <2>3. Increasing(sent')
    <3> SUFFICES ASSUME NEW i \in 1..Len(sent'), NEW j \in 1..Len(sent'), i < j
                 PROVE  sent'[i] < sent'[j]
      BY DEF Increasing
    <3>1. CASE j = Len(sent')
      BY <1>3, <2>2, <3>1
    <3>2. CASE j # Len(sent')
      <4>1. i \in 1..Len(sent) /\ j \in 1..Len(sent)
        BY <1>3, <3>2
      <4> QED BY <1>3, <4>1 DEF IInv, SentInv, Increasing
    <3> QED BY <3>1, <3>2
  <2>4. lastSent' = LastOr0(sent')
    BY <1>1, <1>3 DEF LastOr0
  <2> QED BY <2>3, <2>4 DEF SentInv
<1>12. HandInv' /\ ConnectionInv'
  BY <1>1, <1>2 DEF IInv, HandInv, LastOr0, ConnectionInv
<1> QED BY <1>8, <1>9, <1>10, <1>11, <1>12 DEF IInv

\* Losing the end of what is in transit leaves a run of the stream.
LEMMA BrokenKeeps == ASSUME IInv, Break \/ RestartCamera PROVE IInv'
<1> USE FeedAssumption
<1>1. /\ Broken
      /\ newest' = newest /\ latest' \in {0, newest} /\ running' \in BOOLEAN
      /\ failures' \in 0..MaxFailures
      /\ UNCHANGED <<at, buffer, hand, handled, yielded, lastSent, sent>>
  <2>1. CASE Break
    BY <2>1 DEF Break, Fail, Broken, cameraVars, clientVars, IInv, TypeOK
  <2>2. CASE RestartCamera
    BY <2>2 DEF RestartCamera, Fail, Broken, clientVars, IInv, TypeOK
  <2> QED BY <2>1, <2>2
<1>2. server' = IF server = "none" THEN "none" ELSE "broken"
  BY <1>1 DEF Broken
<1>3. PICK k \in 0..Len(wire) : wire' = SubSeq(wire, 1, k)
  BY <1>1 DEF Broken
<1>4. /\ sent \in Seq(Pictures) /\ wire \in Seq(Byte) /\ buffer \in Seq(Byte)
      /\ Len(sent) \in Nat /\ Len(buffer) \in Nat
  BY DEF IInv, TypeOK
<1>5. PICK c \in 0..(8 * Len(sent)) :
          /\ Between(c, Len(yielded)) /\ Lies(buffer, sent, c)
          /\ Lies(wire, sent, c + Len(buffer))
          /\ server # "broken" => c + Len(buffer) + Len(wire) = 8 * Len(sent)
  BY DEF IInv, InStream
<1>6. wire' \in Seq(Byte) /\ Len(wire') = k /\ Lies(wire', sent, c + Len(buffer))
  BY <1>3, <1>4, <1>5, PrefixLies
<1>7. server' # "broken" => server = "none" /\ Len(wire) = 0 /\ Len(wire') = Len(wire)
  BY <1>2, <1>3, <1>6 DEF IInv, ConnectionInv
<1>8. InStream'
  <2>1. server' # "broken" => c + Len(buffer) + Len(wire') = 8 * Len(sent)
    BY <1>5, <1>7
  <2> QED BY <1>1, <1>5, <1>6, <2>1 DEF InStream
<1>9. TypeOK'
  BY <1>1, <1>2, <1>6 DEF IInv, TypeOK, Markers
<1>10. YieldedInv' /\ SentInv' /\ HandInv'
  BY <1>1 DEF IInv, YieldedInv, SentInv, Increasing, HandInv, LastOr0
<1>11. ConnectionInv'
  <2>1. server' = "none" => wire' = <<>>
    BY <1>2, <1>6, <1>7
  <2> QED BY <1>1, <1>2, <2>1 DEF IInv, ConnectionInv
<1> QED BY <1>8, <1>9, <1>10, <1>11 DEF IInv

\* The client's half of a step that parses: b is the buffer it parses from.
LEMMA ContinueEffect ==
    ASSUME IInv, NEW b \in Seq(Byte), NEW c \in Nat, Continue(b),
           Between(c, Len(yielded)), Lies(b, sent, c)
    PROVE  \/ /\ at' = "reading" /\ hand' = 0 /\ yielded' = yielded
              /\ Waits(buffer')
              /\ Continues(sent, buffer', Len(yielded), c + Len(b))
           \/ /\ at' = "processing" /\ Len(yielded) < Len(sent)
              /\ hand' = sent[Len(yielded) + 1] /\ yielded' = Append(yielded, hand')
              /\ Continues(sent, buffer', Len(yielded) + 1, c + Len(b))
<1>1. sent \in Seq(Pictures) /\ Len(yielded) \in Nat /\ Len(sent) \in Nat
  BY DEF IInv, TypeOK
<1>2. CASE /\ Parsed(b).frame = <<>>
           /\ Waits(Parsed(b).rest)
           /\ Continues(sent, Parsed(b).rest, Len(yielded), c + Len(b))
  BY <1>2 DEF Continue
<1>3. CASE /\ Len(yielded) < Len(sent) /\ Parsed(b).frame = Jpeg(sent[Len(yielded) + 1])
           /\ Continues(sent, Parsed(b).rest, Len(yielded) + 1, c + Len(b))
  <2> DEFINE n == sent[Len(yielded) + 1]
  <2>1. Jpeg(n) # <<>> /\ Len(Jpeg(n)) = 5 /\ Jpeg(n)[3] = n
    BY DEF Jpeg
  <2> HIDE DEF n
  <2>2. Decoded(Jpeg(n)) = n
    BY <2>1 DEF Decoded
  <2>3. Parsed(b).frame = Jpeg(n)
    BY <1>3 DEF n
  <2>4. /\ at' = "processing" /\ hand' = n /\ yielded' = Append(yielded, hand')
        /\ buffer' = Parsed(b).rest
    BY <2>1, <2>2, <2>3 DEF Continue
  <2> QED BY <1>3, <2>4 DEF n
<1> QED BY <1>1, <1>2, <1>3, ParsedInStream

\* What the invariant needs of a step that parses.
LEMMA ParsingKeeps ==
    ASSUME IInv, NEW b \in Seq(Byte), NEW c \in Nat, Continue(b),
           Between(c, Len(yielded)), Lies(b, sent, c),
           wire' \in Seq(Byte), Lies(wire', sent, c + Len(b)),
           server # "broken" => c + Len(b) + Len(wire') = 8 * Len(sent),
           server # "none", at \in {"reading", "processing"},
           handled' = LastOr0(yielded),
           UNCHANGED <<newest, latest, running, server, lastSent, sent, failures>>
    PROVE  IInv'
<1> USE FeedAssumption
<1> DEFINE k == Len(yielded)
<1>1. /\ sent \in Seq(Pictures) /\ yielded \in Seq(0..MaxFrames)
      /\ k \in Nat /\ Len(sent) \in Nat /\ Len(b) \in Nat /\ k <= Len(sent)
      /\ \A i \in 1..k : yielded[i] = sent[i]
      /\ newest \in 0..MaxFrames
  BY DEF IInv, TypeOK, YieldedInv
<1>2. \A i \in 1..Len(sent) : sent[i] \in 1..newest
  BY SentAreStored DEF IInv
<1>3. handled' \in 0..newest
  <2>1. CASE yielded = <<>>
    BY <1>1, <2>1 DEF LastOr0
  <2>2. CASE yielded # <<>>
    <3>1. k \in 1..Len(sent) /\ handled' = sent[k]
      BY <1>1, <2>2 DEF LastOr0
    <3> HIDE DEF k
    <3> QED BY <1>1, <1>2, <3>1
  <2> QED BY <2>1, <2>2
<1> DEFINE finds == /\ at' = "processing" /\ k < Len(sent)
                    /\ hand' = sent[k + 1] /\ yielded' = Append(yielded, hand')
                    /\ Continues(sent, buffer', k + 1, c + Len(b))
           waits == /\ at' = "reading" /\ hand' = 0 /\ yielded' = yielded
                    /\ Waits(buffer')
                    /\ Continues(sent, buffer', k, c + Len(b))
<1>4. finds \/ waits
  BY ContinueEffect
<1>5. finds => /\ hand' \in 1..newest /\ hand' \in 0..MaxFrames
               /\ Len(yielded') = k + 1 /\ yielded'[k + 1] = hand'
               /\ yielded' \in Seq(0..MaxFrames)
               /\ \A i \in 1..k : yielded'[i] = yielded[i]
  <2> SUFFICES ASSUME finds PROVE /\ hand' \in 1..newest /\ hand' \in 0..MaxFrames
                                  /\ Len(yielded') = k + 1 /\ yielded'[k + 1] = hand'
                                  /\ yielded' \in Seq(0..MaxFrames)
                                  /\ \A i \in 1..k : yielded'[i] = yielded[i]
    OBVIOUS
  <2>1. hand' \in 1..newest
    <3>1. k + 1 \in 1..Len(sent)
      BY <1>1
    <3> HIDE DEF k
    <3> QED BY <1>2, <3>1
  <2>2. hand' \in 0..MaxFrames
    BY <1>1, <2>1
  <2> QED BY <1>1, <2>1, <2>2
<1>6. Continues(sent, buffer', Len(yielded'), c + Len(b)) /\ Len(yielded') \in Nat
  BY <1>1, <1>4, <1>5
<1>7. PICK d \in Nat : /\ Between(d, Len(yielded')) /\ Lies(buffer', sent, d)
                       /\ d + Len(buffer') = c + Len(b)
  BY <1>6 DEF Continues
<1>8. InStream'
  <2>1. Len(buffer') \in Nat /\ d <= 8 * Len(sent)
    BY <1>6, <1>7 DEF Continues, Lies
  <2>2. d \in 0..(8 * Len(sent))
    BY <1>1, <1>7, <2>1
  <2> QED BY <1>7, <2>2 DEF InStream
<1>9. TypeOK'
  <2>1. buffer' \in Seq(Byte)
    BY <1>6 DEF Continues
  <2>2. /\ hand' \in 0..newest /\ yielded' \in Seq(0..MaxFrames)
        /\ at' \in {"reading", "processing"}
    BY <1>1, <1>4, <1>5
  <2>3. at' = "reading" => Waits(buffer')
    BY <1>4
  <2> HIDE DEF finds, waits, k
  <2> QED BY <1>3, <2>1, <2>2, <2>3 DEF IInv, TypeOK, Waits
<1>10. YieldedInv'
  <2>1. CASE waits
    BY <1>1, <2>1 DEF YieldedInv
  <2>2. CASE finds
    <3>1. k + 1 <= Len(sent) /\ yielded'[k + 1] = sent[k + 1] /\ Len(yielded') = k + 1
      BY <1>1, <1>5, <2>2
    <3>2. \A i \in 1..(k + 1) : yielded'[i] = sent[i]
      BY <1>1, <1>5, <2>2, <3>1
    <3> QED BY <3>1, <3>2 DEF YieldedInv
  <2> QED BY <1>4, <2>1, <2>2
<1>11. SentInv'
  BY DEF IInv, SentInv, Increasing
<1>12. HandInv'
  <2>1. CASE waits
    BY <2>1 DEF HandInv
  <2>2. CASE finds
    <3>1. /\ yielded' # <<>> /\ Len(yielded') = k + 1 /\ hand' = yielded'[k + 1]
      <4>1. /\ yielded' \in Seq(0..MaxFrames) /\ Len(yielded') = k + 1 /\ k + 1 # 0
            /\ hand' = yielded'[k + 1]
        BY <1>1, <1>5, <2>2
      <4> HIDE DEF finds, waits, k
      <4> QED BY <4>1
    <3>2. handled' = IF k + 1 = 1 THEN 0 ELSE yielded'[k + 1 - 1]
      <4>1. k = 0 <=> yielded = <<>>
        BY <1>1
      <4>2. k # 0 => yielded'[k] = yielded[k] /\ k + 1 - 1 = k
        <5>1. \A i \in 1..k : yielded'[i] = yielded[i]
          BY <1>5, <2>2
        <5> HIDE DEF k
        <5> QED BY <1>1, <5>1
      <4> QED BY <1>1, <4>1, <4>2 DEF LastOr0
    <3>3. at' = "processing" /\ k + 1 = Len(yielded')
      BY <2>2, <3>1
    <3>4. k + 1 = 1 <=> Len(yielded') = 1
      BY <3>3
    <3>5. k + 1 - 1 = Len(yielded') - 1
      BY <3>3
    <3> HIDE DEF k, finds, waits
    <3>6. handled' = IF Len(yielded') = 1 THEN 0 ELSE yielded'[Len(yielded') - 1]
      BY <3>2, <3>4, <3>5
    <3>7. hand' = yielded'[Len(yielded')]
      BY <3>1, <3>3
    <3> QED BY <3>1, <3>3, <3>6, <3>7 DEF HandInv
  <2> QED BY <1>4, <2>1, <2>2
<1>13. ConnectionInv'
  BY <1>4 DEF ConnectionInv, IInv
<1> QED BY <1>8, <1>9, <1>10, <1>11, <1>12, <1>13 DEF IInv

LEMMA ReadKeeps == ASSUME IInv, ReadChunk PROVE IInv'
<1> USE FeedAssumption
<1>1. /\ at = "reading" /\ server # "none" /\ handled' = handled /\ handled = LastOr0(yielded)
      /\ UNCHANGED <<newest, latest, running, server, lastSent, sent, failures>>
  BY DEF ReadChunk, cameraVars, IInv, HandInv, ConnectionInv
<1>2. PICK k \in 1..Len(wire) :
          Continue(buffer \o SubSeq(wire, 1, k)) /\ wire' = Suffix(wire, k + 1)
  BY DEF ReadChunk
<1>3. /\ sent \in Seq(Pictures) /\ wire \in Seq(Byte) /\ buffer \in Seq(Byte)
      /\ Len(sent) \in Nat /\ Len(buffer) \in Nat /\ Len(wire) \in Nat
  BY DEF IInv, TypeOK
<1>4. PICK c \in 0..(8 * Len(sent)) :
          /\ Between(c, Len(yielded)) /\ Lies(buffer, sent, c)
          /\ Lies(wire, sent, c + Len(buffer))
          /\ server # "broken" => c + Len(buffer) + Len(wire) = 8 * Len(sent)
  BY DEF IInv, InStream
<1> DEFINE chunk == SubSeq(wire, 1, k)
           b == buffer \o chunk
<1>5. c \in Nat /\ c + Len(buffer) \in Nat
  BY <1>3, <1>4
<1>6. chunk \in Seq(Byte) /\ Len(chunk) = k /\ Lies(chunk, sent, c + Len(buffer))
  BY <1>2, <1>3, <1>4, <1>5, PrefixLies
<1>7. /\ wire' \in Seq(Byte) /\ Len(wire') = Len(wire) - (k + 1) + 1
      /\ Lies(wire', sent, c + Len(buffer) + (k + 1) - 1)
  <2> DEFINE m == k + 1
             d == c + Len(buffer)
  <2>1. m \in 1..(Len(wire) + 1) /\ d \in Nat /\ Lies(wire, sent, d) /\ wire' = Suffix(wire, m)
    BY <1>2, <1>3, <1>4, <1>5
  <2> HIDE DEF m, d
  <2>2. /\ wire' \in Seq(Byte) /\ Len(wire') = Len(wire) - m + 1
        /\ Lies(wire', sent, d + m - 1)
    BY <1>3, <2>1, SuffixLies
  <2> QED BY <2>2 DEF m, d
<1> HIDE DEF chunk
<1>8. b \in Seq(Byte) /\ Len(b) = Len(buffer) + k /\ Lies(b, sent, c)
  BY <1>3, <1>4, <1>5, <1>6, ConcatLies
<1>9. Continue(b)
  BY <1>2 DEF chunk
<1> HIDE DEF b
<1>10. c + Len(buffer) + (k + 1) - 1 = c + Len(b)
       /\ (server # "broken" => c + Len(b) + Len(wire') = 8 * Len(sent))
  <2>1. c + Len(buffer) + (k + 1) - 1 = c + (Len(buffer) + k) /\ k \in Int
    BY <1>3, <1>5
  <2>2. c + (Len(buffer) + k) + (Len(wire) - (k + 1) + 1) = c + Len(buffer) + Len(wire)
    BY <1>3, <1>5, <2>1
  <2> QED BY <1>4, <1>7, <1>8, <2>1, <2>2
<1>11. Lies(wire', sent, c + Len(b))
  BY <1>7, <1>10
<1> QED BY <1>1, <1>4, <1>5, <1>7, <1>8, <1>9, <1>10, <1>11, ParsingKeeps

LEMMA ProcessKeeps == ASSUME IInv, Process PROVE IInv'
<1> USE FeedAssumption
<1>1. /\ at = "processing" /\ server # "none" /\ Continue(buffer)
      /\ UNCHANGED <<newest, latest, running, server, lastSent, wire, sent, failures>>
  BY DEF Process, cameraVars, serverVars, IInv, ConnectionInv
<1>2. handled' = LastOr0(yielded)
  <2>1. /\ yielded # <<>> /\ hand = yielded[Len(yielded)] /\ Len(yielded) \in 1..Len(sent)
        /\ yielded[Len(yielded)] = sent[Len(yielded)]
    BY <1>1 DEF IInv, HandInv, YieldedInv, TypeOK
  <2>2. hand # 0
    BY <2>1, SentAreStored DEF IInv
  <2> QED BY <2>1, <2>2 DEF Process, LastOr0
<1>3. /\ wire \in Seq(Byte) /\ buffer \in Seq(Byte)
  BY DEF IInv, TypeOK
<1>4. PICK c \in 0..(8 * Len(sent)) :
          /\ Between(c, Len(yielded)) /\ Lies(buffer, sent, c)
          /\ Lies(wire, sent, c + Len(buffer))
          /\ server # "broken" => c + Len(buffer) + Len(wire) = 8 * Len(sent)
  BY DEF IInv, InStream
<1>5. c \in Nat
  BY <1>4
<1> QED BY <1>1, <1>2, <1>3, <1>4, <1>5, ParsingKeeps

LEMMA NextIInv == IInv /\ [Next]_vars => IInv'
<1> SUFFICES ASSUME IInv, [Next]_vars PROVE IInv'
  OBVIOUS
<1>1. CASE Store \/ CameraStops \/ CameraStarts \/ EndVideo \/ Connect \/ Wake \/ ConnectFails
           \/ UNCHANGED vars
  BY <1>1, QuietKeeps
<1>2. CASE SendFrame
  BY <1>2, SendKeeps
<1>3. CASE Break \/ RestartCamera
  BY <1>3, BrokenKeeps
<1>4. CASE ReadChunk
  BY <1>4, ReadKeeps
<1>5. CASE Process
  BY <1>5, ProcessKeeps
<1>6. CASE StreamEnds \/ ReadFails \/ ReadTimesOut \/ Stop
  BY <1>6, DisconnectKeeps DEF StreamEnds, ReadFails, ReadTimesOut, Stop
<1> QED BY <1>1, <1>2, <1>3, <1>4, <1>5, <1>6 DEF Next, ServerStep, ClientStep

LEMMA Invariance == Spec => []IInv
BY InitIInv, NextIInv, PTL DEF Spec

\* Types; and while the parser waits for more it holds less than a picture.
THEOREM TypeCorrect == Spec => []TypeOK
<1>1. IInv => TypeOK
  BY DEF IInv
<1> QED BY <1>1, Invariance, PTL

-----------------------------------------------------------------------------
(* UpstreamFeed implements FrameFeed.                                      *)

\* How many pictures were processed on this connection.
Count == IF at = "processing" THEN Len(yielded) - 1 ELSE Len(yielded)

CountInv == Count \in Nat /\ Cardinality(Processed) = Count

\* No picture that is processed failed to decode, so all of them count.
LEMMA AllCount == IInv => CountInv
<1> SUFFICES ASSUME IInv PROVE CountInv
  OBVIOUS
<1>1. /\ Len(yielded) \in Nat /\ at = "processing" => Len(yielded) # 0
      /\ \A i \in 1..Len(yielded) : yielded[i] # 0
  <2>1. \A i \in 1..Len(yielded) : i \in 1..Len(sent) /\ yielded[i] = sent[i]
    BY DEF IInv, YieldedInv, TypeOK
  <2>2. Len(yielded) \in Nat /\ (at = "processing" => Len(yielded) # 0)
    BY DEF IInv, TypeOK, HandInv
  <2> QED BY <2>1, <2>2, SentAreStored DEF IInv
<1>2. Count \in Nat
  BY <1>1 DEF Count
<1>3. Processed = 1..Count
  BY <1>1 DEF Processed, Count
<1>4. Cardinality(1..Count) = Count
  BY <1>2, FS_Interval
<1> QED BY <1>2, <1>3, <1>4 DEF CountInv

LEMMA AllCountNext == IInv' => CountInv'
BY AllCount, PTL

\* A picture that was found was sent, and after the one found before it.
LEMMA MapProcess == ASSUME IInv, IInv', Process PROVE Feed!Show("pipeline")
<1>1. /\ at = "processing" /\ yielded # <<>> /\ Len(yielded) \in 1..Len(sent)
      /\ Len(yielded) \in Nat /\ Len(sent) \in Nat
      /\ \A i \in 1..Len(yielded) : yielded[i] = sent[i]
      /\ hand = yielded[Len(yielded)]
      /\ handled = IF Len(yielded) = 1 THEN 0 ELSE yielded[Len(yielded) - 1]
  <2>1. at = "processing" /\ Len(yielded) \in Nat /\ Len(sent) \in Nat
    BY DEF Process, IInv, TypeOK
  <2>2. /\ yielded # <<>> /\ hand = yielded[Len(yielded)]
        /\ handled = IF Len(yielded) = 1 THEN 0 ELSE yielded[Len(yielded) - 1]
    BY <2>1 DEF IInv, HandInv
  <2>3. Len(yielded) # 0
    BY <2>2 DEF IInv, TypeOK
  <2>4. Len(yielded) <= Len(sent) /\ \A i \in 1..Len(yielded) : yielded[i] = sent[i]
    BY DEF IInv, YieldedInv
  <2> QED BY <2>1, <2>2, <2>3, <2>4
<1>2. hand \in 1..newest /\ hand = sent[Len(yielded)]
  BY <1>1, SentAreStored DEF IInv
<1>3. hand > handled
  <2>1. CASE Len(yielded) = 1
    BY <1>1, <1>2, <2>1
  <2>2. CASE Len(yielded) # 1
    <3>1. Len(yielded) - 1 \in 1..Len(yielded) /\ Len(yielded) - 1 \in 1..Len(sent)
      <4> DEFINE k == Len(yielded)
                 l == Len(sent)
      <4>1. k \in 1..l /\ l \in Nat /\ k # 1
        BY <1>1, <2>2
      <4> HIDE DEF k, l
      <4>2. k - 1 \in 1..k /\ k - 1 \in 1..l
        BY <4>1
      <4> QED BY <4>2 DEF k, l
    <3>2. handled = sent[Len(yielded) - 1]
      BY <1>1, <2>2, <3>1
    <3>3. sent[Len(yielded) - 1] < sent[Len(yielded)]
      BY <1>1, <3>1 DEF IInv, SentInv, Increasing
    <3>4. sent[Len(yielded) - 1] \in 1..newest
      BY <3>1, SentAreStored DEF IInv
    <3> QED BY <1>2, <3>2, <3>3, <3>4
  <2> QED BY <2>1, <2>2
<1>4. handled' = hand /\ newest' = newest /\ handled \in 0..newest /\ newest \in Nat
  BY <1>2, FeedAssumption DEF Process, cameraVars, IInv, TypeOK
<1>5. Count' = Count + 1
  <2>1. \/ at' = "reading" /\ yielded' = yielded
        \/ at' = "processing" /\ yielded' = Append(yielded, hand')
    BY DEF Process, Continue
  <2>2. Len(yielded) \in Nat /\ Count = Len(yielded) - 1
    BY <1>1 DEF Count
  <2>3. CASE at' = "reading" /\ yielded' = yielded
    BY <2>2, <2>3 DEF Count
  <2>4. CASE at' = "processing" /\ yielded' = Append(yielded, hand')
    <3>1. yielded \in Seq(0..MaxFrames) /\ hand' \in 0..newest'
      BY DEF IInv, TypeOK
    <3>2. Len(yielded') = Len(yielded) + 1
      BY <2>4, <3>1
    <3> QED BY <2>2, <2>4, <3>2 DEF Count
  <2> QED BY <2>1, <2>3, <2>4
<1>6. Cardinality(Processed) = Count /\ Cardinality(Processed)' = Count'
  <2>1. Cardinality(Processed) = Count
    BY AllCount DEF CountInv
  <2>2. Cardinality(Processed)' = Count'
    BY AllCountNext DEF CountInv
  <2> QED BY <2>1, <2>2
<1>7. hand \in (handled + 1)..newest
  BY <1>2, <1>3, <1>4
<1> QED BY <1>4, <1>5, <1>6, <1>7 DEF Feed!Show

\* Disconnecting is leaving.
LEMMA MapDisconnect ==
    ASSUME NEW next \in {"idle", "backoff", "stopped"}, Disconnect(next), IInv'
    PROVE  Feed!Leave("pipeline")
<1>1. handled' = 0 /\ yielded' = <<>> /\ newest' = newest /\ at' # "processing"
  BY DEF Disconnect, cameraVars
<1>2. Count' = 0
  BY <1>1 DEF Count
<1>3. Cardinality(Processed)' = 0
  BY <1>2, AllCountNext DEF CountInv
<1> QED BY <1>1, <1>3 DEF Feed!Leave

\* Bytes that arrive show nothing before the picture they complete is processed.
LEMMA MapRead == ASSUME IInv, IInv', ReadChunk PROVE UNCHANGED Feed!feedVars
<1>1. PICK b : Continue(b)
  BY DEF ReadChunk
<1>2. at = "reading" /\ handled' = handled /\ newest' = newest
  BY DEF ReadChunk, cameraVars
<1>3. \/ at' = "reading" /\ yielded' = yielded
      \/ at' = "processing" /\ yielded' = Append(yielded, hand')
  BY <1>1 DEF Continue
<1>4. Count' = Count
  <2>1. yielded \in Seq(0..MaxFrames) /\ hand' \in 0..newest' /\ Count = Len(yielded)
    BY <1>2 DEF IInv, TypeOK, Count
  <2>2. CASE at' = "reading" /\ yielded' = yielded
    BY <2>1, <2>2 DEF Count
  <2>3. CASE at' = "processing" /\ yielded' = Append(yielded, hand')
    <3>1. Len(yielded') = Len(yielded) + 1 /\ Len(yielded) \in Nat
      BY <2>1, <2>3
    <3> QED BY <2>1, <2>3, <3>1 DEF Count
  <2> QED BY <1>3, <2>2, <2>3
<1>5. Cardinality(Processed) = Count
  BY AllCount DEF CountInv
<1>6. Cardinality(Processed)' = Count'
  BY AllCountNext DEF CountInv
<1> QED BY <1>2, <1>4, <1>5, <1>6 DEF Feed!feedVars

LEMMA MapStep == IInv /\ IInv' /\ [Next]_vars => [Feed!FeedNext]_Feed!feedVars
<1> SUFFICES ASSUME IInv, IInv', [Next]_vars PROVE [Feed!FeedNext]_Feed!feedVars
  OBVIOUS
<1>1. CASE Store
  BY <1>1 DEF Store, serverVars, clientVars, Processed, Feed!FeedNext, Feed!PublishNext
<1>2. CASE CameraStops \/ CameraStarts \/ SendFrame \/ EndVideo \/ Break \/ RestartCamera
           \/ UNCHANGED vars
  <2>1. UNCHANGED <<newest, at, handled, yielded>>
    BY <1>2 DEF CameraStops, CameraStarts, SendFrame, EndVideo, Break, RestartCamera,
                vars, cameraVars, clientVars
  <2> QED BY <2>1 DEF Processed, Feed!feedVars
<1>3. CASE Connect \/ Wake \/ ConnectFails
  <2>1. /\ UNCHANGED <<newest, handled, yielded>>
        /\ at # "processing" /\ at' # "processing"
    BY <1>3 DEF Connect, Wake, ConnectFails, cameraVars
  <2> QED BY <2>1 DEF Processed, Feed!feedVars
<1>4. CASE ReadChunk
  BY <1>4, MapRead
<1>5. CASE Process
  BY <1>5, MapProcess DEF Feed!FeedNext
<1>6. CASE StreamEnds \/ ReadFails \/ ReadTimesOut \/ Stop
  BY <1>6, MapDisconnect DEF StreamEnds, ReadFails, ReadTimesOut, Stop, Feed!FeedNext
<1> QED BY <1>1, <1>2, <1>3, <1>4, <1>5, <1>6 DEF Next, ServerStep, ClientStep

\* The pipeline is a viewer of the camera as FrameFeed describes one: whatever
\* breaks, it processes pictures that were stored, in order, none twice on one
\* connection.
THEOREM FeedRefinement == Spec => ImplementsFeed
<1>1. Init => Feed!FeedInit
  <2> SUFFICES ASSUME Init PROVE Feed!FeedInit
    OBVIOUS
  <2>1. Cardinality(Processed) = 0
    BY InitIInv, AllCount DEF Init, Count, CountInv
  <2> QED BY <2>1 DEF Init, Feed!FeedInit
<1> QED BY <1>1, Invariance, MapStep, PTL DEF Spec, ImplementsFeed, Feed!FeedSpec

-----------------------------------------------------------------------------
(* No picture is lost.                                                     *)

Rises(f, m) == \A i, j \in 1..m : i < j => f[i] < f[j]

\* A rising function has as many values as arguments.
LEMMA RisingCount ==
    ASSUME NEW m \in Nat, NEW f \in [1..m -> Int], Rises(f, m)
    PROVE  Cardinality({f[i] : i \in 1..m}) = m
<1> DEFINE S == {f[i] : i \in 1..m}
<1>1. f \in Surjection(1..m, S)
  BY DEF Surjection
<1>2. f \in Injection(1..m, S)
  <2>1. f \in [1..m -> S]
    OBVIOUS
  <2>2. \A i, j \in 1..m : f[i] = f[j] => i = j
    <3> SUFFICES ASSUME NEW i \in 1..m, NEW j \in 1..m, i # j PROVE f[i] # f[j]
      OBVIOUS
    <3>1. i < j \/ j < i
      OBVIOUS
    <3> QED BY <3>1 DEF Rises
  <2> QED BY <2>1, <2>2 DEF Injection, IsInjective
<1>3. IsFiniteSet(1..m) /\ Cardinality(1..m) = m
  BY FS_Interval
<1> HIDE DEF S
<1>4. Cardinality(S) = Cardinality(1..m)
  BY <1>1, <1>2, <1>3, FS_Surjection
<1> QED BY <1>3, <1>4 DEF S

\* f lists the m members of S, the least first.
Lists(f, m, S) == f \in [1..m -> Int] /\ Rises(f, m) /\ S = {f[i] : i \in 1..m}

\* The k-th of its values is the one with k values up to it.
LEMMA RisingRank ==
    ASSUME NEW m \in Nat, NEW f, NEW S, Lists(f, m, S), NEW k \in 1..m
    PROVE  Nth(S, k) = f[k]
<1> USE DEF Lists
<1> DEFINE rank(x) == Cardinality({y \in S : y <= x})
<1>1. ASSUME NEW q \in 1..m PROVE rank(f[q]) = q
  <2> DEFINE g == [i \in 1..q |-> f[i]]
  <2>1. q \in Nat /\ g \in [1..q -> Int] /\ Rises(g, q) /\ \A i \in 1..q : g[i] = f[i]
    BY DEF Rises
  <2> HIDE DEF g
  <2>2. Cardinality({g[i] : i \in 1..q}) = q
    BY <2>1, RisingCount
  <2>3. {y \in S : y <= f[q]} = {g[i] : i \in 1..q}
    <3>1. \A i \in 1..m : f[i] <= f[q] <=> i <= q
      <4> TAKE i \in 1..m
      <4>1. f[i] \in Int /\ f[q] \in Int
        OBVIOUS
      <4>2. CASE i < q
        BY <4>1, <4>2 DEF Rises
      <4>3. CASE i = q
        BY <4>1, <4>3
      <4>4. CASE q < i
        BY <4>1, <4>4 DEF Rises
      <4> QED BY <4>2, <4>3, <4>4
    <3>2. \A y \in S : y <= f[q] => \E i \in 1..q : y = g[i]
      BY <2>1, <3>1
    <3>3. \A i \in 1..q : g[i] \in S /\ g[i] <= f[q]
      BY <2>1, <3>1
    <3> QED BY <3>2, <3>3
  <2> QED BY <2>2, <2>3
<1> HIDE DEF rank
<1>2. f[k] \in S /\ rank(f[k]) = k
  BY <1>1
<1>3. \A x \in S : rank(x) = k => x = f[k]
  BY <1>1
<1>4. (CHOOSE x \in S : rank(x) = k) = f[k]
  BY <1>2, <1>3
<1> QED BY <1>4 DEF rank, Nth

\* How many pictures lie whole between c and e, when k end before c.
Complete(k, e) == ((e + 1) \div 8) - k

\* The pictures that lie whole in a run of the stream are the next ones, as many
\* as end before the run does.
LEMMA WholeInStream ==
    ASSUME NEW s \in Seq(Pictures), NEW b \in Seq(Byte), NEW c \in Nat, NEW k \in Nat,
           Between(c, k), Lies(b, s, c)
    PROVE  /\ Len(Whole(b)) = Complete(k, c + Len(b)) /\ k + Len(Whole(b)) <= Len(s)
           /\ Whole(b) \in Seq(Pictures)
           /\ \A q \in 1..Len(Whole(b)) : Whole(b)[q] = s[k + q]
<1> DEFINE e == c + Len(b)
           m == Complete(k, e)
           f == [q \in 1..m |-> 8 * (k + q) - 5 - c]
           starts == {i \in 1..(Len(b) - 4) : SubSeq(b, i, i + 4) = Jpeg(b[i + 2])}
<1>1. /\ Len(b) \in Nat /\ Len(s) \in Nat /\ e \in Nat /\ e <= 8 * Len(s)
      /\ 8 * k - 1 <= e
  BY DEF Lies, Between
<1>2. /\ m \in Nat /\ k + m <= Len(s)
      /\ \A q \in Nat : q <= m <=> 8 * (k + q) <= e + 1
  <2>1. PICK r \in 0..7, d \in Nat : e + 1 = 8 * d + r /\ (e + 1) \div 8 = d
    <3>1. \A n \in Nat : n \div 8 \in Nat /\ n % 8 \in 0..7 /\ n = 8 * (n \div 8) + (n % 8)
      OBVIOUS
    <3>2. e + 1 \in Nat
      BY <1>1
    <3> HIDE DEF e
    <3> QED BY <3>1, <3>2
  <2>2. m = d - k
    BY <2>1 DEF Complete
  <2> HIDE DEF m, e
  <2> QED BY <1>1, <2>1, <2>2
<1> HIDE DEF m
<1>3. f \in [1..m -> Int] /\ Rises(f, m)
  BY <1>2 DEF Rises
<1>4. ASSUME NEW i \in 1..(Len(b) - 4), i \in starts PROVE \E q \in 1..m : i = f[q]
  <2>1. i + 1 \in 1..Len(b) /\ i \in 1..Len(b) /\ i + 4 <= Len(b)
    BY <1>1
  <2>2. b[i] = FF /\ b[i + 1] = D8
    <3> DEFINE w == SubSeq(b, i, i + 4)
    <3>1. \A j \in i..(i + 4) : b[j] \in Byte
      BY <1>1, <2>1
    <3>2. Len(w) = 5 /\ w[1] = b[i] /\ w[2] = b[i + 1]
      BY <2>1, <3>1
    <3> HIDE DEF w
    <3>3. w = <<FF, D8, b[i + 2], FF, D9>>
      BY <1>4 DEF w, Jpeg
    <3> QED BY <3>2, <3>3
  <2>3. i \in Markers(b, D8, 1)
    BY <1>1, <2>1, <2>2 DEF Markers
  <2>4. (c + i) % 8 = 3
    <3>1. Markers(b, D8, 1) = {p \in 1..(Len(b) - 1) : (c + p) % 8 = 3}
      BY MarkersInStream
    <3> QED BY <2>3, <3>1
  <2>5. i \in Nat \ {0}
    OBVIOUS
  <2>6. 8 * k + 3 <= c + i
    BY <2>4, <2>5, NextMarkers
  <2>7. PICK d \in Nat : c + i = 8 * d + 3
    <3>1. \A n \in Nat : n \div 8 \in Nat /\ n = 8 * (n \div 8) + (n % 8)
      OBVIOUS
    <3>2. c + i \in Nat
      BY <2>5
    <3> QED BY <2>4, <3>1, <3>2
  <2> DEFINE q == d - k + 1
  <2>8. q \in Nat \ {0} /\ 8 * (k + q) - 5 - c = i /\ 8 * (k + q) <= e + 1
    BY <1>1, <2>1, <2>5, <2>6, <2>7
  <2> HIDE DEF q, e
  <2>9. q \in 1..m
    BY <1>2, <2>8
  <2> QED BY <2>8, <2>9
<1>5. ASSUME NEW q \in 1..m PROVE f[q] \in starts /\ b[f[q] + 2] = s[k + q]
  <2> DEFINE x == 8 * (k + q) - 5 - c
             n == k + q - 1
  <2>1. /\ n \in Nat /\ n < Len(s) /\ n + 1 = k + q /\ c + x = 8 * n + 3
        /\ x \in Nat \ {0} /\ x + 4 <= Len(b)
    <3>1. q \in Nat /\ q >= 1 /\ q <= m /\ 8 * (k + q) <= e + 1
      BY <1>2
    <3> QED BY <1>1, <1>2, <3>1 DEF Between
  <2>2. f[q] = x
    OBVIOUS
  <2> HIDE DEF x, n, f
  <2>3. SubSeq(b, x, x + 4) = Jpeg(s[n + 1]) /\ b[x + 2] = s[n + 1]
    <3>1. n \in Nat /\ n < Len(s) /\ x \in Nat \ {0} /\ x + 4 <= Len(b) /\ c + x = 8 * n + 3
      BY <2>1
    <3>2. \A i, y \in Nat : /\ i < Len(s) /\ y # 0 /\ y + 4 <= Len(b) /\ c + y = 8 * i + 3
                            => SubSeq(b, y, y + 4) = Jpeg(s[i + 1]) /\ b[y + 2] = s[i + 1]
      BY PictureInStream
    <3> HIDE DEF starts
    <3> QED BY <3>1, <3>2
  <2>4. x \in 1..(Len(b) - 4)
    BY <1>1, <2>1
  <2>5. x \in starts
    BY <2>3, <2>4
  <2> QED BY <2>1, <2>2, <2>3, <2>5
<1> HIDE DEF f
<1>6. starts = {f[q] : q \in 1..m}
  BY <1>4, <1>5
<1>7. Cardinality(starts) = m
  BY <1>2, <1>3, <1>6, RisingCount
<1>8. \A q \in 1..m : Nth(starts, q) = f[q]
  <2> DEFINE S == starts
  <2>1. m \in Nat /\ f \in [1..m -> Int] /\ Rises(f, m) /\ S = {f[i] : i \in 1..m}
    BY <1>2, <1>3, <1>6
  <2> HIDE DEF S
  <2>2. Lists(f, m, S)
    BY <2>1 DEF Lists
  <2>3. \A q \in 1..m : Nth(S, q) = f[q]
    BY <2>1, <2>2, RisingRank
  <2> QED BY <2>3 DEF S
<1> HIDE DEF starts
<1>9. Whole(b) = [q \in 1..m |-> b[Nth(starts, q) + 2]]
  BY <1>7 DEF Whole, starts
<1>10. \A q \in 1..m : Whole(b)[q] = s[k + q] /\ s[k + q] \in Pictures
  <2> TAKE q \in 1..m
  <2>1. k + q \in 1..Len(s)
    BY <1>1, <1>2
  <2> QED BY <1>5, <1>8, <1>9, <2>1
<1>11. Whole(b) \in Seq(Pictures) /\ Len(Whole(b)) = m
  <2> DEFINE g(q) == b[Nth(starts, q) + 2]
  <2>1. \A q \in 1..m : g(q) \in Pictures
    BY <1>9, <1>10
  <2> HIDE DEF g
  <2>2. [q \in 1..m |-> g(q)] \in Seq(Pictures) /\ Len([q \in 1..m |-> g(q)]) = m
    BY <1>2, <2>1
  <2> QED BY <1>9, <2>2 DEF g
<1> QED BY <1>2, <1>10, <1>11 DEF m

\* However the bytes are cut into chunks, and wherever the connection breaks.
THEOREM FramesAreKept == Spec => []NoFrameLost
<1>1. IInv => NoFrameLost
  <2> SUFFICES ASSUME IInv PROVE NoFrameLost
    OBVIOUS
  <2> DEFINE b == buffer \o wire
             k == Len(yielded)
  <2>1. /\ sent \in Seq(Pictures) /\ wire \in Seq(Byte) /\ buffer \in Seq(Byte)
        /\ Len(sent) \in Nat /\ Len(buffer) \in Nat /\ Len(wire) \in Nat
        /\ yielded \in Seq(0..MaxFrames) /\ k \in Nat
    BY DEF IInv, TypeOK
  <2>2. PICK c \in 0..(8 * Len(sent)) :
            /\ Between(c, Len(yielded)) /\ Lies(buffer, sent, c)
            /\ Lies(wire, sent, c + Len(buffer))
            /\ server # "broken" => c + Len(buffer) + Len(wire) = 8 * Len(sent)
    BY DEF IInv, InStream
  <2>3. c \in Nat
    BY <2>1, <2>2
  <2>4. b \in Seq(Byte) /\ Len(b) = Len(buffer) + Len(wire) /\ Lies(b, sent, c)
    BY <2>1, <2>2, <2>3, ConcatLies
  <2> HIDE DEF b
  <2> DEFINE w == Whole(b)
             m == Len(w)
             all == yielded \o w
  <2>5. /\ w \in Seq(Pictures) /\ m = Complete(k, c + Len(b)) /\ k + m <= Len(sent)
        /\ \A q \in 1..m : w[q] = sent[k + q]
    <3>1. Between(c, k)
      BY <2>2
    <3> HIDE DEF k
    <3> QED BY <2>1, <2>3, <2>4, <3>1, WholeInStream
  <2> HIDE DEF w
  <2>6. server # "broken" => k + m = Len(sent)
    <3>1. server # "broken" => c + Len(b) = 8 * Len(sent)
      BY <2>1, <2>2, <2>3, <2>4
    <3>2. \A n \in Nat : (8 * n + 1) \div 8 = n
      OBVIOUS
    <3>3. server # "broken" => m = Len(sent) - k
      <4>1. server # "broken" => c + Len(b) + 1 = 8 * Len(sent) + 1
        BY <3>1
      <4> QED BY <2>1, <2>5, <3>2, <4>1 DEF Complete
    <3> QED BY <2>1, <3>3
  <2>8. /\ all \in Seq(0..MaxFrames) /\ Len(all) = k + m
        /\ \A i \in 1..(k + m) : all[i] = IF i <= k THEN yielded[i] ELSE w[i - k]
    <3>1. w \in Seq(0..MaxFrames)
      BY <2>5, FeedAssumption DEF Pictures
    <3> QED BY <2>1, <3>1, ConcatProperties
  <2>7. m \in Nat
    BY <2>5
  <2> HIDE DEF all, m
  <2>9. \A i \in 1..(k + m) : all[i] = sent[i]
    <3> TAKE i \in 1..(k + m)
    <3>1. CASE i <= k
      BY <2>1, <2>8, <3>1 DEF IInv, YieldedInv
    <3>2. CASE k < i
      <4>1. i - k \in 1..m /\ k + (i - k) = i
        BY <2>1, <2>7, <3>2
      <4> QED BY <2>5, <2>8, <3>2, <4>1
    <3> QED BY <2>1, <2>7, <3>1, <3>2
  <2>10. IsPrefix(all, sent)
    <3>1. Len(all) <= Len(sent) /\ Len(all) \in Nat
      BY <2>1, <2>5, <2>7, <2>8
    <3>2. SubSeq(all, 1, Len(all)) = SubSeq(sent, 1, Len(all))
      BY <2>1, <2>8, <2>9, <3>1
    <3> QED BY <3>1, <3>2 DEF IsPrefix
  <2>11. server # "broken" => all = sent
    BY <2>1, <2>6, <2>8, <2>9
  <2> QED BY <2>10, <2>11 DEF NoFrameLost, all, w, b
<1> QED BY <1>1, Invariance, PTL
=============================================================================
