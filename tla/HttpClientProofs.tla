---------------------------- MODULE HttpClientProofs ----------------------------
(***************************************************************************)
(* The client's answer to a response is that of the bytes that have come,  *)
(* whatever the pieces: the chunked body is laid out chunk by chunk, each  *)
(* round of the decoder reads one of them, and what it has not got whole   *)
(* it waits for.  Four parts: the search for a needle and one round of the *)
(* decoder; all its rounds, by induction; what a beginning of the stream   *)
(* decodes to; and the invariant with its consequences.                    *)
(***************************************************************************)
EXTENDS HttpClient, SequenceFacts

(* Sequences of one and of two.                                             *)
LEMMA OneAndTwo ==
    ASSUME NEW S, NEW a \in S, NEW b \in S
    PROVE  /\ <<a>> \in Seq(S) /\ Len(<<a>>) = 1 /\ <<a>>[1] = a
           /\ <<a, b>> \in Seq(S) /\ Len(<<a, b>>) = 2 /\ <<a, b>>[1] = a /\ <<a, b>>[2] = b
  OBVIOUS

(* What the ends of lines are made of.                                      *)
LEMMA ByteFacts ==
    /\ "cr" \in Byte /\ "lf" \in Byte /\ "semi" \in Byte /\ "0" \in Byte /\ "start" \in Byte
    /\ CrLf \in Seq(Byte) /\ Length(CrLf) = 2 /\ CrLf[1] = "cr" /\ CrLf[2] = "lf"
    /\ BlankLine \in Seq(Byte) /\ Length(BlankLine) = 4
    /\ BlankLine[1] = "cr" /\ BlankLine[2] = "lf" /\ BlankLine[3] = "cr" /\ BlankLine[4] = "lf"
<1>1. "cr" \in Byte /\ "lf" \in Byte /\ "semi" \in Byte /\ "0" \in Byte /\ "start" \in Byte
  BY DEF Byte, Digit
<1>2. CrLf \in Seq(Byte) /\ Length(CrLf) = 2 /\ CrLf[1] = "cr" /\ CrLf[2] = "lf"
  BY <1>1, OneAndTwo DEF CrLf, Length
<1>3. /\ BlankLine \in Seq(Byte) /\ Length(BlankLine) = 2 + 2
      /\ \A i \in 1..2 : BlankLine[i] = CrLf[i]
      /\ \A i \in 1..2 : BlankLine[2 + i] = CrLf[i]
  <2>1. Joined(BlankLine, CrLf, CrLf)
    BY DEF Joined, BlankLine
  <2> QED
    BY <1>2, <2>1, JoinedFacts
<1>4. 2 + 1 = 3 /\ 2 + 2 = 4 /\ 1 \in 1..2 /\ 2 \in 1..2
  OBVIOUS
<1>5. BlankLine[1] = "cr" /\ BlankLine[2] = "lf" /\ BlankLine[3] = "cr" /\ BlankLine[4] = "lf"
  BY <1>2, <1>3, <1>4
<1> QED
  BY <1>1, <1>2, <1>3, <1>5

(* The least of a set of numbers.                                           *)
LEMMA MinIsLeast ==
    ASSUME NEW S \in SUBSET Nat, S # {}
    PROVE  Min(S) \in S /\ \A k \in S : Min(S) <= k
<1>1. \E m \in S : \A k \in S : m <= k
  BY LeastNat
<1> QED
  BY <1>1 DEF Min

(* A piece of a sequence that is all that stands there.                     *)
LEMMA SubSeqIs ==
    ASSUME NEW S, NEW s \in Seq(S), NEW t \in Seq(S), NEW m \in Nat, m + Length(t) <= Length(s),
           \A i \in 1..Length(t) : s[m + i] = t[i]
    PROVE  SubSeq(s, m + 1, m + Length(t)) = t
<1>1. Length(t) \in Nat
  BY LengthFacts
<1>2. /\ SubSeq(s, m + 1, m + Length(t)) \in Seq(S)
      /\ Length(SubSeq(s, m + 1, m + Length(t))) = Length(t)
      /\ \A i \in 1..Length(t) : SubSeq(s, m + 1, m + Length(t))[i] = s[m + i]
  BY <1>1, SubSeqFacts
<1> QED
  BY <1>2, EqualFacts

(* The search for a needle, by the places where it is.                      *)
LEMMA FindSubsliceFinds ==
    ASSUME NEW bytes \in Seq(Byte), NEW needle \in Seq(Byte), NEW from \in Nat \ {0},
           NEW places, places \subseteq Nat,
           \A i \in from..(Length(bytes) + 1 - Length(needle)) :
              i \in places <=> \A k \in 1..Length(needle) : bytes[i - 1 + k] = needle[k],
           \A i \in places : i \in from..(Length(bytes) + 1 - Length(needle)),
           NEW n, n = FindSubslice(bytes, needle, from)
    PROVE  \/ n = 0 /\ places = {}
           \/ n \in places /\ \A i \in places : n <= i
<1>1. Length(bytes) \in Nat /\ Length(needle) \in Nat
  BY LengthFacts
<1>2. ASSUME NEW i \in from..(Length(bytes) + 1 - Length(needle))
      PROVE  i \in places <=> SubSeq(bytes, i, i + Length(needle) - 1) = needle
  <2>1. i - 1 \in Nat /\ (i - 1) + Length(needle) <= Length(bytes)
        /\ (i - 1) + 1 = i /\ (i - 1) + Length(needle) = i + Length(needle) - 1
    BY <1>1
  <2>2. \A k \in 1..Length(needle) :
           SubSeq(bytes, (i - 1) + 1, (i - 1) + Length(needle))[k] = bytes[(i - 1) + k]
    BY <1>1, <2>1, SubSeqFacts
  <2>3. ASSUME \A k \in 1..Length(needle) : bytes[i - 1 + k] = needle[k]
        PROVE  SubSeq(bytes, (i - 1) + 1, (i - 1) + Length(needle)) = needle
    BY <2>1, <2>3, SubSeqIs
  <2> QED
    BY <2>1, <2>2, <2>3
<1> DEFINE found == {i \in from..(Length(bytes) - Length(needle) + 1) :
                       SubSeq(bytes, i, i + Length(needle) - 1) = needle}
<1>3. found = places
  <2>1. Length(bytes) - Length(needle) + 1 = Length(bytes) + 1 - Length(needle)
    BY <1>1
  <2> QED
    BY <1>2, <2>1
<1>4. n = IF found = {} THEN 0 ELSE Min(found)
  BY Zenon DEF FindSubslice, Length
<1> HIDE DEF found
<1>5. n = IF places = {} THEN 0 ELSE Min(places)
  BY <1>3, <1>4
<1>6. CASE places = {}
  BY <1>5, <1>6
<1>7. CASE places # {}
  <2>1. Min(places) \in places /\ \A k \in places : Min(places) <= k
    BY <1>7, MinIsLeast
  <2> QED
    BY <1>5, <1>7, <2>1
<1> QED
  BY <1>6, <1>7

(* The search for the end of a line.                                        *)
LEMMA FindCrLf ==
    ASSUME NEW bytes \in Seq(Byte), NEW from \in Nat \ {0}, NEW n, n = FindSubslice(bytes, CrLf, from)
    PROVE  \/ /\ n = 0
              /\ \A i \in from..(Length(bytes) - 1) : ~(bytes[i] = "cr" /\ bytes[i + 1] = "lf")
           \/ /\ n \in from..(Length(bytes) - 1) /\ bytes[n] = "cr" /\ bytes[n + 1] = "lf"
              /\ \A i \in from..(n - 1) : ~(bytes[i] = "cr" /\ bytes[i + 1] = "lf")
<1> DEFINE places == {i \in from..(Length(bytes) - 1) : bytes[i] = "cr" /\ bytes[i + 1] = "lf"}
<1>1. Length(bytes) \in Nat /\ CrLf \in Seq(Byte) /\ Length(CrLf) = 2 /\ CrLf[1] = "cr" /\ CrLf[2] = "lf"
  BY LengthFacts, ByteFacts
<1>2. Length(bytes) + 1 - Length(CrLf) = Length(bytes) - 1
  BY <1>1
<1>3. \A i \in from..(Length(bytes) - 1) :
         i \in places <=> \A k \in 1..Length(CrLf) : bytes[i - 1 + k] = CrLf[k]
  <2>1. ASSUME NEW i \in from..(Length(bytes) - 1)
        PROVE  (\A k \in 1..2 : bytes[i - 1 + k] = CrLf[k]) <=> bytes[i] = "cr" /\ bytes[i + 1] = "lf"
    <3>1. i - 1 + 1 = i /\ i - 1 + 2 = i + 1 /\ \A k \in 1..2 : k = 1 \/ k = 2
      OBVIOUS
    <3> QED
      BY <1>1, <3>1
  <2> QED
    BY <1>1, <2>1
<1>4. places \subseteq Nat /\ \A i \in places : i \in from..(Length(bytes) - 1)
  BY <1>1
<1> HIDE DEF places
<1>5. \/ n = 0 /\ places = {}
      \/ n \in places /\ \A i \in places : n <= i
  <2>1. \A i \in from..(Length(bytes) + 1 - Length(CrLf)) :
           i \in places <=> \A k \in 1..Length(CrLf) : bytes[i - 1 + k] = CrLf[k]
    BY <1>2, <1>3
  <2>2. \A i \in places : i \in from..(Length(bytes) + 1 - Length(CrLf))
    BY <1>2, <1>4
  <2>3. CrLf \in Seq(Byte) /\ places \subseteq Nat
    BY <1>1, <1>4
  <2> QED
    BY <2>1, <2>2, <2>3, FindSubsliceFinds
<1>6. CASE n = 0 /\ places = {}
  <2>1. \A i \in from..(Length(bytes) - 1) : ~(bytes[i] = "cr" /\ bytes[i + 1] = "lf")
    BY <1>6 DEF places
  <2> QED
    BY <1>6, <2>1
<1>7. CASE n \in places /\ \A i \in places : n <= i
  <2>1. n \in from..(Length(bytes) - 1) /\ bytes[n] = "cr" /\ bytes[n + 1] = "lf"
    BY <1>7 DEF places
  <2>2. ASSUME NEW i \in from..(n - 1), bytes[i] = "cr" /\ bytes[i + 1] = "lf"
        PROVE  FALSE
    <3>0. n \in Int /\ i \in Int /\ n <= Length(bytes) - 1 /\ from <= i /\ i <= n - 1
      BY <1>1, <2>1
    <3>1. i \in from..(Length(bytes) - 1) /\ ~(n <= i)
      BY <1>1, <3>0
    <3>2. i \in places
      BY <2>2, <3>1 DEF places
    <3> QED
      BY <1>7, <3>1, <3>2
  <2> QED
    BY <2>1, <2>2
<1> QED
  BY <1>5, <1>6, <1>7

(* What stands where in a chunk.                                            *)
LEMMA FramedAt ==
    ASSUME NEW c \in Chunk, NEW line, Joined(line, c.size, c.extension)
    PROVE  /\ line \in Seq(Byte) /\ Length(line) \in Nat
           /\ c.data \in Seq(Byte) /\ Length(c.data) \in Nat
           /\ Framed(c) \in Seq(Byte)
           /\ Length(Framed(c)) = Length(line) + 2 + Length(c.data) + 2
           /\ \A i \in 1..Length(line) : Framed(c)[i] = line[i]
           /\ Framed(c)[Length(line) + 1] = "cr" /\ Framed(c)[Length(line) + 2] = "lf"
           /\ \A i \in 1..Length(c.data) : Framed(c)[Length(line) + 2 + i] = c.data[i]
<1>1. c.size \in Seq(Byte) /\ c.extension \in Seq(Byte) /\ c.data \in Seq(Byte)
  BY DEF Chunk, Bytes
<1>2. line \in Seq(Byte)
  BY <1>1, JoinedFacts
<1>3. Length(line) \in Nat /\ Length(c.data) \in Nat
  BY <1>1, <1>2, LengthFacts
<1>4. CrLf \in Seq(Byte) /\ Length(CrLf) = 2 /\ CrLf[1] = "cr" /\ CrLf[2] = "lf"
  BY ByteFacts
<1> DEFINE a == line \o CrLf
           b == a \o c.data
           f == b \o CrLf
<1>5. Framed(c) = f
  BY Zenon DEF Framed, Joined
<1>6. Joined(a, line, CrLf) /\ Joined(b, a, c.data) /\ Joined(f, b, CrLf)
  BY DEF Joined
<1> HIDE DEF a, b, f
<1>7. /\ a \in Seq(Byte) /\ Length(a) = Length(line) + 2
      /\ \A i \in 1..Length(line) : a[i] = line[i]
      /\ a[Length(line) + 1] = CrLf[1] /\ a[Length(line) + 2] = CrLf[2]
  <2>1. /\ a \in Seq(Byte) /\ Length(a) = Length(line) + Length(CrLf)
        /\ \A i \in 1..Length(line) : a[i] = line[i]
        /\ \A i \in 1..Length(CrLf) : a[Length(line) + i] = CrLf[i]
    <3>1. line \in Seq(Byte) /\ CrLf \in Seq(Byte) /\ Joined(a, line, CrLf)
      BY <1>2, <1>4, <1>6
    <3> QED
      BY <3>1, JoinedFacts
  <2>2. 1 \in 1..Length(CrLf) /\ 2 \in 1..Length(CrLf)
    BY <1>4
  <2> QED
    BY <1>4, <2>1, <2>2
<1>8. /\ b \in Seq(Byte) /\ Length(b) = Length(line) + 2 + Length(c.data)
      /\ \A i \in 1..(Length(line) + 2) : b[i] = a[i]
      /\ \A i \in 1..Length(c.data) : b[Length(line) + 2 + i] = c.data[i]
  <2>1. /\ b \in Seq(Byte) /\ Length(b) = Length(a) + Length(c.data)
        /\ \A i \in 1..Length(a) : b[i] = a[i]
        /\ \A i \in 1..Length(c.data) : b[Length(a) + i] = c.data[i]
    <3>1. a \in Seq(Byte) /\ c.data \in Seq(Byte) /\ Joined(b, a, c.data)
      BY <1>1, <1>6, <1>7
    <3> QED
      BY <3>1, JoinedFacts
  <2> QED
    BY <1>7, <2>1, Zenon
<1>9. /\ f \in Seq(Byte) /\ Length(f) = Length(line) + 2 + Length(c.data) + 2
      /\ \A i \in 1..(Length(line) + 2 + Length(c.data)) : f[i] = b[i]
  <2>1. /\ f \in Seq(Byte) /\ Length(f) = Length(b) + Length(CrLf)
        /\ \A i \in 1..Length(b) : f[i] = b[i]
    <3>1. b \in Seq(Byte) /\ CrLf \in Seq(Byte) /\ Joined(f, b, CrLf)
      BY <1>4, <1>6, <1>8
    <3> QED
      BY <3>1, JoinedFacts
  <2> QED
    BY <1>4, <1>8, <2>1, Zenon
<1>10. \A i \in 1..Length(line) : f[i] = line[i]
  <2>1. \A i \in 1..Length(line) : i \in 1..(Length(line) + 2) /\ i \in 1..(Length(line) + 2 + Length(c.data))
    BY <1>3
  <2> QED
    BY <1>7, <1>8, <1>9, <2>1
<1>11. f[Length(line) + 1] = "cr" /\ f[Length(line) + 2] = "lf"
  <2>1. /\ Length(line) + 1 \in 1..(Length(line) + 2)
        /\ Length(line) + 2 \in 1..(Length(line) + 2)
        /\ \A i \in 1..(Length(line) + 2) : i \in 1..(Length(line) + 2 + Length(c.data))
    BY <1>3
  <2>2. \A i \in 1..(Length(line) + 2) : f[i] = a[i]
    BY <1>8, <1>9, <2>1
  <2> QED
    BY <1>4, <1>7, <2>1, <2>2
<1>12. \A i \in 1..Length(c.data) : f[Length(line) + 2 + i] = c.data[i]
  <2>1. \A i \in 1..Length(c.data) : Length(line) + 2 + i \in 1..(Length(line) + 2 + Length(c.data))
    BY <1>3
  <2> QED
    BY <1>8, <1>9, <2>1
<1> QED
  BY <1>1, <1>2, <1>3, <1>5, <1>9, <1>10, <1>11, <1>12

(* The search for a semicolon.                                              *)
LEMMA FindSemi ==
    ASSUME NEW line \in Seq(Byte), NEW from \in Nat \ {0},
           NEW n, n = FindSubslice(line, <<"semi">>, from)
    PROVE  \/ n = 0 /\ \A i \in from..Length(line) : line[i] # "semi"
           \/ /\ n \in from..Length(line) /\ line[n] = "semi"
              /\ \A i \in from..(n - 1) : line[i] # "semi"
<1> DEFINE places == {i \in from..Length(line) : line[i] = "semi"}
           needle == <<"semi">>
<1>1. Length(line) \in Nat /\ needle \in Seq(Byte) /\ Length(needle) = 1 /\ needle[1] = "semi"
  BY LengthFacts, ByteFacts, OneAndTwo DEF Length
<1>2. n = FindSubslice(line, needle, from)
  OBVIOUS
<1> HIDE DEF needle
<1>3. Length(line) + 1 - Length(needle) = Length(line)
  BY <1>1
<1>4. \A i \in from..Length(line) :
         i \in places <=> \A k \in 1..Length(needle) : line[i - 1 + k] = needle[k]
  <2>1. ASSUME NEW i \in from..Length(line)
        PROVE  (\A k \in 1..1 : line[i - 1 + k] = needle[k]) <=> line[i] = "semi"
    <3>1. i - 1 + 1 = i /\ \A k \in 1..1 : k = 1
      OBVIOUS
    <3> QED
      BY <1>1, <3>1
  <2> QED
    BY <1>1, <2>1
<1>5. places \subseteq Nat /\ \A i \in places : i \in from..Length(line)
  BY <1>1
<1> HIDE DEF places
<1>6. \/ n = 0 /\ places = {}
      \/ n \in places /\ \A i \in places : n <= i
  BY <1>1, <1>2, <1>3, <1>4, <1>5, FindSubsliceFinds
<1>7. CASE n = 0 /\ places = {}
  BY <1>7 DEF places
<1>8. CASE n \in places /\ \A i \in places : n <= i
  <2>1. n \in from..Length(line) /\ line[n] = "semi"
    BY <1>8 DEF places
  <2>2. ASSUME NEW i \in from..(n - 1), line[i] = "semi"
        PROVE  FALSE
    <3>1. i \in from..Length(line) /\ ~(n <= i)
      BY <1>1, <2>1
    <3>2. i \in places
      BY <2>2, <3>1 DEF places
    <3> QED
      BY <1>8, <3>1, <3>2
  <2> QED
    BY <2>1, <2>2
<1> QED
  BY <1>6, <1>7, <1>8

(* The size of a line is what stands before the extension.                  *)
LEMMA ChunkSizeOfLine ==
    ASSUME NEW c \in Chunk, IsFramed(c), NEW line, Joined(line, c.size, c.extension)
    PROVE  ChunkSize(line) = IF IsSize(c.size) THEN Length(c.data) ELSE Malformed
<1> DEFINE place == FindSubslice(line, <<"semi">>, 1)
           digits == IF place = 0 THEN line ELSE SubSeq(line, 1, place - 1)
           m == Length(c.size)
<1>1. c.size \in Seq(Byte) /\ c.extension \in Seq(Byte)
  BY DEF Chunk, Bytes
<1>2. m \in Nat /\ Length(c.extension) \in Nat
  BY <1>1, LengthFacts
<1>3. /\ line \in Seq(Byte) /\ Length(line) = m + Length(c.extension)
      /\ \A i \in 1..m : line[i] = c.size[i]
      /\ \A i \in 1..Length(c.extension) : line[m + i] = c.extension[i]
  BY <1>1, JoinedFacts
<1>4. \A i \in 1..m : c.size[i] # "semi"
  <2>1. \A i \in 1..m : c.size[i] \in ToSet(c.size)
    BY <1>1, LenProperties DEF ToSet, Length
  <2> QED
    BY <2>1 DEF IsFramed
<1>5. ChunkSize(line) = IF IsSize(digits) THEN SizeOf(digits) ELSE Malformed
  BY Zenon DEF ChunkSize
<1> HIDE DEF m
<1>6. \/ place = 0 /\ \A i \in 1..Length(line) : line[i] # "semi"
      \/ /\ place \in 1..Length(line) /\ line[place] = "semi"
         /\ \A i \in 1..(place - 1) : line[i] # "semi"
  <2>1. 1 \in Nat \ {0}
    OBVIOUS
  <2> QED
    BY <1>3, <2>1, FindSemi, Zenon
<1> HIDE DEF place
<1>7. digits = c.size
  <2>1. CASE c.extension = <<>>
    <3>1. line = c.size
      BY <1>1, <2>1, ConcatEmptySeq DEF Joined
    <3>2. place = 0
      BY <1>2, <1>3, <1>4, <1>6, <2>1, <3>1, EmptyFacts DEF m
    <3> QED
      BY <3>1, <3>2
  <2>2. CASE c.extension # <<>>
    <3>1. Length(c.extension) >= 1 /\ c.extension[1] = "semi"
      <4>1. Length(c.extension) # 0
        BY <1>1, <2>2, EmptyFacts
      <4> QED
        BY <1>2, <2>2, <4>1 DEF IsFramed
    <3>2. line[m + 1] = "semi" /\ m + 1 \in 1..Length(line)
      BY <1>2, <1>3, <3>1
    <3>3. \A k \in 1..m : line[k] # "semi"
      BY <1>3, <1>4
    <3>4. place = m + 1
      <4>1. place # 0
        BY <1>6, <3>2
      <4>2. place \in 1..Length(line) /\ ~(place <= m) /\ ~(m + 1 <= place - 1)
        BY <1>2, <1>6, <3>2, <3>3, <4>1
      <4> QED
        BY <1>2, <4>2
    <3>5. SubSeq(line, 1, m) = c.size
      <4>1. 0 \in Nat /\ 0 + Length(c.size) <= Length(line) /\ 0 + 1 = 1 /\ 0 + Length(c.size) = m
        BY <1>2, <1>3 DEF m
      <4>2. \A i \in 1..Length(c.size) : line[0 + i] = c.size[i]
        BY <1>2, <1>3 DEF m
      <4> QED
        BY <1>1, <1>3, <4>1, <4>2, SubSeqIs
    <3>6. place # 0 /\ place - 1 = m
      BY <1>2, <3>4
    <3> QED
      BY <3>5, <3>6
  <2> QED
    BY <2>1, <2>2
<1>8. IsSize(c.size) => SizeOf(c.size) = Length(c.data)
  BY Zenon DEF IsFramed, Length
<1> HIDE DEF digits
<1> QED
  BY <1>5, <1>7, <1>8

(* The size of the last chunk.                                              *)
LEMMA LastChunkSize == IsSize(<<"0">>) /\ SizeOf(<<"0">>) = 0
<1> DEFINE s == <<"0">>
           Solves(f) == f = [t \in SUBSET {1} |->
                               IF t = {} THEN 0 ELSE 16 * f[t \ {Max(t)}] + Digit[s[Max(t)]]]
           iter == CHOOSE f : Solves(f)
           zero == [t \in SUBSET {1} |-> 0]
<1>1. DOMAIN s = {1} /\ s[1] = "0"
  OBVIOUS
<1>2. "0" \in DOMAIN Digit /\ Digit["0"] = 0
  <2>1. "0" \in DOMAIN Digit
    BY DEF Digit
  <2>2. Digit["0"] = CASE "0" = "0" -> 0 [] "0" = "1" -> 1 [] "0" = "2" -> 2 [] "0" = "3" -> 3
    BY Zenon DEF Digit
  <2>3. "0" # "1" /\ "0" # "2" /\ "0" # "3"
    BY Zenon
  <2>4. (CASE "0" = "0" -> 0 [] "0" = "1" -> 1 [] "0" = "2" -> 2 [] "0" = "3" -> 3) = 0
    BY <2>3, Zenon
  <2> QED
    BY <2>1, <2>2, <2>4
<1>3. SizeOf(s) = MapThenFoldSet(LAMBDA x, y : 16 * y + Digit[x], 0, LAMBDA i : s[i],
                                 LAMBDA S : Max(S), DOMAIN s)
  BY Zenon DEF SizeOf, FoldLeft
<1>4. SizeOf(s) = iter[{1}]
  BY <1>1, <1>3, Zenon DEF MapThenFoldSet
<1>5. Max({1}) = 1
  BY DEF Max
<1>6. Solves(zero)
  <2>1. ASSUME NEW t \in SUBSET {1}, t # {}
        PROVE  16 * zero[t \ {Max(t)}] + Digit[s[Max(t)]] = 0
    <3>1. t = {1}
      BY <2>1
    <3> QED
      BY <3>1, <1>1, <1>2, <1>5
  <2> QED
    BY <2>1
<1>7. Solves(iter)
  BY <1>6
<1>8. iter[{1}] = 16 * iter[{}] + 0 /\ iter[{}] = 0
  <2>1. {1} \in SUBSET {1} /\ {} \in SUBSET {1} /\ {1} # {} /\ {1} \ {1} = {}
    OBVIOUS
  <2> HIDE DEF iter, s
  <2> QED
    BY <1>1, <1>2, <1>5, <1>7, <2>1
<1>9. IsSize(s)
  BY <1>1, <1>2, OneAndTwo DEF IsSize, ToSet
<1> QED
  BY <1>4, <1>8, <1>9

(* A round, by the end of the line and the size on it.                      *)
LEMMA DecodeChunkIs ==
    ASSUME NEW body, NEW pos, NEW data, NEW after, after = DecodeChunk(body, Decoding(pos, data)),
           NEW lineEnd, lineEnd = FindSubslice(body, CrLf, pos),
           NEW size, size = ChunkSize(SubSeq(body, pos, lineEnd - 1))
    PROVE  after =
              IF lineEnd = 0 \/ size = Malformed THEN Incomplete
              ELSE IF size = 0 THEN Complete(data)
              ELSE IF lineEnd + 2 + size + 2 > Length(body) + 1 THEN Incomplete
              ELSE Decoding(lineEnd + 2 + size + 2,
                            data \o SubSeq(body, lineEnd + 2, lineEnd + 1 + size))
<1> DEFINE d == Decoding(pos, data)
<1>1. d.state = "decoding" /\ d.pos = pos /\ d.data = data
  BY DEF Decoding
<1>2. after = DecodeChunk(body, d)
  OBVIOUS
<1> HIDE DEF d
<1> QED
  BY <1>1, <1>2, Zenon DEF DecodeChunk, Length

(* Where the line of a chunk ends, in a body that goes on with it at p.     *)
LEMMA LineEndIs ==
    ASSUME NEW body \in Seq(Byte), NEW p \in Nat, NEW line \in Seq(Byte),
           \A i \in 1..Length(line) : line[i] # "cr",
           \A i \in 1..Length(line) : p + i <= Length(body) => body[p + i] = line[i],
           p + Length(line) + 1 <= Length(body) => body[p + Length(line) + 1] = "cr",
           p + Length(line) + 2 <= Length(body) => body[p + Length(line) + 2] = "lf",
           NEW lineEnd, lineEnd = FindSubslice(body, CrLf, p + 1)
    PROVE  /\ p + Length(line) + 2 > Length(body) => lineEnd = 0
           /\ p + Length(line) + 2 <= Length(body) =>
                 /\ lineEnd = p + Length(line) + 1
                 /\ SubSeq(body, p + 1, lineEnd - 1) = line
<1> DEFINE m == Length(line)
<1>1. Length(body) \in Nat /\ m \in Nat /\ p + 1 \in Nat \ {0}
  BY LengthFacts
<1>2. \/ /\ lineEnd = 0
         /\ \A i \in (p + 1)..(Length(body) - 1) : ~(body[i] = "cr" /\ body[i + 1] = "lf")
      \/ /\ lineEnd \in (p + 1)..(Length(body) - 1)
         /\ body[lineEnd] = "cr" /\ body[lineEnd + 1] = "lf"
         /\ \A i \in (p + 1)..(lineEnd - 1) : ~(body[i] = "cr" /\ body[i + 1] = "lf")
  <2> DEFINE from == p + 1
  <2>1. from \in Nat \ {0} /\ lineEnd = FindSubslice(body, CrLf, from)
    BY <1>1
  <2> HIDE DEF from
  <2>2. \/ /\ lineEnd = 0
           /\ \A i \in from..(Length(body) - 1) : ~(body[i] = "cr" /\ body[i + 1] = "lf")
        \/ /\ lineEnd \in from..(Length(body) - 1)
           /\ body[lineEnd] = "cr" /\ body[lineEnd + 1] = "lf"
           /\ \A i \in from..(lineEnd - 1) : ~(body[i] = "cr" /\ body[i + 1] = "lf")
    BY <2>1, FindCrLf
  <2> QED
    BY <2>2 DEF from
<1>3. ASSUME NEW i \in (p + 1)..(p + m), i <= Length(body)
      PROVE  body[i] # "cr"
  <2>1. i - p \in 1..m /\ p + (i - p) = i
    BY <1>1
  <2> QED
    BY <1>3, <2>1
<1>4. ASSUME p + m + 2 > Length(body)
      PROVE  lineEnd = 0
  <2>1. SUFFICES ASSUME lineEnd # 0 PROVE FALSE
    OBVIOUS
  <2>2. lineEnd \in (p + 1)..(Length(body) - 1) /\ body[lineEnd] = "cr"
    BY <1>2, <2>1
  <2>3. lineEnd \in (p + 1)..(p + m) /\ lineEnd <= Length(body)
    BY <1>1, <1>4, <2>2
  <2> QED
    BY <1>3, <2>2, <2>3
<1>5. ASSUME p + m + 2 <= Length(body)
      PROVE  lineEnd = p + m + 1 /\ SubSeq(body, p + 1, lineEnd - 1) = line
  <2>1. body[p + m + 1] = "cr" /\ body[p + m + 2] = "lf"
    BY <1>1, <1>5
  <2>2. p + m + 1 \in (p + 1)..(Length(body) - 1) /\ (p + m + 1) + 1 = p + m + 2
    BY <1>1, <1>5
  <2>3. /\ lineEnd \in (p + 1)..(Length(body) - 1)
        /\ body[lineEnd] = "cr"
        /\ \A i \in (p + 1)..(lineEnd - 1) : ~(body[i] = "cr" /\ body[i + 1] = "lf")
    BY <1>2, <2>1, <2>2
  <2>4. ~(p + m + 1 <= lineEnd - 1)
    <3>1. p + m + 1 \notin (p + 1)..(lineEnd - 1)
      BY <2>1, <2>2, <2>3
    <3> QED
      BY <1>1, <2>3, <3>1
  <2>5. ~(lineEnd <= p + m)
    BY <1>1, <1>3, <1>5, <2>3
  <2>6. lineEnd = p + m + 1
    BY <1>1, <2>3, <2>4, <2>5
  <2>7. SubSeq(body, p + 1, p + m) = line
    <3>1. p + m <= Length(body) /\ \A i \in 1..m : p + i <= Length(body)
      BY <1>1, <1>5
    <3> QED
      BY <1>1, <3>1, SubSeqIs
  <2>8. lineEnd - 1 = p + m
    BY <1>1, <2>6
  <2> QED
    BY <2>6, <2>7, <2>8
<1> QED
  BY <1>4, <1>5

(* The round that reads a chunk, in a body that goes on with it at p as far *)
(* as the body goes.                                                        *)
LEMMA DecodeOne ==
    ASSUME NEW body \in Seq(Byte), NEW p \in Nat, NEW c \in Chunk, IsFramed(c), NEW data,
           \A i \in 1..Length(Framed(c)) : p + i <= Length(body) => body[p + i] = Framed(c)[i],
           NEW after, after = DecodeChunk(body, Decoding(p + 1, data))
    PROVE  \/ /\ after = Incomplete
              /\ ~IsSize(c.size) \/ p + Length(Framed(c)) > Length(body)
           \/ /\ after = Decoding(p + Length(Framed(c)) + 1, data \o c.data)
              /\ IsSize(c.size) /\ p + Length(Framed(c)) <= Length(body)
<1> DEFINE line == c.size \o c.extension
           m == Length(line)
           k == Length(c.data)
           lineEnd == FindSubslice(body, CrLf, p + 1)
           size == IF IsSize(c.size) THEN k ELSE Malformed
<1>1. Joined(line, c.size, c.extension)
  BY DEF Joined
<1>2. \A i \in 1..m : line[i] # "cr"
  <2>1. line \in Seq(Byte)
    BY <1>1, FramedAt
  <2>2. \A i \in 1..m : line[i] \in ToSet(line)
    BY <2>1, LenProperties DEF ToSet, Length
  <2> QED
    BY <2>2 DEF IsFramed
<1> HIDE DEF line
<1>3. /\ line \in Seq(Byte) /\ m \in Nat /\ c.data \in Seq(Byte) /\ k \in Nat
      /\ Length(Framed(c)) = m + 2 + k + 2
      /\ \A i \in 1..m : Framed(c)[i] = line[i]
      /\ Framed(c)[m + 1] = "cr" /\ Framed(c)[m + 2] = "lf"
      /\ \A i \in 1..k : Framed(c)[m + 2 + i] = c.data[i]
  BY <1>1, FramedAt
<1> HIDE DEF m, k
<1>4. Length(body) \in Nat
  BY LengthFacts
<1>5. IsSize(c.size) => k # 0
  BY <1>3, EmptyFacts DEF IsFramed, k
<1>6. /\ \A i \in 1..m : p + i <= Length(body) => body[p + i] = line[i]
      /\ p + m + 1 <= Length(body) => body[p + m + 1] = "cr"
      /\ p + m + 2 <= Length(body) => body[p + m + 2] = "lf"
  <2>1. \A i \in 1..m : i \in 1..Length(Framed(c))
    BY <1>3
  <2>2. m + 1 \in 1..Length(Framed(c)) /\ m + 2 \in 1..Length(Framed(c))
        /\ p + (m + 1) = p + m + 1 /\ p + (m + 2) = p + m + 2
    BY <1>3
  <2> QED
    BY <1>3, <2>1, <2>2
<1>7. /\ p + m + 2 > Length(body) => lineEnd = 0
      /\ p + m + 2 <= Length(body) =>
            lineEnd = p + m + 1 /\ SubSeq(body, p + 1, lineEnd - 1) = line
  <2>1. lineEnd = FindSubslice(body, CrLf, p + 1)
    OBVIOUS
  <2> HIDE DEF lineEnd
  <2>2. line \in Seq(Byte)
    BY <1>3
  <2>3. /\ \A i \in 1..Length(line) : line[i] # "cr"
        /\ \A i \in 1..Length(line) : p + i <= Length(body) => body[p + i] = line[i]
        /\ p + Length(line) + 1 <= Length(body) => body[p + Length(line) + 1] = "cr"
        /\ p + Length(line) + 2 <= Length(body) => body[p + Length(line) + 2] = "lf"
    BY <1>2, <1>6, Zenon DEF m
  <2>4. /\ p + Length(line) + 2 > Length(body) => lineEnd = 0
        /\ p + Length(line) + 2 <= Length(body) =>
              lineEnd = p + Length(line) + 1 /\ SubSeq(body, p + 1, lineEnd - 1) = line
    BY <2>1, <2>2, <2>3, LineEndIs
  <2> QED
    BY <2>4, Zenon DEF m
<1> DEFINE found == ChunkSize(SubSeq(body, p + 1, lineEnd - 1))
<1>8. after =
         IF lineEnd = 0 \/ found = Malformed THEN Incomplete
         ELSE IF found = 0 THEN Complete(data)
         ELSE IF lineEnd + 2 + found + 2 > Length(body) + 1 THEN Incomplete
         ELSE Decoding(lineEnd + 2 + found + 2,
                       data \o SubSeq(body, lineEnd + 2, lineEnd + 1 + found))
  <2> DEFINE pos == p + 1
  <2>1. /\ lineEnd = FindSubslice(body, CrLf, pos) /\ after = DecodeChunk(body, Decoding(pos, data))
        /\ found = ChunkSize(SubSeq(body, pos, lineEnd - 1))
    OBVIOUS
  <2> HIDE DEF lineEnd, pos, found
  <2> QED
    BY <2>1, DecodeChunkIs
<1> HIDE DEF lineEnd
<1>9. p + m + 2 <= Length(body) => found = size
  <2>1. p + m + 2 <= Length(body) => found = ChunkSize(line)
    BY <1>7
  <2>2. ChunkSize(line) = size
    BY <1>1, ChunkSizeOfLine DEF k
  <2> HIDE DEF found, size
  <2> QED
    BY <2>1, <2>2
<1> HIDE DEF found
<1>10. CASE p + m + 2 > Length(body)
  <2>1. after = Incomplete
    BY <1>7, <1>8, <1>10
  <2> QED
    BY <1>3, <1>4, <1>10, <2>1
<1>11. CASE p + m + 2 <= Length(body) /\ ~IsSize(c.size)
  <2>1. found = Malformed
    BY <1>9, <1>11
  <2>2. after = Incomplete
    BY <1>8, <2>1
  <2> QED
    BY <1>11, <2>2
<1>12. CASE p + m + 2 <= Length(body) /\ IsSize(c.size)
  <2>1. lineEnd = p + m + 1 /\ lineEnd # 0 /\ found = k /\ k # Malformed /\ k # 0
    <3>1. found = k
      BY <1>9, <1>12
    <3>2. lineEnd = p + m + 1
      BY <1>7, <1>12
    <3> QED
      BY <1>3, <1>5, <1>12, <3>1, <3>2 DEF Malformed
  <2>2. lineEnd + 2 + found + 2 = p + Length(Framed(c)) + 1
    BY <1>3, <2>1
  <2>3. CASE p + Length(Framed(c)) > Length(body)
    <3>1. lineEnd + 2 + found + 2 > Length(body) + 1
      BY <1>3, <1>4, <2>2, <2>3
    <3>2. after = Incomplete
      BY <1>8, <2>1, <3>1
    <3> QED
      BY <2>3, <3>2
  <2>4. CASE p + Length(Framed(c)) <= Length(body)
    <3>1. ~(lineEnd + 2 + found + 2 > Length(body) + 1)
      BY <1>3, <1>4, <2>2, <2>4
    <3>2. after = Decoding(p + Length(Framed(c)) + 1,
                           data \o SubSeq(body, lineEnd + 2, lineEnd + 1 + found))
      BY <1>8, <2>1, <2>2, <3>1
    <3>3. SubSeq(body, lineEnd + 2, lineEnd + 1 + found) = c.data
      <4>1. /\ p + m + 2 \in Nat /\ p + m + 2 + k <= Length(body)
            /\ lineEnd + 2 = p + m + 2 + 1 /\ lineEnd + 1 + found = p + m + 2 + k
        BY <1>3, <1>4, <2>1, <2>4
      <4>2. ASSUME NEW i \in 1..k
            PROVE  body[p + m + 2 + i] = c.data[i]
        <5>1. /\ m + 2 + i \in 1..Length(Framed(c)) /\ p + (m + 2 + i) = p + m + 2 + i
              /\ p + m + 2 + i <= Length(body)
          BY <1>3, <1>4, <2>4
        <5> QED
          BY <1>3, <5>1
      <4>3. SubSeq(body, p + m + 2 + 1, p + m + 2 + k) = c.data
        BY <1>3, <4>1, <4>2, SubSeqIs DEF k
      <4> QED
        BY <4>1, <4>3
    <3> QED
      BY <1>12, <2>4, <3>2, <3>3
  <2> QED
    BY <1>3, <1>4, <2>3, <2>4
<1> QED
  BY <1>3, <1>4, <1>10, <1>11, <1>12

(* The round that reads the last chunk, from p on.                          *)
LEMMA DecodeLast ==
    ASSUME NEW body \in Seq(Byte), NEW p \in Nat, NEW data,
           p + 1 <= Length(body) => body[p + 1] = "0",
           p + 2 <= Length(body) => body[p + 2] = "cr",
           p + 3 <= Length(body) => body[p + 3] = "lf",
           NEW after, after = DecodeChunk(body, Decoding(p + 1, data))
    PROVE  after = IF p + 3 > Length(body) THEN Incomplete ELSE Complete(data)
<1> DEFINE line == <<"0">>
           lineEnd == FindSubslice(body, CrLf, p + 1)
           found == ChunkSize(SubSeq(body, p + 1, lineEnd - 1))
<1>1. line \in Seq(Byte) /\ Length(line) = 1 /\ line[1] = "0" /\ line[1] # "cr" /\ line[1] # "semi"
  BY ByteFacts, OneAndTwo DEF Length
<1>2. ChunkSize(line) = 0
  <2> DEFINE place == FindSubslice(line, <<"semi">>, 1)
             digits == IF place = 0 THEN line ELSE SubSeq(line, 1, place - 1)
  <2>1. \/ place = 0 /\ \A i \in 1..Length(line) : line[i] # "semi"
        \/ /\ place \in 1..Length(line) /\ line[place] = "semi"
           /\ \A i \in 1..(place - 1) : line[i] # "semi"
    <3>1. 1 \in Nat \ {0}
      OBVIOUS
    <3> QED
      BY <1>1, <3>1, FindSemi, Zenon
  <2>2. ChunkSize(line) = IF IsSize(digits) THEN SizeOf(digits) ELSE Malformed
    BY Zenon DEF ChunkSize
  <2> HIDE DEF place, line
  <2>3. digits = line
    BY <1>1, <2>1
  <2> HIDE DEF digits
  <2> QED
    BY <2>2, <2>3, LastChunkSize DEF line
<1> HIDE DEF line
<1>3. /\ p + 3 > Length(body) => lineEnd = 0
      /\ p + 3 <= Length(body) => lineEnd = p + 2 /\ SubSeq(body, p + 1, lineEnd - 1) = line
  <2>1. lineEnd = FindSubslice(body, CrLf, p + 1)
    OBVIOUS
  <2> HIDE DEF lineEnd
  <2>2. /\ \A i \in 1..Length(line) : line[i] # "cr"
        /\ \A i \in 1..Length(line) : p + i <= Length(body) => body[p + i] = line[i]
        /\ p + Length(line) + 1 = p + 2 /\ p + Length(line) + 2 = p + 3
    <3>1. \A i \in 1..1 : i = 1
      OBVIOUS
    <3> QED
      BY <1>1, <3>1
  <2>3. /\ p + Length(line) + 2 > Length(body) => lineEnd = 0
        /\ p + Length(line) + 2 <= Length(body) =>
              /\ lineEnd = p + Length(line) + 1
              /\ SubSeq(body, p + 1, lineEnd - 1) = line
    BY <1>1, <2>1, <2>2, LineEndIs
  <2> QED
    BY <2>2, <2>3
<1>4. after =
         IF lineEnd = 0 \/ found = Malformed THEN Incomplete
         ELSE IF found = 0 THEN Complete(data)
         ELSE IF lineEnd + 2 + found + 2 > Length(body) + 1 THEN Incomplete
         ELSE Decoding(lineEnd + 2 + found + 2,
                       data \o SubSeq(body, lineEnd + 2, lineEnd + 1 + found))
  <2> DEFINE pos == p + 1
  <2>1. /\ lineEnd = FindSubslice(body, CrLf, pos) /\ after = DecodeChunk(body, Decoding(pos, data))
        /\ found = ChunkSize(SubSeq(body, pos, lineEnd - 1))
    OBVIOUS
  <2> HIDE DEF lineEnd, pos, found
  <2> QED
    BY <2>1, DecodeChunkIs
<1> HIDE DEF lineEnd
<1>5. ASSUME p + 3 <= Length(body)
      PROVE  lineEnd # 0 /\ found = 0
  <2>1. lineEnd = p + 2 /\ SubSeq(body, p + 1, lineEnd - 1) = line
    BY <1>3, <1>5
  <2>2. found = 0
    BY <1>2, <2>1
  <2> QED
    BY <2>1, <2>2
<1> HIDE DEF found
<1>6. Length(body) \in Nat
  BY LengthFacts
<1>7. CASE p + 3 > Length(body)
  BY <1>3, <1>4, <1>7
<1>8. CASE p + 3 <= Length(body)
  <2>1. 0 # Malformed
    BY DEF Malformed
  <2>2. after = Complete(data) /\ ~(p + 3 > Length(body))
    BY <1>4, <1>5, <1>6, <1>8, <2>1
  <2> QED
    BY <2>2
<1> QED
  BY <1>6, <1>7, <1>8

(* Pieces one after the other, by the sequences of the first k of them.     *)
Pieces(f, S, n, seqs) ==
    /\ n \in Nat /\ seqs \in [1..n -> Seq(S)] /\ f \in [Nat -> Seq(S)]
    /\ f[0] = <<>>
    /\ \A i \in 1..n : Joined(f[i], f[i - 1], seqs[i])

(* A flattened sequence of sequences is that of all its pieces.             *)
LEMMA Flattened ==
    ASSUME NEW S, NEW n \in Nat, NEW seqs \in [1..n -> Seq(S)]
    PROVE  \E f : Pieces(f, S, n, seqs) /\ FlattenSeq(seqs) = f[n]
<1> DEFINE T == Seq(S)
           step == [i \in Nat |-> [s \in T |-> IF i \in 1..n THEN s \o seqs[i] ELSE s]]
<1>1. <<>> \in T
  BY EmptyFacts
<1>2. step \in [Nat -> [T -> T]]
  <2>1. ASSUME NEW i \in 1..n, NEW s \in T
        PROVE  s \o seqs[i] \in T
    BY ConcatProperties
  <2> HIDE DEF T
  <2> QED
    BY <2>1
<1> HIDE DEF T
<1>3. PICK f \in [Nat -> T] : f[0] = <<>> /\ \A i \in Nat : i # 0 => f[i] = step[i][f[i - 1]]
  <2> DEFINE base == <<>>
  <2>1. base \in T /\ step \in StepsOn(T)
    BY <1>1, <1>2 DEF StepsOn
  <2> HIDE DEF step, base
  <2>2. \E f : Iterates(f, T, base, step)
    BY <2>1, RecursiveFunction
  <2> QED
    BY <2>2 DEF base, Iterates
<1>4. f[0] = <<>> /\ \A i \in 1..n : f[i] = f[i - 1] \o seqs[i]
  <2>2. ASSUME NEW i \in 1..n
        PROVE  f[i] = f[i - 1] \o seqs[i]
    <3>1. i \in Nat /\ i # 0 /\ i - 1 \in Nat
      OBVIOUS
    <3>2. f[i - 1] \in T
      BY <3>1
    <3>3. f[i] = step[i][f[i - 1]]
      BY <1>3, <3>1
    <3> QED
      BY <3>1, <3>2, <3>3
  <2> QED
    BY <1>3, <2>2
<1>5. FlattenSeq(seqs) = f[n]
  <2>1. Len(seqs) = n
    BY LenProperties
  <2>2. CASE n = 0
    <3>1. seqs = <<>>
      BY <2>2
    <3>2. FlattenSeq(seqs) = seqs
      BY <2>1, <2>2, Zenon DEF FlattenSeq
    <3> QED
      BY <1>4, <2>2, <3>1, <3>2
  <2>3. CASE n # 0
    <3> DEFINE Solves(g) == g = [i \in 1..n |-> IF i = 1 THEN seqs[i] ELSE g[i - 1] \o seqs[i]]
               chosen == CHOOSE g : Solves(g)
               h == [i \in 1..n |-> f[i]]
    <3>1. FlattenSeq(seqs) = chosen[n]
      <4>1. FlattenSeq(seqs) = LET flatten[i \in 1..n] == IF i = 1 THEN seqs[i] ELSE flatten[i - 1] \o seqs[i]
                               IN  flatten[n]
        BY <2>1, <2>3, Zenon DEF FlattenSeq
      <4> QED
        BY <4>1, Zenon
    <3>2. f[1] = seqs[1]
      <4>1. 1 \in 1..n /\ f[1] = f[0] \o seqs[1] /\ seqs[1] \in Seq(S)
        <5>1. 1 \in 1..n /\ 1 - 1 = 0
          BY <2>3
        <5> QED
          BY <1>4, <5>1
      <4> QED
        BY <4>1, <1>4, ConcatEmptySeq
    <3>3. Solves(h)
      <4>1. ASSUME NEW i \in 1..n
            PROVE  f[i] = IF i = 1 THEN seqs[i] ELSE h[i - 1] \o seqs[i]
        <5>1. CASE i = 1
          BY <3>2, <5>1
        <5>2. CASE i # 1
          <6>1. i - 1 \in 1..n /\ h[i - 1] = f[i - 1]
            BY <5>2
          <6> QED
            BY <1>4, <5>2, <6>1
        <5> QED
          BY <5>1, <5>2
      <4> QED
        BY <4>1
    <3>4. Solves(chosen)
      BY <3>3
    <3> HIDE DEF chosen
    <3> DEFINE Agree == {i \in Nat : i \in 1..n => chosen[i] = f[i]}
    <3>5. 0 \in Agree
      OBVIOUS
    <3>6. ASSUME NEW i \in Nat, i \in Agree
          PROVE  i + 1 \in Agree
      <4>1. SUFFICES ASSUME i + 1 \in 1..n PROVE chosen[i + 1] = f[i + 1]
        OBVIOUS
      <4>2. CASE i = 0
        BY <3>2, <3>4, <4>1, <4>2
      <4>3. CASE i # 0
        <5>1. i \in 1..n /\ i + 1 # 1 /\ (i + 1) - 1 = i /\ chosen[i] = f[i]
          BY <3>6, <4>1, <4>3
        <5>2. chosen[i + 1] = chosen[i] \o seqs[i + 1]
          BY <3>4, <4>1, <5>1
        <5>3. f[i + 1] = f[i] \o seqs[i + 1]
          BY <1>4, <4>1, <5>1
        <5> QED
          BY <5>1, <5>2, <5>3
      <4> QED
        BY <4>2, <4>3
    <3> HIDE DEF Agree
    <3>7. n \in Agree
      BY <3>5, <3>6, NatInductionOnSet
    <3>8. n \in 1..n
      BY <2>3
    <3> QED
      BY <3>1, <3>7, <3>8 DEF Agree
  <2> QED
    BY <2>2, <2>3
<1>6. \A i \in 1..n : Joined(f[i], f[i - 1], seqs[i])
  BY <1>4 DEF Joined
<1> QED
  BY <1>4, <1>5, <1>6 DEF T, Pieces

(* The types of pieces; Pieces itself stays folded, as its equations would  *)
(* have no end.                                                             *)
LEMMA PiecesType ==
    ASSUME NEW S, NEW f, NEW n, NEW seqs, Pieces(f, S, n, seqs)
    PROVE  n \in Nat /\ seqs \in [1..n -> Seq(S)] /\ f \in [Nat -> Seq(S)] /\ f[0] = <<>>
  BY Zenon DEF Pieces

(* u is v with w behind it.                                                 *)
Appended(u, v, w, S) ==
    /\ u \in Seq(S) /\ v \in Seq(S) /\ w \in Seq(S)
    /\ Length(u) \in Nat /\ Length(v) \in Nat /\ Length(w) \in Nat
    /\ u = v \o w /\ Length(u) = Length(v) + Length(w)
    /\ \A k \in 1..Length(v) : u[k] = v[k]
    /\ \A k \in 1..Length(w) : u[Length(v) + k] = w[k]

(* One piece more.                                                          *)
LEMMA PiecesStep ==
    ASSUME NEW S, NEW f, NEW n, NEW seqs, Pieces(f, S, n, seqs), NEW i \in 1..n
    PROVE  Appended(f[i], f[i - 1], seqs[i], S)
<1> DEFINE j == i - 1
           u == f[i]
           v == f[j]
           w == seqs[i]
<1>1. u \in Seq(S) /\ v \in Seq(S) /\ w \in Seq(S) /\ Joined(u, v, w)
  <2>1. i \in Nat /\ j \in Nat
    BY PiecesType
  <2>2. /\ seqs \in [1..n -> Seq(S)] /\ f \in [Nat -> Seq(S)]
        /\ \A k \in 1..n : Joined(f[k], f[k - 1], seqs[k])
    BY Zenon DEF Pieces
  <2>3. u \in Seq(S) /\ v \in Seq(S) /\ w \in Seq(S)
    BY <2>1, <2>2, Zenon
  <2>4. Joined(u, v, w)
    BY <2>2, Zenon
  <2> QED
    BY <2>1, <2>3, <2>4
<1> HIDE DEF u, v, w
<1>2. Length(u) \in Nat /\ Length(v) \in Nat /\ Length(w) \in Nat
  BY <1>1, LengthFacts
<1>3. /\ Length(u) = Length(v) + Length(w)
      /\ \A k \in 1..Length(v) : u[k] = v[k]
      /\ \A k \in 1..Length(w) : u[Length(v) + k] = w[k]
  BY <1>1, JoinedFacts
<1>4. u = v \o w
  BY <1>1 DEF Joined
<1> QED
  <2>1. Appended(u, v, w, S)
    BY <1>1, <1>2, <1>3, <1>4 DEF Appended
  <2> QED
    BY <2>1 DEF u, v, w

(* The first k pieces are what the whole begins with.                       *)
LEMMA PiecesPrefix ==
    ASSUME NEW S, NEW f, NEW n, NEW seqs, Pieces(f, S, n, seqs), NEW k \in 0..n
    PROVE  /\ Length(f[k]) \in Nat /\ Length(f[n]) \in Nat /\ Length(f[k]) <= Length(f[n])
           /\ \A i \in 1..Length(f[k]) : f[n][i] = f[k][i]
<1> DEFINE Begins(m) == /\ Length(f[m]) <= Length(f[n])
                        /\ \A i \in 1..Length(f[m]) : f[n][i] = f[m][i]
           Good == {j \in Nat : j <= n => Begins(n - j)}
<1>1. n \in Nat /\ \A m \in Nat : f[m] \in Seq(S)
  BY PiecesType
<1>2. \A m \in Nat : Length(f[m]) \in Nat
  BY <1>1, LengthFacts
<1>3. 0 \in Good
  <2>1. n - 0 = n /\ Begins(n)
    BY <1>1, <1>2
  <2> QED
    BY <2>1
<1>4. ASSUME NEW j \in Nat, j \in Good
      PROVE  j + 1 \in Good
  <2> SUFFICES ASSUME j + 1 <= n PROVE Begins(n - (j + 1))
    OBVIOUS
  <2> DEFINE m == n - (j + 1)
             next == n - j
  <2>1. m \in Nat /\ next \in 1..n /\ m = next - 1
    BY <1>1
  <2>2. Begins(next)
    BY <1>1, <1>4
  <2> HIDE DEF m, next
  <2>3. /\ Length(f[next]) \in Nat /\ Length(f[m]) \in Nat /\ Length(seqs[next]) \in Nat
        /\ Length(f[next]) = Length(f[m]) + Length(seqs[next])
        /\ \A i \in 1..Length(f[m]) : f[next][i] = f[m][i]
    <3>1. Appended(f[next], f[next - 1], seqs[next], S)
      BY <2>1, PiecesStep, Zenon
    <3>2. Appended(f[next], f[m], seqs[next], S)
      BY <2>1, <3>1
    <3> QED
      BY <3>2 DEF Appended
  <2>4. Length(f[m]) <= Length(f[n])
    <3>1. Length(f[n]) \in Nat /\ Length(f[next]) <= Length(f[n])
      BY <1>1, <1>2, <2>2
    <3> QED
      BY <2>3, <3>1
  <2>5. ASSUME NEW i \in 1..Length(f[m])
        PROVE  f[n][i] = f[m][i]
    <3>1. i \in 1..Length(f[next])
      BY <2>3
    <3> QED
      BY <2>2, <2>3, <3>1
  <2>6. Begins(m)
    BY <2>4, <2>5
  <2> QED
    BY <2>6 DEF m
<1> HIDE DEF Good
<1>5. n - k \in Nat /\ n - k <= n /\ n - (n - k) = k /\ k \in Nat
  BY <1>1
<1>6. n - k \in Good
  BY <1>3, <1>4, <1>5, NatInductionOnSet
<1>7. Begins(k)
  BY <1>5, <1>6 DEF Good
<1> QED
  BY <1>1, <1>2, <1>5, <1>7

(* Where the chunks of a response begin on the wire, and the data before    *)
(* each.                                                                    *)
Laid(r, n, at, D) ==
    /\ n \in Nat /\ at \in [0..n -> Nat] /\ D \in [0..n -> Seq(Byte)]
    /\ at[0] = 0 /\ D[0] = <<>> /\ Data(r) = D[n]
    /\ \A k \in 0..n : k <= at[k]
    /\ \A k \in 1..n :
          /\ r.chunks[k] \in Chunk
          /\ at[k] = at[k - 1] + Length(Framed(r.chunks[k]))
          /\ D[k] = D[k - 1] \o r.chunks[k].data
          /\ \A i \in 1..Length(Framed(r.chunks[k])) :
                ChunkedForm(r)[at[k - 1] + i] = Framed(r.chunks[k])[i]
    /\ ChunkedForm(r) \in Seq(Byte) /\ Length(ChunkedForm(r)) = at[n] + 5
    /\ ChunkedForm(r)[at[n] + 1] = "0"
    /\ ChunkedForm(r)[at[n] + 2] = "cr" /\ ChunkedForm(r)[at[n] + 3] = "lf"

(* The chunks of every response lie on the wire one after the other, with   *)
(* the last chunk behind them.                                              *)
LEMMA ResponseIsLaid ==
    ASSUME NEW r \in ResponseType
    PROVE  \E at, D : Laid(r, Len(r.chunks), at, D)
<1> DEFINE n == Len(r.chunks)
           forms == [k \in 1..n |-> Framed(r.chunks[k])]
           datas == [k \in 1..n |-> r.chunks[k].data]
<1>1. r.chunks \in Seq(Chunk)
  BY DEF ResponseType
<1>2. n \in Nat /\ \A k \in 1..n : r.chunks[k] \in Chunk
  BY <1>1, LenProperties, ElementOfSeq
<1>3. ASSUME NEW k \in 1..n
      PROVE  /\ Framed(r.chunks[k]) \in Seq(Byte) /\ r.chunks[k].data \in Seq(Byte)
             /\ Length(Framed(r.chunks[k])) \in Nat /\ Length(Framed(r.chunks[k])) >= 4
  <2> DEFINE c == r.chunks[k]
             line == c.size \o c.extension
  <2>1. c \in Chunk /\ Joined(line, c.size, c.extension)
    BY <1>2 DEF Joined
  <2> HIDE DEF c, line
  <2>2. /\ Framed(c) \in Seq(Byte) /\ c.data \in Seq(Byte)
        /\ Length(line) \in Nat /\ Length(c.data) \in Nat
        /\ Length(Framed(c)) = Length(line) + 2 + Length(c.data) + 2
    BY <2>1, FramedAt
  <2>3. Length(Framed(c)) \in Nat /\ Length(Framed(c)) >= 4
    BY <2>2
  <2> QED
    BY <2>2, <2>3 DEF c
<1>4. Data(r) = FlattenSeq(datas) /\ ChunkedForm(r) = FlattenSeq(forms) \o <<"0">> \o BlankLine
  BY Zenon DEF Data, ChunkedForm
<1> HIDE DEF n
<1>5. forms \in [1..n -> Seq(Byte)] /\ datas \in [1..n -> Seq(Byte)]
      /\ \A k \in 1..n : forms[k] = Framed(r.chunks[k]) /\ datas[k] = r.chunks[k].data
  BY <1>3
<1> HIDE DEF forms, datas
<1>6. PICK F : Pieces(F, Byte, n, forms) /\ FlattenSeq(forms) = F[n]
  BY <1>2, <1>5, Flattened
<1>7. PICK D : Pieces(D, Byte, n, datas) /\ FlattenSeq(datas) = D[n]
  BY <1>2, <1>5, Flattened
<1>8. \A k \in 0..n : /\ Length(F[k]) \in Nat /\ Length(F[n]) \in Nat /\ Length(F[k]) <= Length(F[n])
                      /\ \A i \in 1..Length(F[k]) : F[n][i] = F[k][i]
  BY <1>6, PiecesPrefix
<1> DEFINE at == [k \in 0..n |-> Length(F[k])]
           E == [k \in 0..n |-> D[k]]
           withZero == F[n] \o <<"0">>
<1>9. /\ ChunkedForm(r) \in Seq(Byte) /\ Length(ChunkedForm(r)) = Length(F[n]) + 5
      /\ \A i \in 1..Length(F[n]) : ChunkedForm(r)[i] = F[n][i]
      /\ ChunkedForm(r)[Length(F[n]) + 1] = "0"
      /\ ChunkedForm(r)[Length(F[n]) + 2] = "cr" /\ ChunkedForm(r)[Length(F[n]) + 3] = "lf"
  <2> DEFINE m == Length(F[n])
             zero == <<"0">>
  <2>1. m \in Nat /\ F[n] \in Seq(Byte)
    <3>1. n \in 0..n
      BY <1>2
    <3> QED
      BY <1>2, <1>6, <1>8, <3>1, PiecesType
  <2>2. zero \in Seq(Byte) /\ Length(zero) = 1 /\ zero[1] = "0"
    BY ByteFacts, OneAndTwo DEF Length
  <2>3. Joined(withZero, F[n], zero) /\ Joined(ChunkedForm(r), withZero, BlankLine)
    BY <1>4, <1>6 DEF Joined
  <2> HIDE DEF withZero, zero
  <2>4. /\ withZero \in Seq(Byte) /\ Length(withZero) = m + 1
        /\ \A i \in 1..m : withZero[i] = F[n][i]
        /\ withZero[m + 1] = zero[1]
    BY <2>1, <2>2, <2>3, JoinedFacts
  <2>5. /\ ChunkedForm(r) \in Seq(Byte) /\ Length(ChunkedForm(r)) = m + 1 + 4
        /\ \A i \in 1..(m + 1) : ChunkedForm(r)[i] = withZero[i]
        /\ \A i \in 1..4 : ChunkedForm(r)[m + 1 + i] = BlankLine[i]
    <3>1. BlankLine \in Seq(Byte) /\ Length(BlankLine) = 4
      BY ByteFacts
    <3> QED
      BY <2>1, <2>3, <2>4, <3>1, JoinedFacts
  <2>6. /\ m + 1 \in 1..(m + 1) /\ m + 1 + 1 = m + 2 /\ m + 1 + 2 = m + 3 /\ m + 1 + 4 = m + 5
        /\ 1 \in 1..4 /\ 2 \in 1..4 /\ \A i \in 1..m : i \in 1..(m + 1)
    BY <2>1
  <2> HIDE DEF m
  <2>7. ChunkedForm(r)[m + 1] = "0" /\ \A i \in 1..m : ChunkedForm(r)[i] = F[n][i]
    BY <2>2, <2>4, <2>5, <2>6
  <2>8. ChunkedForm(r)[m + 2] = "cr" /\ ChunkedForm(r)[m + 3] = "lf"
    BY <2>5, <2>6, ByteFacts
  <2> QED
    BY <2>5, <2>6, <2>7, <2>8 DEF m
<1>10. ASSUME NEW k \in 1..n
       PROVE  /\ Length(F[k]) = Length(F[k - 1]) + Length(Framed(r.chunks[k]))
              /\ \A i \in 1..Length(Framed(r.chunks[k])) :
                    ChunkedForm(r)[Length(F[k - 1]) + i] = Framed(r.chunks[k])[i]
  <2> DEFINE j == k - 1
             form == Framed(r.chunks[k])
  <2>1. /\ k \in Nat /\ k \in 0..n /\ j \in Nat /\ j \in 0..n
        /\ F[j] \in Seq(Byte) /\ form \in Seq(Byte) /\ Length(form) \in Nat
        /\ Length(F[k]) = Length(F[j]) + Length(form)
        /\ \A i \in 1..Length(form) : F[k][Length(F[j]) + i] = form[i]
    <3>1. k \in Nat /\ k \in 0..n /\ j \in Nat /\ j \in 0..n /\ j = k - 1
      BY <1>2
    <3> HIDE DEF j
    <3>2. /\ F[j] \in Seq(Byte) /\ Length(F[k]) = Length(F[j]) + Length(forms[k])
          /\ \A i \in 1..Length(forms[k]) : F[k][Length(F[j]) + i] = forms[k][i]
      <4>1. Appended(F[k], F[k - 1], forms[k], Byte)
        BY <1>6, PiecesStep, Zenon
      <4>2. Appended(F[k], F[j], forms[k], Byte)
        BY <3>1, <4>1
      <4> QED
        BY <4>2 DEF Appended
    <3> QED
      BY <1>3, <1>5, <3>1, <3>2
  <2> HIDE DEF j, form
  <2>3. /\ Length(F[j]) \in Nat /\ Length(F[k]) \in Nat /\ Length(F[n]) \in Nat
        /\ Length(F[k]) <= Length(F[n])
        /\ \A i \in 1..Length(F[k]) : F[n][i] = F[k][i]
    BY <1>2, <1>8, <2>1
  <2>4. ASSUME NEW i \in 1..Length(form)
        PROVE  ChunkedForm(r)[Length(F[j]) + i] = form[i]
    <3>1. Length(F[j]) + i \in 1..Length(F[k]) /\ Length(F[j]) + i \in 1..Length(F[n])
      BY <2>1, <2>3
    <3> QED
      BY <1>9, <2>1, <2>3, <3>1
  <2> QED
    BY <2>1, <2>4 DEF j, form
<1>11. ASSUME NEW k \in 0..n
       PROVE  k <= at[k]
  <2> DEFINE Good == {k2 \in Nat : k2 <= n => k2 <= Length(F[k2])}
  <2>1. 0 \in Good
    BY <1>8
  <2>2. ASSUME NEW i \in Nat, i \in Good
        PROVE  i + 1 \in Good
    <3> SUFFICES ASSUME i + 1 <= n PROVE i + 1 <= Length(F[i + 1])
      OBVIOUS
    <3>1. i + 1 \in 1..n /\ (i + 1) - 1 = i /\ i \in 0..n /\ i <= Length(F[i])
      BY <1>2, <2>2
    <3>2. Length(F[i + 1]) = Length(F[i]) + Length(Framed(r.chunks[i + 1]))
      BY <1>10, <3>1
    <3>3. Length(F[i]) \in Nat /\ Length(Framed(r.chunks[i + 1])) \in Nat
          /\ Length(Framed(r.chunks[i + 1])) >= 4
      BY <1>3, <1>8, <3>1
    <3> QED
      BY <3>1, <3>2, <3>3
  <2> HIDE DEF Good
  <2>3. k \in Nat /\ k \in Good
    BY <2>1, <2>2, NatInductionOnSet
  <2> QED
    BY <2>3 DEF Good
<1>12. at \in [0..n -> Nat] /\ E \in [0..n -> Seq(Byte)]
  <2>1. ASSUME NEW k \in 0..n
        PROVE  Length(F[k]) \in Nat /\ D[k] \in Seq(Byte)
    <3>1. k \in Nat /\ D \in [Nat -> Seq(Byte)]
      BY <1>2, <1>7, PiecesType
    <3> QED
      BY <1>8, <3>1
  <2> QED
    BY <2>1
<1>13. /\ at[0] = 0 /\ E[0] = <<>> /\ Data(r) = E[n]
       /\ Length(ChunkedForm(r)) = at[n] + 5
       /\ ChunkedForm(r)[at[n] + 1] = "0"
       /\ ChunkedForm(r)[at[n] + 2] = "cr" /\ ChunkedForm(r)[at[n] + 3] = "lf"
  <2>1. 0 \in 0..n /\ n \in 0..n /\ F[0] = <<>> /\ D[0] = <<>>
    BY <1>2, <1>6, <1>7, PiecesType
  <2>2. at[0] = Length(F[0]) /\ at[n] = Length(F[n]) /\ E[0] = D[0] /\ E[n] = D[n]
    BY <2>1
  <2>3. Length(F[0]) = 0
    BY <2>1, EmptyFacts
  <2> QED
    BY <1>4, <1>7, <1>9, <2>1, <2>2, <2>3
<1>14. ASSUME NEW k \in 1..n
       PROVE  /\ at[k] = at[k - 1] + Length(Framed(r.chunks[k]))
              /\ E[k] = E[k - 1] \o r.chunks[k].data
              /\ \A i \in 1..Length(Framed(r.chunks[k])) :
                    ChunkedForm(r)[at[k - 1] + i] = Framed(r.chunks[k])[i]
  <2>1. at[k] = Length(F[k]) /\ at[k - 1] = Length(F[k - 1]) /\ E[k] = D[k] /\ E[k - 1] = D[k - 1]
    BY <1>2
  <2>2. D[k] = D[k - 1] \o r.chunks[k].data
    <3>1. D[k] = D[k - 1] \o datas[k]
      <4>1. Appended(D[k], D[k - 1], datas[k], Byte)
        BY <1>7, PiecesStep, Zenon
      <4> QED
        BY <4>1, Zenon DEF Appended
    <3> QED
      BY <1>5, <3>1
  <2> QED
    BY <1>10, <2>1, <2>2
<1> HIDE DEF at, E
<1>15. Laid(r, n, at, E)
  BY <1>2, <1>9, <1>11, <1>12, <1>13, <1>14 DEF Laid
<1> QED
  BY <1>15 DEF n

(* After some rounds of the decoder on what a chunked body begins with.     *)
(* sizes: of chunks are sizes.                                              *)
Sized(r, k) == \A i \in 1..k : IsSize(r.chunks[i].size)

DecodedBy(r, n, at, D, body, j, d) ==
    \/ /\ d = Incomplete
       /\ ~Sized(r, n) \/ at[n] + 3 > Length(body)
    \/ /\ j <= n /\ d = Decoding(at[j] + 1, D[j])
       /\ Sized(r, j)
    \/ /\ j > n /\ d = Complete(D[n])
       /\ Sized(r, n) /\ at[n] + 3 <= Length(body)

(* The offsets of chunks grow.                                              *)
LEMMA LaidGrows ==
    ASSUME NEW r, NEW n, NEW at, NEW D, Laid(r, n, at, D), NEW k \in 0..n
    PROVE  at[k] <= at[n]
<1> DEFINE Good == {j \in Nat : j <= n => at[n - j] <= at[n]}
<1>1. n \in Nat /\ at \in [0..n -> Nat]
  BY Zenon DEF Laid
<1>2. ASSUME NEW i \in 1..n
      PROVE  at[i - 1] <= at[i]
  <2>1. at[i] = at[i - 1] + Length(Framed(r.chunks[i])) /\ r.chunks[i] \in Chunk
    BY Zenon DEF Laid
  <2>2. Length(Framed(r.chunks[i])) \in Nat
    <3> DEFINE c == r.chunks[i]
               line == c.size \o c.extension
    <3>1. c \in Chunk /\ Joined(line, c.size, c.extension)
      BY <2>1 DEF Joined
    <3> HIDE DEF c, line
    <3>2. Framed(c) \in Seq(Byte)
      BY <3>1, FramedAt
    <3>3. Length(Framed(c)) \in Nat
      BY <3>2, LengthFacts
    <3> QED
      BY <3>3 DEF c
  <2>3. at[i] \in Nat /\ at[i - 1] \in Nat
    BY <1>1
  <2> QED
    BY <2>1, <2>2, <2>3
<1>3. 0 \in Good
  BY <1>1
<1>4. ASSUME NEW j \in Nat, j \in Good
      PROVE  j + 1 \in Good
  <2> SUFFICES ASSUME j + 1 <= n PROVE at[n - (j + 1)] <= at[n]
    OBVIOUS
  <2>1. n - j \in 1..n /\ (n - j) - 1 = n - (j + 1) /\ n - j \in 0..n /\ n - (j + 1) \in 0..n
    BY <1>1
  <2>2. at[n - j] <= at[n] /\ at[(n - j) - 1] <= at[n - j]
    BY <1>1, <1>2, <1>4, <2>1
  <2>3. at[n - j] \in Nat /\ at[n] \in Nat /\ at[n - (j + 1)] \in Nat
    BY <1>1, <2>1
  <2> QED
    BY <2>1, <2>2, <2>3
<1> HIDE DEF Good
<1>5. n - k \in Nat /\ n - k <= n /\ n - (n - k) = k
  BY <1>1
<1>6. n - k \in Good
  BY <1>3, <1>4, <1>5, NatInductionOnSet
<1> QED
  BY <1>5, <1>6 DEF Good

(* A round keeps to what the rounds before it have read. The decoder does   *)
(* not look past the line of the last chunk, three bytes beyond the others. *)
LEMMA DecodeStep ==
    ASSUME NEW r \in ResponseType, NEW n, NEW at, NEW D, Laid(r, n, at, D),
           \A i \in 1..n : IsFramed(r.chunks[i]),
           NEW body \in Seq(Byte),
           \A i \in 1..Length(body) : body[i] = ChunkedForm(r)[i],
           NEW j \in Nat, NEW d, DecodedBy(r, n, at, D, body, j, d)
    PROVE  DecodedBy(r, n, at, D, body, j + 1, DecodeChunk(body, d))
<1> DEFINE after == DecodeChunk(body, d)
<1>1. n \in Nat /\ at \in [0..n -> Nat] /\ Length(body) \in Nat
  BY LengthFacts, Zenon DEF Laid
<1>2. CASE /\ d = Incomplete
           /\ ~Sized(r, n) \/ at[n] + 3 > Length(body)
  <2>1. after = Incomplete
    BY <1>2 DEF DecodeChunk, Incomplete
  <2> QED
    BY <1>2, <2>1 DEF DecodedBy
<1>3. CASE j < n /\ d = Decoding(at[j] + 1, D[j]) /\ Sized(r, j)
  <2> DEFINE k == j + 1
             c == r.chunks[k]
             p == at[j]
  <2>1. k \in 1..n /\ k \in 0..n /\ j \in 0..n /\ k - 1 = j
    BY <1>1, <1>3
  <2>2. /\ c \in Chunk /\ IsFramed(c) /\ p \in Nat
        /\ at[k] = p + Length(Framed(c)) /\ D[k] = D[j] \o c.data
        /\ \A i \in 1..Length(Framed(c)) : ChunkedForm(r)[p + i] = Framed(c)[i]
    <3>1. /\ r.chunks[k] \in Chunk
          /\ at[k] = at[k - 1] + Length(Framed(r.chunks[k]))
          /\ D[k] = D[k - 1] \o r.chunks[k].data
          /\ \A i \in 1..Length(Framed(r.chunks[k])) :
                ChunkedForm(r)[at[k - 1] + i] = Framed(r.chunks[k])[i]
      BY <2>1, Zenon DEF Laid
    <3> QED
      BY <1>1, <2>1, <3>1
  <2> HIDE DEF c, p, after
  <2>3. \A i \in 1..Length(Framed(c)) : p + i <= Length(body) => body[p + i] = Framed(c)[i]
    <3>1. ASSUME NEW i \in 1..Length(Framed(c)), p + i <= Length(body)
          PROVE  body[p + i] = Framed(c)[i]
      <4>1. p + i \in 1..Length(body)
        BY <1>1, <2>2, <3>1
      <4>2. body[p + i] = ChunkedForm(r)[p + i]
        BY <4>1
      <4> QED
        BY <2>2, <4>2
    <3> QED
      BY <3>1
  <2>4. after = DecodeChunk(body, Decoding(p + 1, D[j]))
    BY <1>3 DEF p, after
  <2>5. \/ /\ after = Incomplete
           /\ ~IsSize(c.size) \/ p + Length(Framed(c)) > Length(body)
        \/ /\ after = Decoding(p + Length(Framed(c)) + 1, D[j] \o c.data)
           /\ IsSize(c.size) /\ p + Length(Framed(c)) <= Length(body)
    <3> DEFINE data == D[j]
    <3>1. after = DecodeChunk(body, Decoding(p + 1, data))
      BY <2>4
    <3> HIDE DEF data
    <3>2. \/ /\ after = Incomplete
             /\ ~IsSize(c.size) \/ p + Length(Framed(c)) > Length(body)
          \/ /\ after = Decoding(p + Length(Framed(c)) + 1, data \o c.data)
             /\ IsSize(c.size) /\ p + Length(Framed(c)) <= Length(body)
      BY <2>2, <2>3, <3>1, DecodeOne
    <3> QED
      BY <3>2 DEF data
  <2>6. CASE /\ after = Incomplete
             /\ ~IsSize(c.size) \/ p + Length(Framed(c)) > Length(body)
    <3>1. ~IsSize(c.size) => ~Sized(r, n)
      BY <2>1 DEF Sized, c
    <3>2. at[k] > Length(body) => at[n] + 3 > Length(body)
      <4>1. at[k] <= at[n]
        BY <2>1, LaidGrows
      <4>2. at[k] \in Nat /\ at[n] \in Nat
        BY <1>1, <2>1
      <4> QED
        BY <1>1, <4>1, <4>2
    <3> QED
      BY <2>2, <2>6, <3>1, <3>2 DEF DecodedBy, after
  <2>7. CASE /\ after = Decoding(p + Length(Framed(c)) + 1, D[j] \o c.data)
             /\ IsSize(c.size) /\ p + Length(Framed(c)) <= Length(body)
    <3>1. Sized(r, k)
      <4>1. ASSUME NEW i \in 1..k
            PROVE  IsSize(r.chunks[i].size)
        <5>1. i \in 1..j \/ i = k
          BY <2>1
        <5> QED
          BY <1>3, <2>7, <5>1 DEF Sized, c
      <4> QED
        BY <4>1 DEF Sized
    <3>2. after = Decoding(at[k] + 1, D[k]) /\ k <= n
      BY <2>1, <2>2, <2>7
    <3> QED
      BY <3>1, <3>2 DEF DecodedBy, after
  <2> QED
    BY <2>5, <2>6, <2>7
<1>4. CASE j = n /\ d = Decoding(at[j] + 1, D[j]) /\ Sized(r, j)
  <2> DEFINE p == at[n]
  <2>1. p \in Nat
    BY <1>1
  <2>2. /\ Length(ChunkedForm(r)) = p + 5 /\ ChunkedForm(r)[p + 1] = "0"
        /\ ChunkedForm(r)[p + 2] = "cr" /\ ChunkedForm(r)[p + 3] = "lf"
    BY Zenon DEF Laid
  <2>3. after = DecodeChunk(body, Decoding(p + 1, D[n]))
    BY <1>4
  <2> HIDE DEF p, after
  <2>4. /\ p + 1 <= Length(body) => body[p + 1] = "0"
        /\ p + 2 <= Length(body) => body[p + 2] = "cr"
        /\ p + 3 <= Length(body) => body[p + 3] = "lf"
    BY <1>1, <2>1, <2>2
  <2>5. after = IF p + 3 > Length(body) THEN Incomplete ELSE Complete(D[n])
    BY <2>1, <2>3, <2>4, DecodeLast, Zenon
  <2>6. CASE p + 3 > Length(body)
    <3>1. after = Incomplete
      BY <2>5, <2>6
    <3> QED
      BY <2>6, <3>1 DEF DecodedBy, p, after
  <2>7. CASE p + 3 <= Length(body)
    <3>1. after = Complete(D[n]) /\ j + 1 > n
      BY <1>1, <1>4, <2>1, <2>5, <2>7
    <3> QED
      BY <1>4, <2>7, <3>1 DEF DecodedBy, p, after
  <2> QED
    BY <1>1, <2>1, <2>6, <2>7
<1>5. CASE /\ j > n /\ d = Complete(D[n])
           /\ Sized(r, n) /\ at[n] + 3 <= Length(body)
  <2>1. after = Complete(D[n])
    BY <1>5 DEF DecodeChunk, Complete
  <2>2. j + 1 > n
    BY <1>1, <1>5
  <2> QED
    BY <1>5, <2>1, <2>2 DEF DecodedBy
<1> QED
  BY <1>1, <1>2, <1>3, <1>4, <1>5 DEF DecodedBy

(* The decoder's answer to what a chunked body begins with.                 *)
LEMMA Decoded ==
    ASSUME NEW r \in ResponseType, \A i \in 1..Len(r.chunks) : IsFramed(r.chunks[i]),
           NEW body \in Seq(Byte),
           \A i \in 1..Length(body) : body[i] = ChunkedForm(r)[i]
    PROVE  \/ /\ DecodeChunkedBody(body).state # "complete"
              /\ ~Sized(r, Len(r.chunks)) \/ Length(body) < Length(ChunkedForm(r)) - 2
           \/ /\ DecodeChunkedBody(body) = Complete(Data(r))
              /\ Sized(r, Len(r.chunks)) /\ Length(body) >= Length(ChunkedForm(r)) - 2
<1> DEFINE n == Len(r.chunks)
<1>1. PICK at, D : Laid(r, n, at, D)
  BY ResponseIsLaid, Zenon
<1> HIDE DEF n
<1>2. /\ n \in Nat /\ at \in [0..n -> Nat] /\ D \in [0..n -> Seq(Byte)]
      /\ at[0] = 0 /\ D[0] = <<>> /\ Data(r) = D[n] /\ n <= at[n]
      /\ Length(ChunkedForm(r)) = at[n] + 5
  <2>1. n \in 0..n
    <3>1. n \in Nat
      BY <1>1, Zenon DEF Laid
    <3> QED
      BY <3>1
  <2> QED
    BY <1>1, <2>1, Zenon DEF Laid
<1>3. Length(body) \in Nat /\ \A i \in 1..n : IsFramed(r.chunks[i])
  BY LengthFacts DEF n
<1> DEFINE By(j, d) == DecodedBy(r, n, at, D, body, j, d)
<1>4. ASSUME NEW j \in Nat, NEW d, By(j, d)
      PROVE  By(j + 1, DecodeChunk(body, d))
  BY <1>1, <1>3, <1>4, DecodeStep, Zenon
<1>5. By(0, Decoding(1, <<>>))
  <2>1. Sized(r, 0) /\ 0 <= n /\ Decoding(at[0] + 1, D[0]) = Decoding(1, <<>>)
    BY <1>2 DEF Sized
  <2> QED
    BY <2>1 DEF DecodedBy
<1> DEFINE U == {Incomplete, Complete(D[n])} \cup {Decoding(at[j] + 1, D[j]) : j \in 0..n}
           T == {d \in U : \E j \in Nat : By(j, d)}
           base == Decoding(1, <<>>)
           step == [i \in Nat |-> [d \in T |-> DecodeChunk(body, d)]]
           Solves(g) == g = [i \in Nat |-> IF i = 0 THEN Decoding(1, <<>>)
                                           ELSE LET before == g[i - 1] IN DecodeChunk(body, before)]
<1>6. ASSUME NEW j \in Nat, NEW d, By(j, d)
      PROVE  d \in T
  <2>1. d \in U
    BY <1>2, <1>6 DEF DecodedBy
  <2> QED
    BY <1>6, <2>1
<1> HIDE DEF By
<1>7. ASSUME NEW d \in T
      PROVE  DecodeChunk(body, d) \in T
  <2>1. PICK j \in Nat : By(j, d)
    OBVIOUS
  <2>2. By(j + 1, DecodeChunk(body, d)) /\ j + 1 \in Nat
    BY <1>4, <2>1
  <2> HIDE DEF T
  <2> QED
    BY <1>6, <2>2
<1> HIDE DEF T
<1>8. PICK f : Iterates(f, T, base, step)
  <2>1. base \in T
    BY <1>5, <1>6
  <2>2. step \in StepsOn(T)
    BY <1>7 DEF StepsOn
  <2> HIDE DEF base, step
  <2> QED
    BY <2>1, <2>2, RecursiveFunction
<1>9. Solves(f)
  <2>1. /\ f \in [Nat -> T] /\ f[0] = base
        /\ \A i \in Nat : i # 0 => f[i] = step[i][f[i - 1]]
    BY <1>8, Zenon DEF Iterates
  <2>2. ASSUME NEW i \in Nat, i # 0
        PROVE  f[i] = DecodeChunk(body, f[i - 1])
    <3>1. i - 1 \in Nat
      BY <2>2
    <3>2. f[i - 1] \in T
      BY <2>1, <3>1
    <3>3. step[i][f[i - 1]] = DecodeChunk(body, f[i - 1])
      BY <3>2
    <3> QED
      BY <2>1, <2>2, <3>3
  <2>3. f = [i \in Nat |-> f[i]]
    BY <2>1
  <2> QED
    BY <2>1, <2>2, <2>3
<1> DEFINE after == CHOOSE g : Solves(g)
<1>10. DecodeChunkedBody(body) = after[Length(body) + 1]
  BY Zenon DEF DecodeChunkedBody, Length
<1>11. Solves(after)
  BY <1>9, Zenon
<1> HIDE DEF after
<1>12. after[0] = Decoding(1, <<>>) /\ \A i \in Nat : after[i + 1] = DecodeChunk(body, after[i])
  <2>1. after[0] = Decoding(1, <<>>)
    BY <1>11
  <2>2. ASSUME NEW i \in Nat
        PROVE  after[i + 1] = DecodeChunk(body, after[i])
    <3>1. i + 1 \in Nat /\ i + 1 # 0 /\ (i + 1) - 1 = i
      OBVIOUS
    <3>2. after[i + 1] = DecodeChunk(body, after[(i + 1) - 1])
      BY <1>11, <3>1
    <3> QED
      BY <3>1, <3>2
  <2> QED
    BY <2>1, <2>2
<1> HIDE DEF Solves
<1> DEFINE Good == {j \in Nat : By(j, after[j])}
<1>13. 0 \in Good
  BY <1>5, <1>12
<1>14. ASSUME NEW j \in Nat, j \in Good
       PROVE  j + 1 \in Good
  <2>1. By(j + 1, DecodeChunk(body, after[j]))
    BY <1>4, <1>14
  <2> QED
    BY <1>12, <2>1
<1> HIDE DEF Good
<1>15. By(Length(body) + 1, DecodeChunkedBody(body))
  <2>1. Length(body) + 1 \in Nat
    BY <1>3
  <2>2. Length(body) + 1 \in Good
    BY <1>13, <1>14, <2>1, NatInductionOnSet
  <2> QED
    BY <1>10, <2>2 DEF Good
<1> DEFINE d == DecodeChunkedBody(body)
<1> HIDE DEF d
<1>16. CASE /\ d = Incomplete
            /\ ~Sized(r, n) \/ at[n] + 3 > Length(body)
  <2>1. d.state # "complete"
    BY <1>16 DEF Incomplete
  <2>2. at[n] + 3 > Length(body) => Length(body) < Length(ChunkedForm(r)) - 2
    BY <1>2, <1>3
  <2> QED
    BY <1>16, <2>1, <2>2 DEF d, n
<1>17. CASE Length(body) + 1 <= n /\ d = Decoding(at[Length(body) + 1] + 1, D[Length(body) + 1])
  <2>1. d.state # "complete"
    BY <1>17 DEF Decoding
  <2>2. Length(body) < Length(ChunkedForm(r)) - 2
    BY <1>2, <1>3, <1>17
  <2> QED
    BY <2>1, <2>2 DEF d, n
<1>18. CASE /\ d = Complete(D[n])
            /\ Sized(r, n) /\ at[n] + 3 <= Length(body)
  <2>1. Length(body) >= Length(ChunkedForm(r)) - 2
    BY <1>2, <1>3, <1>18
  <2> QED
    BY <1>2, <1>18, <2>1 DEF d, n
<1> QED
  BY <1>15, <1>16, <1>17, <1>18 DEF By, d, DecodedBy

----------------------------------------------------------------------------
(* The stream.  Begun(s, t): s is what t begins with.                       *)
Begun(s, t) ==
    /\ s \in Seq(Byte) /\ t \in Seq(Byte) /\ Length(s) \in Nat /\ Length(t) \in Nat
    /\ Length(s) <= Length(t)
    /\ \A i \in 1..Length(s) : s[i] = t[i]

(* It is the prefix of the community modules, by its bytes.                 *)
LEMMA BegunIsPrefix ==
    ASSUME NEW s \in Seq(Byte), NEW t \in Seq(Byte)
    PROVE  Begun(s, t) <=> IsPrefix(s, t)
<1> DEFINE m == Length(s)
           a == SubSeq(s, 1, m)
           b == SubSeq(t, 1, m)
<1>1. m \in Nat /\ Length(t) \in Nat
  BY LengthFacts
<1>2. IsPrefix(s, t) <=> m <= Length(t) /\ a = b
  BY Zenon DEF IsPrefix, Length
<1>3. 0 \in Nat /\ 0 + m <= Length(s) /\ 0 + m = m /\ 0 + 1 = 1
  BY <1>1
<1>4. a = s
  <2>1. 0 + Length(s) <= Length(s) /\ \A i \in 1..Length(s) : s[0 + i] = s[i]
    BY <1>1
  <2>2. SubSeq(s, 0 + 1, 0 + Length(s)) = s
    BY <1>3, <2>1, SubSeqIs, Zenon
  <2> QED
    BY <1>3, <2>2
<1>5. ASSUME m <= Length(t)
      PROVE  b \in Seq(Byte) /\ Length(b) = m /\ \A i \in 1..m : b[i] = t[i]
  <2> DEFINE zero == 0
  <2>1. zero \in Nat /\ zero + m <= Length(t) /\ Stretch(b, t, zero, m)
    BY <1>1, <1>5 DEF Stretch
  <2>2. \A i \in 1..m : zero + i = i
    OBVIOUS
  <2> HIDE DEF b, zero, m
  <2>3. b \in Seq(Byte) /\ Length(b) = m /\ \A i \in 1..m : b[i] = t[zero + i]
    BY <1>1, <2>1, StretchFacts
  <2> QED
    BY <2>2, <2>3
<1> HIDE DEF a, b
<1>6. ASSUME Begun(s, t)
      PROVE  IsPrefix(s, t)
  <2>1. m <= Length(t) /\ \A i \in 1..m : s[i] = t[i]
    BY <1>6 DEF Begun
  <2>2. Length(b) = Length(s) /\ \A i \in 1..Length(s) : b[i] = s[i]
    BY <1>5, <2>1
  <2>3. b = s
    BY <1>5, <2>1, <2>2, EqualFacts
  <2> QED
    BY <1>2, <1>4, <2>1, <2>3
<1>7. ASSUME IsPrefix(s, t)
      PROVE  Begun(s, t)
  BY <1>1, <1>2, <1>4, <1>5, <1>7 DEF Begun
<1> QED
  BY <1>6, <1>7

(* A beginning as long as the whole is the whole.                           *)
LEMMA BegunAll ==
    ASSUME NEW s, NEW t, Begun(s, t), Length(s) = Length(t)
    PROVE  s = t
  BY EqualFacts DEF Begun

(* What stands where on the wire.                                           *)
Form(r) == IF r.chunked THEN ChunkedForm(r) ELSE Data(r)

(* The five bytes of the header, and the body behind them.                  *)
LEMMA WireIs ==
    ASSUME NEW r \in ResponseType
    PROVE  /\ Data(r) \in Seq(Byte) /\ Form(r) \in Seq(Byte) /\ Wire(r) \in Seq(Byte)
           /\ Length(Data(r)) \in Nat /\ Length(Form(r)) \in Nat
           /\ Length(Wire(r)) = 5 + Length(Form(r))
           /\ Wire(r)[1] = "start" /\ \A i \in 1..4 : Wire(r)[1 + i] = BlankLine[i]
           /\ \A i \in 1..Length(Form(r)) : Wire(r)[5 + i] = Form(r)[i]
           /\ r.chunked => Length(Form(r)) >= 5
<1> DEFINE first == <<"start">>
           head == first \o BlankLine
<1>1. PICK at, D : Laid(r, Len(r.chunks), at, D)
  BY ResponseIsLaid
<1> DEFINE n == Len(r.chunks)
<1>2. /\ n \in Nat /\ at \in [0..n -> Nat] /\ D \in [0..n -> Seq(Byte)] /\ Data(r) = D[n]
      /\ ChunkedForm(r) \in Seq(Byte) /\ Length(ChunkedForm(r)) = at[n] + 5
  BY <1>1, Zenon DEF Laid
<1> HIDE DEF n
<1>3. Data(r) \in Seq(Byte) /\ at[n] \in Nat
  BY <1>2
<1>4. Form(r) \in Seq(Byte) /\ (r.chunked => Length(Form(r)) >= 5)
  BY <1>2, <1>3 DEF Form
<1>5. Length(Form(r)) \in Nat /\ Length(Data(r)) \in Nat
  BY <1>3, <1>4, LengthFacts
<1>6. Joined(head, first, BlankLine) /\ Joined(Wire(r), head, Form(r))
  BY Zenon DEF Joined, Wire, Form
<1>7. /\ first \in Seq(Byte) /\ Length(first) = 1 /\ first[1] = "start"
      /\ BlankLine \in Seq(Byte) /\ Length(BlankLine) = 4
  BY ByteFacts, OneAndTwo DEF Length
<1> HIDE DEF first, head
<1>8. /\ head \in Seq(Byte) /\ Length(head) = 5 /\ head[1] = "start"
      /\ \A i \in 1..4 : head[1 + i] = BlankLine[i]
  <2>1. /\ head \in Seq(Byte) /\ Length(head) = Length(first) + Length(BlankLine)
        /\ \A i \in 1..Length(first) : head[i] = first[i]
        /\ \A i \in 1..Length(BlankLine) : head[Length(first) + i] = BlankLine[i]
    <3>1. Joined(head, first, BlankLine) /\ first \in Seq(Byte) /\ BlankLine \in Seq(Byte)
      BY <1>6, <1>7
    <3> QED
      BY <3>1, JoinedFacts
  <2>2. 1 \in 1..1 /\ 1 + 4 = 5
    OBVIOUS
  <2> QED
    BY <1>7, <2>1, <2>2
<1>9. /\ Wire(r) \in Seq(Byte) /\ Length(Wire(r)) = 5 + Length(Form(r))
      /\ \A i \in 1..5 : Wire(r)[i] = head[i]
      /\ \A i \in 1..Length(Form(r)) : Wire(r)[5 + i] = Form(r)[i]
  BY <1>4, <1>6, <1>8, JoinedFacts
<1>10. /\ Wire(r)[1] = "start" /\ \A i \in 1..4 : Wire(r)[1 + i] = BlankLine[i]
  <2>1. 1 \in 1..5 /\ \A i \in 1..4 : 1 + i \in 1..5
    OBVIOUS
  <2> QED
    BY <1>8, <1>9, <2>1
<1> QED
  BY <1>3, <1>4, <1>5, <1>9, <1>10

(* The header ends where the issuer ended it, as soon as all of it has      *)
(* come: no blank line stands before.                                       *)
LEMMA HeaderEndIs ==
    ASSUME NEW r \in ResponseType, NEW bytes, Begun(bytes, Wire(r))
    PROVE  HeaderEnd(bytes) = IF Length(bytes) < 5 THEN 0 ELSE 2
<1> DEFINE N == Length(bytes)
           places == {i \in 1..(N - 3) : \A k \in 1..4 : bytes[i - 1 + k] = BlankLine[k]}
           found == FindSubslice(bytes, BlankLine, 1)
<1>1. /\ bytes \in Seq(Byte) /\ N \in Nat
      /\ \A i \in 1..N : bytes[i] = Wire(r)[i]
  BY Zenon DEF Begun
<1>2. /\ BlankLine \in Seq(Byte) /\ Length(BlankLine) = 4 /\ BlankLine[1] = "cr"
  BY ByteFacts
<1>3. Wire(r)[1] = "start" /\ \A i \in 1..4 : Wire(r)[1 + i] = BlankLine[i]
  BY WireIs
<1>4. HeaderEnd(bytes) = found
  BY Zenon DEF HeaderEnd
<1>5. N + 1 - Length(BlankLine) = N - 3
  BY <1>1, <1>2
<1> HIDE DEF N, found
<1>6. \/ found = 0 /\ places = {}
      \/ found \in places /\ \A i \in places : found <= i
  <2> DEFINE from == 1
  <2>1. from \in Nat \ {0} /\ found = FindSubslice(bytes, BlankLine, from)
    BY DEF found
  <2>2. \A i \in from..(Length(bytes) + 1 - Length(BlankLine)) :
           i \in places <=> \A k \in 1..Length(BlankLine) : bytes[i - 1 + k] = BlankLine[k]
    BY <1>1, <1>2, <1>5 DEF N
  <2>3. places \subseteq Nat
        /\ \A i \in places : i \in from..(Length(bytes) + 1 - Length(BlankLine))
    BY <1>1, <1>5 DEF N
  <2> HIDE DEF places, from
  <2> QED
    BY <1>1, <1>2, <2>1, <2>2, <2>3, FindSubsliceFinds
<1>7. 1 \notin places
  <2>1. SUFFICES ASSUME 1 \in places PROVE FALSE
    OBVIOUS
  <2>2. 1 \in 1..N /\ 1 \in 1..4 /\ 1 - 1 + 1 = 1
    BY <1>1, <2>1
  <2>3. bytes[1] = "start" /\ bytes[1] = "cr"
    BY <1>1, <1>2, <1>3, <2>1, <2>2
  <2> QED
    BY <2>3
<1>8. CASE N < 5
  <2>1. \A i \in places : i = 1
    BY <1>1, <1>8
  <2>2. places = {}
    BY <1>7, <2>1
  <2> HIDE DEF places
  <2>3. found = 0
    BY <1>6, <2>2
  <2> QED
    BY <1>4, <1>8, <2>3 DEF N
<1>9. CASE ~(N < 5)
  <2>1. 2 \in places
    <3>1. 2 \in 1..(N - 3)
      BY <1>1, <1>9
    <3>2. ASSUME NEW k \in 1..4
          PROVE  bytes[2 - 1 + k] = BlankLine[k]
      <4>1. 2 - 1 + k = 1 + k /\ 1 + k \in 1..N
        BY <1>1, <1>9
      <4> QED
        BY <1>1, <1>3, <4>1
    <3> QED
      BY <3>1, <3>2
  <2>2. places \subseteq Nat \ {0}
    BY <1>1
  <2> HIDE DEF places
  <2>3. found \in places /\ found <= 2
    BY <1>6, <2>1
  <2>4. found = 2
    <3>1. found \in Nat \ {0} /\ found # 1
      BY <1>7, <2>2, <2>3
    <3> QED
      BY <2>3, <3>1
  <2> QED
    BY <1>4, <1>9, <2>4 DEF N
<1> QED
  BY <1>8, <1>9

(* What follows the header is what the body begins with.                    *)
LEMMA BodyIs ==
    ASSUME NEW r \in ResponseType, NEW bytes, Begun(bytes, Wire(r)), Length(bytes) >= 5
    PROVE  Begun(Body(bytes), Form(r)) /\ Length(Body(bytes)) = Length(bytes) - 5
<1> DEFINE N == Length(bytes)
           n == N - 5
<1>1. /\ bytes \in Seq(Byte) /\ N \in Nat /\ N <= Length(Wire(r))
      /\ \A i \in 1..N : bytes[i] = Wire(r)[i]
  BY Zenon DEF Begun
<1>2. /\ Form(r) \in Seq(Byte) /\ Length(Form(r)) \in Nat /\ Length(Wire(r)) = 5 + Length(Form(r))
      /\ \A i \in 1..Length(Form(r)) : Wire(r)[5 + i] = Form(r)[i]
  BY WireIs
<1>3. HeaderEnd(bytes) = 2
  BY <1>1, HeaderEndIs
<1>4. Length(BlankLine) = 4
  BY ByteFacts
<1>5. n \in Nat /\ 5 + n = N /\ 5 + n <= Length(bytes) /\ 5 \in Nat
  BY <1>1
<1>6. Body(bytes) = SubSeq(bytes, HeaderEnd(bytes) + Length(BlankLine), Length(bytes))
  BY Zenon DEF Body, Length
<1>7. Body(bytes) = SubSeq(bytes, 5 + 1, 5 + n)
  BY <1>3, <1>4, <1>5, <1>6
<1> HIDE DEF n
<1>8. /\ Body(bytes) \in Seq(Byte) /\ Length(Body(bytes)) = n
      /\ \A i \in 1..n : Body(bytes)[i] = bytes[5 + i]
  <2> DEFINE m == 5
             body == Body(bytes)
  <2>1. m \in Nat /\ Stretch(body, bytes, m, n) /\ m + n <= Length(bytes)
    BY <1>5, <1>7 DEF Stretch
  <2> HIDE DEF m, body
  <2>2. body \in Seq(Byte) /\ Length(body) = n /\ \A i \in 1..n : body[i] = bytes[m + i]
    BY <1>1, <1>5, <2>1, StretchFacts
  <2> QED
    BY <2>2 DEF m, body
<1>9. n <= Length(Form(r))
  BY <1>1, <1>2, <1>5
<1>10. \A i \in 1..n : Body(bytes)[i] = Form(r)[i]
  <2>1. ASSUME NEW i \in 1..n
        PROVE  bytes[5 + i] = Form(r)[i]
    <3>1. 5 + i \in 1..N /\ i \in 1..Length(Form(r))
      BY <1>1, <1>2, <1>5, <1>9
    <3> QED
      BY <1>1, <1>2, <3>1
  <2> QED
    BY <1>8, <2>1
<1> QED
  BY <1>2, <1>5, <1>8, <1>9, <1>10 DEF Begun, n

(* What a response means.                                                   *)
LEMMA PayloadIs ==
    ASSUME NEW r \in ResponseType
    PROVE  /\ Begun(Payload(r), Data(r))
           /\ r.chunked => Payload(r) = Data(r)
           /\ ~r.chunked /\ r.length # NoLength =>
                 /\ r.length \in Nat
                 /\ r.length <= Length(Data(r)) => Length(Payload(r)) = r.length
                 /\ r.length > Length(Data(r)) => Payload(r) = Data(r)
           /\ ~r.chunked /\ r.length = NoLength => Payload(r) = Data(r)
<1> DEFINE D == Data(r)
           n == r.length
           short == ~r.chunked /\ n # NoLength /\ n < Length(D)
<1>1. D \in Seq(Byte) /\ Length(D) \in Nat
  BY WireIs
<1>2. n \in Nat \/ n = NoLength
  BY DEF ResponseType
<1>3. Payload(r) = IF short THEN SubSeq(D, 1, n) ELSE D
  BY Zenon DEF Payload, Length
<1> HIDE DEF D, n
<1>4. CASE short
  <2> DEFINE u == SubSeq(D, 1, n)
             zero == 0
  <2>1. zero \in Nat /\ n \in Nat /\ zero + n <= Length(D) /\ Stretch(u, D, zero, n)
    BY <1>1, <1>2, <1>4 DEF Stretch
  <2>2. \A i \in 1..n : zero + i = i
    OBVIOUS
  <2>3. Payload(r) = u
    BY <1>3, <1>4
  <2> HIDE DEF u, zero
  <2>4. u \in Seq(Byte) /\ Length(u) = n /\ \A i \in 1..n : u[i] = D[zero + i]
    BY <1>1, <2>1, StretchFacts
  <2>5. Begun(u, D)
    <3>1. Length(u) \in Nat /\ Length(u) <= Length(D)
      BY <1>1, <1>4, <2>1, <2>4
    <3>2. \A i \in 1..Length(u) : u[i] = D[i]
      BY <2>2, <2>4
    <3> QED
      BY <1>1, <2>4, <3>1, <3>2 DEF Begun
  <2> QED
    BY <1>1, <1>4, <2>1, <2>3, <2>4, <2>5 DEF D, n
<1>5. CASE ~short
  <2>1. Payload(r) = D
    BY <1>3, <1>5
  <2>2. Begun(D, D)
    BY <1>1 DEF Begun
  <2>3. ~r.chunked /\ n # NoLength /\ n <= Length(D) => Length(D) = n
    BY <1>1, <1>2, <1>5
  <2> QED
    BY <1>2, <2>1, <2>2, <2>3 DEF D, n
<1> QED
  BY <1>4, <1>5

(* The results as functions of the response and of what has come of it.     *)
ResultFor(r, bytes) ==
    IF HeaderEnd(bytes) = 0 THEN Pending
    ELSE IF ~r.parses THEN Failed
    ELSE IF r.chunked THEN ChunkedResult(Body(bytes))
    ELSE IF r.length = NoLength \/ Length(Body(bytes)) < r.length THEN Pending
    ELSE Ok(SubSeq(Body(bytes), 1, r.length))

EndFor(r, bytes) == IF HeaderEnd(bytes) = 0 \/ r.chunked THEN Failed ELSE Ok(Body(bytes))

(* They are what the client computes.                                       *)
LEMMA ResultOfIs ==
    ASSUME NEW bytes
    PROVE  ResultOf(bytes) = ResultFor(response, bytes) /\ ResultAtEnd(bytes) = EndFor(response, bytes)
<1>1. CASE HeaderEnd(bytes) = 0
  <2>1. ResultOf(bytes) = Pending
    BY <1>1, Zenon DEF ResultOf
  <2> QED
    BY <1>1, <2>1 DEF ResultFor, EndFor, ResultAtEnd
<1>2. CASE HeaderEnd(bytes) # 0 /\ ~response.parses
  <2>1. ResultOf(bytes) = Failed
    BY <1>2, Zenon DEF ResultOf
  <2> QED
    BY <1>2, <2>1 DEF ResultFor, EndFor, ResultAtEnd
<1>3. CASE HeaderEnd(bytes) # 0 /\ response.parses /\ response.chunked
  <2>1. ResultOf(bytes) = ChunkedResult(Body(bytes))
    BY <1>3, Zenon DEF ResultOf
  <2> QED
    BY <1>3, <2>1 DEF ResultFor, EndFor, ResultAtEnd
<1>4. CASE HeaderEnd(bytes) # 0 /\ response.parses /\ ~response.chunked
  <2>1. ResultOf(bytes) = IF response.length = NoLength THEN Pending ELSE LengthResult(Body(bytes))
    BY <1>4, Zenon DEF ResultOf
  <2>2. LengthResult(Body(bytes)) =
           IF Length(Body(bytes)) < response.length THEN Pending
           ELSE Ok(SubSeq(Body(bytes), 1, response.length))
    BY Zenon DEF LengthResult, Length
  <2> QED
    BY <1>4, <2>1, <2>2 DEF ResultFor, EndFor, ResultAtEnd
<1> QED
  BY <1>1, <1>2, <1>3, <1>4

(* What the assumption says of a response.                                  *)
LEMMA ResponseFacts ==
    ASSUME NEW r \in Response
    PROVE  /\ r \in ResponseType /\ r.parses \in BOOLEAN /\ r.chunked \in BOOLEAN /\ r.json \in BOOLEAN
           /\ r.chunked => \A i \in 1..Len(r.chunks) : IsFramed(r.chunks[i])
<1>1. r \in ResponseType /\ (r.chunked => \A i \in 1..Len(r.chunks) : IsFramed(r.chunks[i]))
  BY ClientAssumption, Zenon
<1> QED
  BY <1>1 DEF ResponseType

(* The place of the last byte that the client needs.                        *)
LEMMA LastByteIs ==
    ASSUME NEW r \in ResponseType
    PROVE  /\ r.chunked => LastByte(r) = Length(ChunkedForm(r)) + 3
           /\ ~r.chunked => LastByte(r) = 5 + r.length
<1>1. LastByte(r) = IF r.chunked THEN Length(Wire(r)) - Length(CrLf)
                    ELSE Length(Wire(r)) - Length(Data(r)) + r.length
  BY Zenon DEF LastByte, Length
<1>2. /\ Length(Wire(r)) = 5 + Length(Form(r)) /\ Length(CrLf) = 2
      /\ Length(Form(r)) \in Nat /\ Length(Data(r)) \in Nat /\ (r.length \in Nat \/ r.length = NoLength)
  BY WireIs, ByteFacts DEF ResponseType
<1>3. CASE r.chunked
  <2>1. Form(r) = ChunkedForm(r)
    BY <1>3 DEF Form
  <2> QED
    BY <1>1, <1>2, <1>3, <2>1
<1>4. CASE ~r.chunked
  <2>1. Form(r) = Data(r)
    BY <1>4 DEF Form
  <2> QED
    BY <1>1, <1>2, <1>4, <2>1 DEF NoLength
<1> QED
  BY <1>3, <1>4

(* What the client makes of what has come.                                  *)
LEMMA ResultForIs ==
    ASSUME NEW r \in Response, NEW bytes, Begun(bytes, Wire(r))
    PROVE  /\ \/ ResultFor(r, bytes) = Pending
              \/ ResultFor(r, bytes) = Failed /\ ~r.parses
              \/ ResultFor(r, bytes) = Ok(Payload(r))
           /\ ResultFor(r, bytes) = Pending /\ WellFormed(r) /\ SaysItsEnd(r) =>
                 Length(bytes) < LastByte(r)
           /\ ResultFor(r, bytes) = Pending => Length(bytes) < 5 \/ r.parses
<1> DEFINE N == Length(bytes)
           body == Body(bytes)
           m == Length(body)
<1>1. /\ r \in ResponseType
      /\ r.chunked => \A i \in 1..Len(r.chunks) : IsFramed(r.chunks[i])
  BY ResponseFacts
<1>2. N \in Nat /\ N <= Length(Wire(r))
  BY DEF Begun
<1>3. HeaderEnd(bytes) = IF N < 5 THEN 0 ELSE 2
  BY <1>1, HeaderEndIs
<1>4. /\ Length(Wire(r)) = 5 + Length(Form(r)) /\ Length(Form(r)) \in Nat
      /\ Data(r) \in Seq(Byte) /\ Length(Data(r)) \in Nat /\ (r.chunked => Length(Form(r)) >= 5)
  BY <1>1, WireIs
<1>5. /\ r.chunked => LastByte(r) = Length(ChunkedForm(r)) + 3
      /\ ~r.chunked => LastByte(r) = 5 + r.length
  BY <1>1, LastByteIs
<1>6. /\ Pending # Failed /\ Failed # Pending /\ \A x : Ok(x) # Pending
  BY DEF Pending, Failed, Ok
<1> HIDE DEF N
<1>7. CASE N < 5
  <2>1. ResultFor(r, bytes) = Pending
    BY <1>3, <1>7 DEF ResultFor
  <2>2. SaysItsEnd(r) => N < LastByte(r)
    <3>1. CASE r.chunked
      <4>1. Length(ChunkedForm(r)) >= 5 /\ Length(ChunkedForm(r)) \in Nat
        BY <1>4, <3>1 DEF Form
      <4> QED
        BY <1>2, <1>5, <1>7, <3>1, <4>1
    <3>2. CASE ~r.chunked
      <4>1. SaysItsEnd(r) => r.length \in Nat
        BY <3>2 DEF SaysItsEnd
      <4> QED
        BY <1>2, <1>5, <1>7, <3>2, <4>1
    <3> QED
      BY <3>1, <3>2
  <2> QED
    BY <1>7, <2>1, <2>2 DEF N
<1>8. CASE ~(N < 5)
  <2>1. HeaderEnd(bytes) # 0
    BY <1>3, <1>8
  <2>2. /\ Begun(body, Form(r)) /\ m = N - 5
    BY <1>1, <1>2, <1>8, BodyIs DEF N
  <2>3. /\ body \in Seq(Byte) /\ m \in Nat /\ m <= Length(Form(r))
        /\ \A i \in 1..m : body[i] = Form(r)[i]
    BY <2>2, Zenon DEF Begun
  <2> HIDE DEF body, m
  <2>4. CASE ~r.parses
    <3>1. ResultFor(r, bytes) = Failed
      BY <2>1, <2>4 DEF ResultFor
    <3> QED
      BY <1>6, <2>4, <3>1
  <2>5. CASE r.parses /\ r.chunked
    <3> DEFINE d == DecodeChunkedBody(body)
    <3>1. ResultFor(r, bytes) = IF d.state = "complete" THEN Ok(d.data) ELSE Pending
      BY <2>1, <2>5, Zenon DEF ResultFor, ChunkedResult, body
    <3>2. Form(r) = ChunkedForm(r) /\ Payload(r) = Data(r)
      BY <1>1, <2>5, PayloadIs DEF Form
    <3>3. \/ /\ d.state # "complete"
             /\ ~Sized(r, Len(r.chunks)) \/ m < Length(ChunkedForm(r)) - 2
          \/ /\ d = Complete(Data(r))
             /\ Sized(r, Len(r.chunks)) /\ m >= Length(ChunkedForm(r)) - 2
      BY <1>1, <2>3, <2>5, <3>2, Decoded, Zenon DEF m
    <3> HIDE DEF d
    <3>4. CASE /\ d.state # "complete"
               /\ ~Sized(r, Len(r.chunks)) \/ m < Length(ChunkedForm(r)) - 2
      <4>1. ResultFor(r, bytes) = Pending
        BY <3>1, <3>4
      <4>2. ~Sized(r, Len(r.chunks)) => ~WellFormed(r)
        BY <2>5 DEF Sized, WellFormed
      <4>3. m < Length(ChunkedForm(r)) - 2 => N < LastByte(r)
        <5>1. Length(ChunkedForm(r)) \in Nat /\ LastByte(r) = Length(ChunkedForm(r)) + 3
          BY <1>4, <1>5, <2>5, <3>2
        <5> QED
          BY <1>2, <2>2, <2>3, <5>1 DEF m
      <4> QED
        BY <2>5, <3>4, <4>1, <4>2, <4>3 DEF N
    <3>5. CASE d = Complete(Data(r))
      <4>1. d.state = "complete" /\ d.data = Data(r)
        BY <3>5 DEF Complete
      <4>2. ResultFor(r, bytes) = Ok(Payload(r))
        BY <3>1, <3>2, <4>1
      <4> QED
        BY <1>6, <4>2
    <3> QED
      BY <3>3, <3>4, <3>5
  <2>6. CASE r.parses /\ ~r.chunked
    <3> DEFINE n == r.length
    <3>1. ResultFor(r, bytes) = IF n = NoLength \/ m < n THEN Pending ELSE Ok(SubSeq(body, 1, n))
      BY <2>1, <2>6, Zenon DEF ResultFor, body, m
    <3>2. Form(r) = Data(r)
      BY <2>6 DEF Form
    <3>3. /\ Begun(Payload(r), Data(r))
          /\ n # NoLength => /\ n \in Nat
                             /\ n <= Length(Data(r)) => Length(Payload(r)) = n
                             /\ n > Length(Data(r)) => Payload(r) = Data(r)
      BY <1>1, <2>6, PayloadIs
    <3> HIDE DEF n
    <3>4. CASE n = NoLength
      <4>1. ResultFor(r, bytes) = Pending
        BY <3>1, <3>4
      <4>2. ~SaysItsEnd(r)
        BY <2>6, <3>4 DEF SaysItsEnd, n, NoLength
      <4> QED
        BY <2>6, <4>1, <4>2
    <3>5. CASE n # NoLength /\ m < n
      <4>1. ResultFor(r, bytes) = Pending
        BY <3>1, <3>5
      <4>2. N < LastByte(r)
        <5>1. n \in Nat /\ LastByte(r) = 5 + n
          BY <1>5, <2>6, <3>3, <3>5 DEF n
        <5> QED
          BY <1>2, <2>2, <2>3, <3>5, <5>1 DEF m
      <4> QED
        BY <2>6, <4>1, <4>2 DEF N
    <3>6. CASE n # NoLength /\ ~(m < n)
      <4> DEFINE u == SubSeq(body, 1, n)
      <4>1. ResultFor(r, bytes) = Ok(u)
        BY <3>1, <3>6
      <4>2. n \in Nat /\ n <= m /\ n <= Length(Data(r)) /\ Length(Payload(r)) = n
        BY <1>4, <2>3, <3>2, <3>3, <3>6
      <4>3. u \in Seq(Byte) /\ Length(u) = n /\ \A i \in 1..n : u[i] = body[i]
        <5> DEFINE zero == 0
        <5>1. zero \in Nat /\ zero + n <= Length(body) /\ Stretch(u, body, zero, n)
          BY <4>2 DEF Stretch, m
        <5>2. \A i \in 1..n : zero + i = i
          OBVIOUS
        <5> HIDE DEF u, zero
        <5>3. u \in Seq(Byte) /\ Length(u) = n /\ \A i \in 1..n : u[i] = body[zero + i]
          BY <2>3, <4>2, <5>1, StretchFacts
        <5> QED
          BY <5>2, <5>3
      <4> HIDE DEF u
      <4>4. /\ Payload(r) \in Seq(Byte)
            /\ \A i \in 1..n : Payload(r)[i] = Data(r)[i]
        BY <3>3, <4>2 DEF Begun
      <4>5. \A i \in 1..n : u[i] = Payload(r)[i]
        <5>1. \A i \in 1..n : i \in 1..m
          BY <2>3, <4>2
        <5> QED
          BY <2>3, <3>2, <4>3, <4>4, <5>1
      <4>6. u = Payload(r)
        BY <4>2, <4>3, <4>4, <4>5, EqualFacts
      <4> QED
        BY <1>6, <4>1, <4>6
    <3> QED
      BY <3>4, <3>5, <3>6
  <2> QED
    BY <2>4, <2>5, <2>6
<1> QED
  BY <1>7, <1>8

(* A prefix begins what it is cut from.                                     *)
LEMMA PrefixBegun ==
    ASSUME NEW s \in Seq(Byte), NEW k \in Nat, k <= Length(s), NEW u, u = SubSeq(s, 1, k)
    PROVE  Begun(u, s) /\ Length(u) = k
<1> DEFINE v == SubSeq(s, 1, k)
           zero == 0
<1>1. zero \in Nat /\ zero + k <= Length(s) /\ Stretch(v, s, zero, k) /\ Length(s) \in Nat
  BY LengthFacts DEF Stretch
<1>2. u = v /\ \A i \in 1..k : zero + i = i
  OBVIOUS
<1> HIDE DEF v, zero
<1>3. v \in Seq(Byte) /\ Length(v) = k /\ \A i \in 1..k : v[i] = s[zero + i]
  BY <1>1, StretchFacts
<1>4. Length(v) \in Nat /\ Length(v) <= Length(s) /\ \A i \in 1..Length(v) : v[i] = s[i]
  BY <1>1, <1>2, <1>3
<1>5. Begun(v, s) /\ Length(v) = k
  BY <1>1, <1>3, <1>4 DEF Begun
<1> QED
  BY <1>2, <1>5

(* The beginning of a beginning is one.                                     *)
LEMMA BegunTrans ==
    ASSUME NEW s, NEW t, NEW u, Begun(s, t), Begun(t, u)
    PROVE  Begun(s, u)
<1>1. /\ Length(s) \in Nat /\ Length(t) \in Nat /\ Length(u) \in Nat
      /\ Length(s) <= Length(t) /\ Length(t) <= Length(u)
      /\ s \in Seq(Byte) /\ u \in Seq(Byte)
  BY DEF Begun
<1>2. ASSUME NEW i \in 1..Length(s)
      PROVE  s[i] = u[i]
  <2>1. i \in 1..Length(t)
    BY <1>1
  <2> QED
    BY <2>1 DEF Begun
<1> QED
  BY <1>1, <1>2 DEF Begun

(* Of two beginnings of the same, the shorter begins the longer.            *)
LEMMA BegunWithin ==
    ASSUME NEW s, NEW t, NEW u, Begun(s, u), Begun(t, u), Length(s) <= Length(t)
    PROVE  Begun(s, t)
<1>1. /\ Length(s) \in Nat /\ Length(t) \in Nat /\ s \in Seq(Byte) /\ t \in Seq(Byte)
  BY DEF Begun
<1>2. ASSUME NEW i \in 1..Length(s)
      PROVE  s[i] = t[i]
  <2>1. i \in 1..Length(t)
    BY <1>1
  <2> QED
    BY <2>1 DEF Begun
<1> QED
  BY <1>1, <1>2 DEF Begun

(* What the client makes of a stream that ends before it had enough.        *)
LEMMA EndForIs ==
    ASSUME NEW r \in Response, NEW bytes, Begun(bytes, Wire(r)), ResultFor(r, bytes) = Pending
    PROVE  \/ EndFor(r, bytes) = Failed /\ (~WellFormed(r) \/ bytes # Wire(r))
           \/ /\ EndFor(r, bytes) = Ok(Body(bytes)) /\ ~r.chunked
              /\ Begun(Body(bytes), Payload(r))
              /\ Body(bytes) = Payload(r) \/ bytes # Wire(r)
<1> DEFINE N == Length(bytes)
           W == Wire(r)
           body == Body(bytes)
           m == Length(body)
<1>1. r \in ResponseType
  BY ResponseFacts
<1>2. N \in Nat /\ N <= Length(W) /\ (N < Length(W) => bytes # W)
  BY DEF Begun
<1>3. HeaderEnd(bytes) = IF N < 5 THEN 0 ELSE 2
  BY <1>1, HeaderEndIs
<1>4. /\ Length(W) = 5 + Length(Form(r)) /\ Length(Form(r)) \in Nat
      /\ Length(Data(r)) \in Nat /\ (r.chunked => Length(Form(r)) >= 5)
  BY <1>1, WireIs
<1> HIDE DEF N, W
<1>5. CASE N < 5
  <2>1. EndFor(r, bytes) = Failed
    BY <1>3, <1>5 DEF EndFor
  <2>2. bytes # W
    BY <1>2, <1>4, <1>5
  <2> QED
    BY <2>1, <2>2 DEF W
<1>6. CASE ~(N < 5) /\ r.chunked
  <2>1. EndFor(r, bytes) = Failed
    BY <1>6 DEF EndFor
  <2>2. WellFormed(r) => bytes # W
    <3>1. WellFormed(r) => N < LastByte(r)
      BY <1>6, ResultForIs DEF SaysItsEnd, N
    <3>2. LastByte(r) = Length(Form(r)) + 3
      BY <1>1, <1>6, LastByteIs DEF Form
    <3> QED
      BY <1>2, <1>4, <3>1, <3>2
  <2> QED
    BY <2>1, <2>2 DEF W
<1>7. CASE ~(N < 5) /\ ~r.chunked
  <2>1. HeaderEnd(bytes) # 0
    BY <1>3, <1>7
  <2>2. EndFor(r, bytes) = Ok(body)
    BY <1>7, <2>1 DEF EndFor
  <2>3. Begun(body, Form(r)) /\ m = N - 5
    BY <1>1, <1>2, <1>7, BodyIs DEF N
  <2>4. Form(r) = Data(r)
    BY <1>7 DEF Form
  <2>5. r.parses
    <3>1. Length(bytes) < 5 \/ r.parses
      BY ResultForIs
    <3> QED
      BY <1>7, <3>1 DEF N
  <2>6. r.length # NoLength => m < r.length
    <3>1. ResultFor(r, bytes) =
             IF r.length = NoLength \/ m < r.length THEN Pending ELSE Ok(SubSeq(body, 1, r.length))
      BY <1>7, <2>1, <2>5, Zenon DEF ResultFor
    <3>2. Ok(SubSeq(body, 1, r.length)) # Pending
      BY DEF Ok, Pending
    <3> QED
      BY <3>1, <3>2
  <2>7. /\ Begun(Payload(r), Data(r))
        /\ r.length # NoLength => /\ r.length \in Nat
                                  /\ r.length <= Length(Data(r)) => Length(Payload(r)) = r.length
                                  /\ r.length > Length(Data(r)) => Payload(r) = Data(r)
        /\ r.length = NoLength => Payload(r) = Data(r)
    BY <1>1, <1>7, PayloadIs
  <2> HIDE DEF body, m
  <2>8. m \in Nat /\ m <= Length(Data(r))
    BY <2>3, <2>4 DEF Begun, m
  <2>9. CASE r.length # NoLength /\ r.length <= Length(Data(r))
    <3>1. m <= Length(Payload(r)) /\ bytes # W
      BY <1>2, <1>4, <2>3, <2>4, <2>6, <2>7, <2>8, <2>9
    <3>2. Begun(body, Payload(r))
      BY <2>3, <2>4, <2>7, <3>1, BegunWithin DEF m
    <3> QED
      BY <1>7, <2>2, <3>1, <3>2 DEF body, W
  <2>10. CASE ~(r.length # NoLength /\ r.length <= Length(Data(r)))
    <3>1. Payload(r) = Data(r)
      BY <1>4, <2>7, <2>10
    <3>2. body = Data(r) \/ bytes # W
      <4>1. CASE m = Length(Data(r))
        BY <2>3, <2>4, <4>1, BegunAll DEF m
      <4>2. CASE m # Length(Data(r))
        BY <1>2, <1>4, <2>3, <2>4, <2>8, <4>2
      <4> QED
        BY <4>1, <4>2
    <3> QED
      BY <1>7, <2>2, <2>3, <2>4, <3>1, <3>2 DEF body, W
  <2> QED
    BY <2>9, <2>10
<1> QED
  BY <1>5, <1>6, <1>7

----------------------------------------------------------------------------
(* The inductive invariant: what has come is what the response begins with, *)
(* and the result is that of what has come, or of the end of the stream, or *)
(* a failure or a timeout that changed nothing else.                        *)
ResultInv ==
    \/ result = ResultFor(response, raw)
    \/ closes /\ raw = sent /\ ResultFor(response, raw) = Pending /\ result = EndFor(response, raw)
    \/ result = Failed /\ broken
    \/ result = TimedOut

HttpInv ==
    /\ response \in Response
    /\ Begun(sent, Wire(response)) /\ Begun(raw, sent)
    /\ closes \in BOOLEAN /\ broken \in BOOLEAN
    /\ waited \in 0..Timeout
    /\ ResultInv

(* The invariant holds at first: nothing has come, and that has no result.  *)
LEMMA InvInit == HttpInit => HttpInv
<1> SUFFICES ASSUME HttpInit PROVE HttpInv
  OBVIOUS
<1>1. /\ response \in Response /\ closes \in BOOLEAN /\ broken \in BOOLEAN
      /\ sent \in Prefixes(Wire(response)) /\ raw = <<>> /\ result = Pending
  BY DEF HttpInit
<1>2. waited \in 0..Timeout
  BY ClientAssumption DEF HttpInit
<1>3. response \in ResponseType
  BY <1>1, ResponseFacts
<1>4. Wire(response) \in Seq(Byte)
  BY <1>3, WireIs
<1>5. Begun(sent, Wire(response))
  <2> DEFINE W == Wire(response)
  <2>1. PICK k \in 0..Length(W) : sent = SubSeq(W, 1, k)
    BY <1>1, Zenon DEF Prefixes, Length
  <2>2. W \in Seq(Byte)
    BY <1>4
  <2> HIDE DEF W
  <2>3. k \in Nat /\ k <= Length(W)
    BY <2>2, LengthFacts
  <2>4. Begun(sent, W)
    BY <2>1, <2>2, <2>3, PrefixBegun
  <2> QED
    BY <2>4 DEF W
<1>6. Begun(raw, sent)
  <2>1. raw \in Seq(Byte) /\ Length(raw) = 0
    BY <1>1, EmptyFacts
  <2>2. sent \in Seq(Byte) /\ Length(sent) \in Nat
    BY <1>5 DEF Begun
  <2>3. Length(raw) \in Nat /\ Length(raw) <= Length(sent) /\ \A i \in 1..Length(raw) : raw[i] = sent[i]
    BY <2>1, <2>2
  <2> QED
    BY <2>1, <2>2, <2>3 DEF Begun
<1>7. result = ResultFor(response, raw)
  <2>1. Begun(raw, Wire(response)) /\ Length(raw) = 0
    BY <1>1, <1>5, <1>6, BegunTrans, EmptyFacts
  <2>2. HeaderEnd(raw) = 0
    BY <1>3, <2>1, HeaderEndIs
  <2> QED
    BY <1>1, <2>2 DEF ResultFor
<1> QED
  BY <1>1, <1>2, <1>5, <1>6, <1>7 DEF HttpInv, ResultInv

(* Every step keeps the invariant.                                          *)
LEMMA InvNext == HttpInv /\ [HttpNext]_httpVars => HttpInv'
<1> SUFFICES ASSUME HttpInv, [HttpNext]_httpVars PROVE HttpInv'
  OBVIOUS
<1>1. /\ response \in Response /\ Begun(sent, Wire(response)) /\ Begun(raw, sent)
      /\ closes \in BOOLEAN /\ broken \in BOOLEAN /\ waited \in 0..Timeout
  BY DEF HttpInv
<1>2. \A bytes : /\ ResultOf(bytes) = ResultFor(response, bytes)
                 /\ ResultAtEnd(bytes) = EndFor(response, bytes)
  BY ResultOfIs
<1>3. CASE Breaks
  BY <1>1, <1>3 DEF Breaks, HttpInv, ResultInv
<1>4. ASSUME NEW n \in 1..ReadSize, Receive(n)
      PROVE  HttpInv'
  <2>1. /\ Length(raw) + n <= Length(sent) /\ raw' = SubSeq(sent, 1, Length(raw) + n)
        /\ result' = ResultOf(raw')
        /\ UNCHANGED <<response, sent, closes, waited, broken>>
    BY <1>4, Zenon DEF Receive, Length
  <2>2. sent \in Seq(Byte) /\ Length(raw) + n \in Nat
    BY <1>1 DEF Begun
  <2>3. Begun(raw', sent)
    BY <2>1, <2>2, PrefixBegun
  <2>4. result' = ResultFor(response, raw')
    BY <1>2, <2>1
  <2> QED
    BY <1>1, <2>1, <2>3, <2>4 DEF HttpInv, ResultInv
<1>5. CASE StreamEnds
  <2>1. ResultFor(response, raw) = Pending
    <3>1. result = Pending
      BY <1>5 DEF StreamEnds
    <3>2. Pending # Failed /\ Pending # TimedOut /\ \A b : Pending # Ok(b)
      BY DEF Pending, Failed, TimedOut, Ok
    <3> QED
      BY <3>1, <3>2 DEF HttpInv, ResultInv, EndFor
  <2> QED
    BY <1>1, <1>2, <1>5, <2>1 DEF StreamEnds, HttpInv, ResultInv
<1>6. CASE Waits
  <2>1. waited' \in 0..Timeout
    BY <1>1, <1>6, ClientAssumption DEF Waits
  <2>2. result' = ResultFor(response', raw') \/ ResultInv'
    BY <1>6 DEF Waits, HttpInv, ResultInv
  <2> QED
    BY <1>1, <1>6, <2>1, <2>2 DEF Waits, HttpInv, ResultInv
<1>7. CASE TimesOut
  BY <1>1, <1>7 DEF TimesOut, HttpInv, ResultInv
<1>8. CASE UNCHANGED httpVars
  BY <1>8 DEF httpVars, HttpInv, ResultInv
<1> QED
  BY <1>3, <1>4, <1>5, <1>6, <1>7, <1>8 DEF HttpNext

(* At any time the client has what the response begins with, and its result *)
(* is the one that this much of it, its end, a failure or the timer gives.  *)
(* (http.rs:129-254.)                                                       *)
THEOREM HttpInvariant == HttpSpec => []HttpInv
  BY InvInit, InvNext, PTL DEF HttpSpec

----------------------------------------------------------------------------
(* What a call may have come to.                                            *)
LEMMA ResultCases ==
    ASSUME HttpInv
    PROVE  \/ result = Pending /\ ResultFor(response, raw) = Pending
           \/ /\ result = Failed
              /\ broken \/ ~WellFormed(response) \/ (closes /\ sent # Wire(response))
           \/ result = Ok(Payload(response))
           \/ \E body : /\ result = Ok(body) /\ Begun(body, Payload(response))
                        /\ ~response.chunked /\ closes /\ sent # Wire(response)
           \/ result = TimedOut
<1>1. response \in Response /\ Begun(raw, Wire(response))
  <2>1. Begun(raw, sent) /\ Begun(sent, Wire(response)) /\ response \in Response
    BY DEF HttpInv
  <2> QED
    BY <2>1, BegunTrans
<1>2. CASE result = ResultFor(response, raw)
  <2>1. \/ ResultFor(response, raw) = Pending
        \/ ResultFor(response, raw) = Failed /\ ~response.parses
        \/ ResultFor(response, raw) = Ok(Payload(response))
    BY <1>1, ResultForIs
  <2> QED
    BY <1>2, <2>1 DEF WellFormed
<1>3. CASE closes /\ raw = sent /\ ResultFor(response, raw) = Pending /\ result = EndFor(response, raw)
  <2>1. \/ EndFor(response, raw) = Failed /\ (~WellFormed(response) \/ raw # Wire(response))
        \/ /\ EndFor(response, raw) = Ok(Body(raw)) /\ ~response.chunked
           /\ Begun(Body(raw), Payload(response))
           /\ Body(raw) = Payload(response) \/ raw # Wire(response)
    BY <1>1, <1>3, EndForIs
  <2> QED
    BY <1>3, <2>1
<1> QED
  BY <1>2, <1>3 DEF HttpInv, ResultInv

(* A payload is bytes.                                                      *)
LEMMA PayloadType ==
    ASSUME NEW r \in Response
    PROVE  Payload(r) \in Seq(Byte)
<1>1. r \in ResponseType
  BY ResponseFacts
<1>2. Begun(Payload(r), Data(r))
  BY <1>1, PayloadIs
<1> QED
  BY <1>2 DEF Begun

(* The types follow from the invariant.                                     *)
LEMMA InvImpliesType == HttpInv => HttpTypeOK
<1> SUFFICES ASSUME HttpInv PROVE HttpTypeOK
  OBVIOUS
<1>1. /\ response \in Response /\ Begun(sent, Wire(response)) /\ Begun(raw, sent)
      /\ closes \in BOOLEAN /\ broken \in BOOLEAN /\ waited \in 0..Timeout
  BY DEF HttpInv
<1>2. /\ Wire(response) \in Seq(Byte) /\ sent \in Seq(Byte) /\ raw \in Seq(Byte)
  BY <1>1 DEF Begun
<1>3. IsPrefix(sent, Wire(response)) /\ IsPrefix(raw, sent)
  BY <1>1, <1>2, BegunIsPrefix
<1>4. result.kind \in {"none", "ok", "error", "timeout"} /\ result.body \in Seq(Byte)
  <2>1. /\ Payload(response) \in Seq(Byte) /\ <<>> \in Seq(Byte)
        /\ \A body : Begun(body, Payload(response)) => body \in Seq(Byte)
    BY <1>1, PayloadType, EmptyFacts DEF Begun
  <2>2. /\ Pending.kind = "none" /\ Failed.kind = "error" /\ TimedOut.kind = "timeout"
        /\ Pending.body = <<>> /\ Failed.body = <<>> /\ TimedOut.body = <<>>
        /\ \A body : Ok(body).kind = "ok" /\ Ok(body).body = body
    BY DEF Pending, Failed, TimedOut, Ok
  <2>3. CASE result = Pending \/ result = Failed \/ result = TimedOut
    BY <2>1, <2>2, <2>3
  <2>4. CASE result = Ok(Payload(response))
    BY <2>1, <2>2, <2>4
  <2>5. ASSUME NEW body, result = Ok(body), Begun(body, Payload(response))
        PROVE  result.kind \in {"none", "ok", "error", "timeout"} /\ result.body \in Seq(Byte)
    BY <2>1, <2>2, <2>5
  <2> QED
    BY <2>3, <2>4, <2>5, ResultCases
<1> QED
  BY <1>1, <1>3, <1>4 DEF HttpTypeOK, Bytes

(* Every variable keeps its type: what has come is a prefix of what was     *)
(* sent, and that one of what the issuer answers.  (http.rs:129-210.)       *)
THEOREM HttpTypeCorrect == HttpSpec => []HttpTypeOK
  BY InvImpliesType, HttpInvariant, PTL

(* However the stream is cut and wherever it ends, a response that is       *)
(* answered has the body that was sent, or what the issuer got out of one   *)
(* that is not chunked before it closed.  (http.rs:129-210, :226-254.)      *)
THEOREM BodyIsWhole == HttpSpec => []BodyIsWhatWasSent
<1>1. HttpInv => BodyIsWhatWasSent
  <2> SUFFICES ASSUME HttpInv, result.kind = "ok"
               PROVE  \/ result.body = Payload(response)
                      \/ /\ IsPrefix(result.body, Payload(response))
                         /\ ~response.chunked
                         /\ closes /\ sent # Wire(response)
    BY DEF BodyIsWhatWasSent
  <2>1. result # Pending /\ result # Failed /\ result # TimedOut /\ \A b : Ok(b).body = b
    BY DEF Pending, Failed, TimedOut, Ok
  <2>2. CASE result = Ok(Payload(response))
    BY <2>1, <2>2
  <2>3. ASSUME NEW body, result = Ok(body), Begun(body, Payload(response)),
               ~response.chunked /\ closes /\ sent # Wire(response)
        PROVE  IsPrefix(result.body, Payload(response))
    <3>1. body \in Seq(Byte) /\ Payload(response) \in Seq(Byte) /\ result.body = body
      BY <2>1, <2>3 DEF Begun
    <3> QED
      BY <2>3, <3>1, BegunIsPrefix
  <2> QED
    BY <2>1, <2>2, <2>3, ResultCases
<1> QED
  BY <1>1, HttpInvariant, PTL

(* An error has a cause on the wire, and a response that says where it ends *)
(* is answered as soon as that much of it has come.  (http.rs:176-201.)     *)
THEOREM WholeAnswered == HttpSpec => []WholeResponsesAreAnswered
<1>1. HttpInv => WholeResponsesAreAnswered
  <2> SUFFICES ASSUME HttpInv PROVE WholeResponsesAreAnswered
    OBVIOUS
  <2>1. /\ Pending.kind # "error" /\ TimedOut.kind # "error" /\ \A b : Ok(b).kind # "error"
        /\ Failed # Pending /\ TimedOut # Pending /\ \A b : Ok(b) # Pending
    BY DEF Pending, Failed, TimedOut, Ok
  <2>2. result.kind = "error" =>
           broken \/ ~WellFormed(response) \/ (closes /\ sent # Wire(response))
    BY <2>1, ResultCases
  <2>3. ASSUME result = Pending, WellFormed(response), SaysItsEnd(response)
        PROVE  Len(raw) < LastByte(response)
    <3>1. ResultFor(response, raw) = Pending
      BY <2>1, <2>3, ResultCases
    <3>2. response \in Response /\ Begun(raw, Wire(response))
      <4>1. Begun(raw, sent) /\ Begun(sent, Wire(response)) /\ response \in Response
        BY DEF HttpInv
      <4> QED
        BY <4>1, BegunTrans
    <3>3. Length(raw) < LastByte(response)
      BY <2>3, <3>1, <3>2, ResultForIs
    <3> QED
      BY <3>3, Zenon DEF Length
  <2> QED
    BY <2>2, <2>3 DEF WholeResponsesAreAnswered
<1> QED
  BY <1>1, HttpInvariant, PTL

(* The outcome as a function of the result and the response.                *)
OutcomeFor(res, r) ==
    IF res.kind = "none" THEN "pending"
    ELSE IF res.kind = "ok" /\ r.status = 200 /\ r.json /\ res.body = Payload(r) THEN "found"
    ELSE "missed"

(* Where the variables have their types, it is the outcome of the call.     *)
LEMMA OutcomeIs ==
    ASSUME HttpTypeOK
    PROVE  Outcome = OutcomeFor(result, response)
<1>1. result.kind \in {"none", "ok", "error", "timeout"}
  BY DEF HttpTypeOK
<1>2. CASE result.kind = "none"
  <2>1. Outcome = "pending"
    BY <1>2, Zenon DEF Outcome
  <2> QED
    BY <1>2, <2>1 DEF OutcomeFor
<1>3. CASE result.kind = "ok"
  <2>1. Outcome = IF response.status = 200 /\ IsDocument(result.body) THEN "found" ELSE "missed"
    BY <1>3, Zenon DEF Outcome
  <2> QED
    BY <1>3, <2>1 DEF OutcomeFor, IsDocument
<1>4. CASE result.kind \in {"error", "timeout"}
  <2>1. Outcome = "missed"
    BY <1>4, Zenon DEF Outcome
  <2> QED
    BY <1>4, <2>1 DEF OutcomeFor
<1> QED
  BY <1>1, <1>2, <1>3, <1>4

(* And it is so after a step.                                               *)
LEMMA OutcomeNext ==
    ASSUME HttpTypeOK'
    PROVE  Outcome' = OutcomeFor(result', response')
<1>1. result'.kind \in {"none", "ok", "error", "timeout"}
  BY DEF HttpTypeOK
<1>2. CASE result'.kind = "none"
  <2>1. Outcome' = "pending"
    BY <1>2, Zenon DEF Outcome
  <2> QED
    BY <1>2, <2>1 DEF OutcomeFor
<1>3. CASE result'.kind = "ok"
  <2>1. Outcome' = IF response'.status = 200 /\ IsDocument(result.body)'
                   THEN "found" ELSE "missed"
    BY <1>3, Zenon DEF Outcome
  <2> QED
    BY <1>3, <2>1 DEF OutcomeFor, IsDocument
<1>4. CASE result'.kind \in {"error", "timeout"}
  <2>1. Outcome' = "missed"
    BY <1>4, Zenon DEF Outcome
  <2> QED
    BY <1>4, <2>1 DEF OutcomeFor
<1> QED
  BY <1>1, <1>2, <1>3, <1>4

(* A result is one of four.                                                *)
ResultKinds == result \in {Pending, Failed, TimedOut} \/ result = Ok(result.body)

(* The invariant knows no other.                                            *)
LEMMA InvImpliesKinds ==
    ASSUME HttpInv
    PROVE  ResultKinds
<1>1. \A body : Ok(body).body = body
  BY DEF Ok
<1> QED
  BY <1>1, ResultCases DEF ResultKinds

(* In sum a call implements the call that a caller may count on, but for   *)
(* its liveness: it finds the document of an issuer that has one to give,  *)
(* or misses, and it ends once.  (source.rs:155-178; http.rs:217-219.)     *)
THEOREM HttpImplementsCall ==
    HttpSpec => Call!CallInit /\ [][Call!CallNext]_(Call!callVars)
<1> DEFINE worth == response.status = 200 /\ response.json
           seen == <<Outcome, waited, worth>>
           TypedKinds == HttpTypeOK /\ ResultKinds
<1>1. HttpInit => Call!CallInit
  <2> SUFFICES ASSUME HttpInit PROVE Call!CallInit
    OBVIOUS
  <2>1. result = Pending /\ waited = 0 /\ worth \in BOOLEAN
    BY ResponseFacts DEF HttpInit
  <2>2. Outcome = "pending"
    BY <2>1, InvInit, InvImpliesType, OutcomeIs DEF OutcomeFor, Pending
  <2> QED
    BY <2>1, <2>2 DEF Call!CallInit
<1>2. TypedKinds /\ TypedKinds' /\ [HttpNext]_httpVars => [Call!CallNext]_(Call!callVars)
  <2> SUFFICES ASSUME TypedKinds, TypedKinds', [HttpNext]_httpVars
               PROVE  Call!CallNext \/ UNCHANGED seen
    BY DEF Call!callVars
  <2>1. Outcome = OutcomeFor(result, response) /\ Outcome' = OutcomeFor(result', response')
    BY OutcomeIs, OutcomeNext
  <2>2. /\ \A r : OutcomeFor(Pending, r) = "pending" /\ OutcomeFor(Failed, r) = "missed"
        /\ \A r : OutcomeFor(TimedOut, r) = "missed"
        /\ \A r, b : \/ OutcomeFor(Ok(b), r) = "missed"
                     \/ OutcomeFor(Ok(b), r) = "found" /\ r.status = 200 /\ r.json
    BY DEF OutcomeFor, Pending, Failed, TimedOut, Ok
  <2>3. ASSUME result = Pending, UNCHANGED <<response, waited>>
        PROVE  Call!CallNext \/ UNCHANGED seen
    <3>1. UNCHANGED <<waited, worth>> /\ Outcome = "pending"
      BY <2>1, <2>2, <2>3
    <3>2. result' \in {Pending, Failed, TimedOut} \/ \E body : result' = Ok(body)
      BY DEF ResultKinds
    <3> QED
      BY <2>1, <2>2, <2>3, <3>1, <3>2 DEF Call!CallNext, Call!Find, Call!Miss
  <2>4. CASE Waits
    <3>1. Outcome = "pending" /\ Outcome' = "pending" /\ worth' = worth
      BY <2>1, <2>2, <2>4 DEF Waits
    <3> QED
      BY <2>4, <3>1 DEF Waits, Call!CallNext, Call!Grow
  <2>5. CASE Breaks \/ (\E n \in 1..ReadSize : Receive(n)) \/ StreamEnds \/ TimesOut
    <3>1. result = Pending /\ UNCHANGED <<response, waited>>
      BY <2>5 DEF Breaks, Receive, StreamEnds, TimesOut
    <3> QED
      BY <2>3, <3>1
  <2>6. CASE UNCHANGED httpVars
    <3>1. UNCHANGED <<result, response, waited>>
      BY <2>6 DEF httpVars
    <3> QED
      BY <2>1, <3>1
  <2> QED
    BY <2>4, <2>5, <2>6 DEF HttpNext
<1>3. HttpInv => TypedKinds
  BY InvImpliesType, InvImpliesKinds
<1> QED
  BY <1>1, <1>2, <1>3, HttpInvariant, PTL DEF HttpSpec, Call!callVars
=============================================================================
