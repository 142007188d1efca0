---------------------------- MODULE PartFileProofs ----------------------------
(***************************************************************************)
(* Theorems about the bytes on their way to the finished file: a chunk     *)
(* fetched into the part file (ChunkFetch), the threads that write it      *)
(* (SparseFile), the staged chunks assembled in order (FileAssembly), and  *)
(* the tree of digests that a manifest is checked against (MerkleTree), for*)
(* files, chunks, buffers, trees and numbers of threads of any size.       *)
(***************************************************************************)
EXTENDS ChunkFetch, SparseFile, FileAssembly, MerkleTree, DataLemmas, SequenceTheorems, TLAPS

-----------------------------------------------------------------------------
(* One chunk: the inductive invariant *)

\* What left the buffer is on disk at its offset, and the prefix that an
\* attempt does not ask for is a number of whole sub-blocks.
AttemptInv ==
    /\ PrefixIsVerified
    /\ prefix < Size /\ \E k \in Nat : prefix = k * SubBlock
    /\ fetchPc \in {"idle", "reading"} => retries < FetchAttempts
    /\ fetchPc = "reading" =>
           /\ resumeAt = prefix
           /\ \A i \in 1..flushed : disk[resumeAt + i - 1] = stream[i]
           /\ manifest = "blocks" => BadBlocks(stream) = {}

FetchInv == FetchTypeOK /\ AttemptInv /\ DigestIsOfTheChunk

LEMMA DivBelow ==
    ASSUME NEW n \in Nat \ {0}, NEW x \in Nat, NEW b \in Nat, x < b * n
    PROVE  x \div n \in Nat /\ x \div n < b
<1>1. x = n * (x \div n) + (x % n) /\ x % n \in 0..(n - 1) /\ x \div n \in Nat
  OBVIOUS
<1>2. SUFFICES ASSUME x \div n >= b PROVE FALSE
  BY <1>1
<1>. DEFINE q == x \div n
<1>3. n * q >= n * b
  <2>1. q \in Nat /\ q >= b
    BY <1>1, <1>2
  <2>. HIDE DEF q
  <2>2. \A r, c \in Nat : r >= c => n * r >= n * c
    OBVIOUS
  <2>. QED  BY <2>1, <2>2
<1>4. n * b = b * n
  OBVIOUS
<1>. QED  BY <1>1, <1>3, <1>4

LEMMA DivExact ==
    ASSUME NEW n \in Nat \ {0}, NEW k \in Nat
    PROVE  (k * n) \div n = k
<1>1. (k * n) \in Nat /\ k * n = n * ((k * n) \div n) + ((k * n) % n)
      /\ (k * n) % n \in 0..(n - 1) /\ (k * n) \div n \in Nat
  OBVIOUS
<1>. DEFINE q == (k * n) \div n
<1>2. \A r \in Nat : r >= k + 1 => n * r >= n * k + n
  OBVIOUS
<1>3. \A r \in Nat : k >= r + 1 => n * k >= n * r + n
  OBVIOUS
<1>4. k * n = n * k
  OBVIOUS
<1>5. q \in Nat /\ n * k = n * q + ((k * n) % n) /\ (k * n) % n \in 0..(n - 1)
  BY <1>1, <1>4
<1>6. n * q \in Nat /\ n * k \in Nat
  BY <1>5
<1>. HIDE DEF q
<1>7. ~(q >= k + 1)
  BY <1>2, <1>5, <1>6
<1>8. ~(k >= q + 1)
  BY <1>3, <1>5, <1>6
<1>. QED  BY <1>5, <1>7, <1>8 DEF q

\* The units of the blocks before the first bad one are good.
LEMMA BlocksBefore ==
    ASSUME NEW s \in Seq({"good", "bad"}), NEW b \in Nat,
           b * SubBlock =< Len(s), \A c \in 0..(b - 1) : ~BlockIsBad(s, c)
    PROVE  \A i \in 1..(b * SubBlock) : s[i] = "good"
<1>. USE FetchAssumption
<1>1. TAKE i \in 1..(b * SubBlock)
<1>2. b * SubBlock \in Nat /\ i \in 1..Len(s) /\ i - 1 \in Nat /\ i - 1 < b * SubBlock
  OBVIOUS
<1>3. (i - 1) \div SubBlock \in 0..(b - 1)
  <2>. DEFINE x == i - 1
  <2>1. x \in Nat /\ x < b * SubBlock /\ SubBlock \in Nat \ {0}
    BY <1>2
  <2>. HIDE DEF x
  <2>2. x \div SubBlock \in Nat /\ x \div SubBlock < b
    BY <2>1, DivBelow
  <2>3. x \div SubBlock \in 0..(b - 1)
    BY <2>2
  <2>. QED  BY <2>3 DEF x
<1>. QED  BY <1>2, <1>3 DEF BlockIsBad, BlockOf

LEMMA WrittenType ==
    ASSUME FetchTypeOK, NEW s \in Seq({"good", "bad"}), NEW n \in Nat, n =< Len(s)
    PROVE  Written(s, n) \in [Units -> {"hole", "good", "bad"}]
<1>. USE FetchAssumption DEF FetchTypeOK
<1>1. ASSUME NEW u \in Units, u - resumeAt \in flushed..(n - 1)
      PROVE  s[u - resumeAt + 1] \in {"good", "bad"}
  <2>1. u - resumeAt + 1 \in 1..Len(s)
    BY <1>1 DEF Units
  <2>. QED  BY <2>1, ElementOfSeq
<1>. QED  BY <1>1 DEF Written

\* Once all of s is written, every unit of it is on disk at its offset, and
\* what is before it is as it was.
LEMMA WrittenLands ==
    ASSUME FetchTypeOK, NEW s \in Seq({"good", "bad"}), resumeAt + Len(s) =< Size,
           flushed =< Len(s), \A i \in 1..flushed : disk[resumeAt + i - 1] = s[i]
    PROVE  /\ \A i \in 1..Len(s) : Written(s, Len(s))[resumeAt + i - 1] = s[i]
           /\ \A u \in Units : u < resumeAt => Written(s, Len(s))[u] = disk[u]
<1>. USE FetchAssumption DEF FetchTypeOK
<1>1. Len(s) \in Nat
  OBVIOUS
<1>2. ASSUME NEW i \in 1..Len(s) PROVE Written(s, Len(s))[resumeAt + i - 1] = s[i]
  <2>. DEFINE u == resumeAt + i - 1
  <2>1. u \in Units /\ u - resumeAt = i - 1 /\ u - resumeAt + 1 = i
    BY <1>1 DEF Units
  <2>2. CASE i =< flushed
    <3>1. ~(u - resumeAt \in flushed..(Len(s) - 1)) /\ i \in 1..flushed
      BY <1>1, <2>1, <2>2
    <3>. QED  BY <2>1, <3>1 DEF Written
  <2>3. CASE i > flushed
    <3>1. u - resumeAt \in flushed..(Len(s) - 1)
      BY <1>1, <2>1, <2>3
    <3>. QED  BY <2>1, <3>1 DEF Written
  <2>. QED  BY <2>2, <2>3
<1>3. ASSUME NEW u \in Units, u < resumeAt PROVE Written(s, Len(s))[u] = disk[u]
  BY <1>1, <1>3 DEF Written, Units
<1>. QED  BY <1>2, <1>3

\* A prefix recorded after block b failed is good on the disk that was written.
LEMMA PrefixLemma ==
    ASSUME FetchInv, fetchPc = "reading", NEW s \in Seq({"good", "bad"}),
           resumeAt + Len(s) =< Size, flushed =< Len(s),
           \A i \in 1..flushed : disk[resumeAt + i - 1] = s[i],
           NEW b \in Nat, b * SubBlock < Len(s), \A c \in 0..(b - 1) : ~BlockIsBad(s, c)
    PROVE  /\ PrefixAfter(b) \in 0..Size /\ PrefixAfter(b) < Size
           /\ \E k \in Nat : PrefixAfter(b) = k * SubBlock
           /\ \A u \in Units : u < PrefixAfter(b) => Written(s, Len(s))[u] = "good"
<1>. USE FetchAssumption
<1>1. PICK k \in Nat : prefix = k * SubBlock
  BY DEF FetchInv, AttemptInv
<1>2. prefix \div SubBlock = k
  BY <1>1, DivExact
<1>3. /\ prefix \in 0..Size /\ resumeAt = prefix /\ Len(s) \in Nat
      /\ \A u \in Units : u < prefix => disk[u] = "good"
  BY DEF FetchInv, AttemptInv, FetchTypeOK, PrefixIsVerified
<1>4. (k + b) * SubBlock = prefix + b * SubBlock /\ b * SubBlock \in Nat
  BY <1>1
<1>5. prefix + b * SubBlock < Size
  BY <1>3, <1>4
<1>6. PrefixAfter(b) = IF b * SubBlock = 0 THEN 0 ELSE prefix + b * SubBlock
  BY <1>2, <1>3, <1>4, <1>5 DEF PrefixAfter
<1>7. \A i \in 1..(b * SubBlock) : s[i] = "good"
  BY <1>3, <1>4, BlocksBefore
<1>8. /\ \A i \in 1..Len(s) : Written(s, Len(s))[resumeAt + i - 1] = s[i]
      /\ \A u \in Units : u < resumeAt => Written(s, Len(s))[u] = disk[u]
  BY WrittenLands DEF FetchInv
<1>9. ASSUME NEW u \in Units, u < prefix + b * SubBlock PROVE Written(s, Len(s))[u] = "good"
  <2>1. CASE u < prefix
    BY <1>3, <1>8, <2>1
  <2>2. CASE u >= prefix
    <3>. DEFINE i == u - prefix + 1
    <3>1. i \in 1..(b * SubBlock) /\ i \in 1..Len(s) /\ resumeAt + i - 1 = u
      BY <1>3, <1>4, <1>9, <2>2 DEF Units
    <3>. HIDE DEF i
    <3>. QED  BY <1>7, <1>8, <3>1
  <2>. QED  BY <1>3, <2>1, <2>2 DEF Units
<1>10. \E j \in Nat : PrefixAfter(b) = j * SubBlock
  <2>1. CASE b * SubBlock = 0
    <3>1. PrefixAfter(b) = 0 * SubBlock
      BY <1>6, <2>1
    <3>. QED  BY <3>1
  <2>2. CASE b * SubBlock # 0
    <3>1. PrefixAfter(b) = (k + b) * SubBlock /\ k + b \in Nat
      BY <1>4, <1>6, <2>2
    <3>. QED  BY <3>1
  <2>. QED  BY <2>1, <2>2
<1>11. ASSUME NEW u \in Units, u < PrefixAfter(b) PROVE Written(s, Len(s))[u] = "good"
  BY <1>4, <1>6, <1>9, <1>11 DEF Units
<1>. QED  BY <1>3, <1>4, <1>5, <1>6, <1>10, <1>11

\* A failed attempt keeps the invariant if the prefix it leaves is good on disk.
LEMMA AttemptedKeeps ==
    ASSUME FetchInv, fetchPc = "reading", NEW retryable \in BOOLEAN,
           NEW known \in 0..Size, known < Size, \E k \in Nat : known = k * SubBlock,
           Attempted(retryable, known), disk' \in [Units -> {"hole", "good", "bad"}],
           \A u \in Units : u < known => disk'[u] = "good"
    PROVE  FetchInv'
<1>. USE FetchAssumption
<1>1. /\ prefix' = known /\ retries' = retries + 1 /\ retries' \in 0..FetchAttempts
      /\ fetchPc' \in {"idle", "abandoned"} /\ (fetchPc' = "idle" => retries' < FetchAttempts)
      /\ stream' = <<>> /\ flushed' = 0 /\ UNCHANGED <<manifest, resumeAt, digestOf>>
  BY DEF Attempted, FetchInv, FetchTypeOK, AttemptInv
<1>2. FetchTypeOK'
  BY <1>1 DEF FetchInv, FetchTypeOK, Units
<1>. QED  BY <1>1, <1>2 DEF FetchInv, AttemptInv, PrefixIsVerified, DigestIsOfTheChunk, Units

LEMMA AttemptedFromZero ==
    ASSUME FetchInv, fetchPc = "reading", NEW retryable \in BOOLEAN,
           Attempted(retryable, 0), disk' \in [Units -> {"hole", "good", "bad"}]
    PROVE  FetchInv'
<1>1. 0 \in 0..Size /\ 0 < Size /\ 0 = 0 * SubBlock /\ \A u \in Units : ~(u < 0)
  BY FetchAssumption DEF Units
<1>2. \E k \in Nat : 0 = k * SubBlock
  BY <1>1
<1>. QED  BY <1>1, <1>2, AttemptedKeeps

LEMMA WriteFailsKeeps ==
    ASSUME FetchInv, fetchPc = "reading", NEW s \in Seq({"good", "bad"}), WriteFails(s)
    PROVE  FetchInv'
<1>1. PICK n \in flushed..(Len(s) - 1) : disk' = Written(s, n)
  BY DEF WriteFails
<1>2. disk' \in [Units -> {"hole", "good", "bad"}]
  BY <1>1, WrittenType DEF FetchInv, FetchTypeOK
<1>. QED  BY <1>2, AttemptedFromZero DEF WriteFails

\* What a piece makes of the stream.
LEMMA PieceArrives ==
    ASSUME FetchInv, NEW piece \in Pieces, Arrives(piece)
    PROVE  /\ stream \o piece \in Seq({"good", "bad"})
           /\ Len(stream \o piece) = Len(stream) + Len(piece)
           /\ resumeAt + Len(stream \o piece) =< Size
           /\ flushed =< Len(stream \o piece)
           /\ \A i \in 1..flushed : disk[resumeAt + i - 1] = (stream \o piece)[i]
<1>. USE FetchAssumption
<1>1. PICK n \in 1..MaxPiece : piece \in [1..n -> {"good", "bad"}]
  BY DEF Pieces
<1>2. piece \in Seq({"good", "bad"}) /\ Len(piece) = n
  <2>1. piece \in Seq({"good", "bad"})
    BY <1>1, SeqDef
  <2>. QED  BY <1>1, <2>1, LenProperties
<1>3. /\ stream \in Seq({"good", "bad"}) /\ Len(stream) \in Nat /\ flushed \in 0..Len(stream)
      /\ resumeAt \in 0..Size
  BY DEF FetchInv, FetchTypeOK
<1>4. /\ stream \o piece \in Seq({"good", "bad"})
      /\ Len(stream \o piece) = Len(stream) + Len(piece)
      /\ \A i \in 1..Len(stream) : (stream \o piece)[i] = stream[i]
  <2>1. piece \in Seq({"good", "bad"}) /\ stream \in Seq({"good", "bad"})
    BY <1>2, <1>3
  <2>. QED  BY <2>1, ConcatProperties
<1>. QED  BY <1>2, <1>3, <1>4 DEF Arrives, FetchInv, AttemptInv

LEMMA FetchInitInv == FetchInit => FetchInv
<1>. SUFFICES ASSUME FetchInit PROVE FetchInv
  OBVIOUS
<1>. USE FetchAssumption
<1>1. FetchTypeOK
  BY DEF FetchInit, FetchTypeOK
<1>2. 0 = 0 * SubBlock /\ \A u \in Units : ~(u < 0)
  BY DEF Units
<1>. QED
  BY <1>1, <1>2 DEF FetchInit, FetchInv, AttemptInv, PrefixIsVerified, DigestIsOfTheChunk

\* The least of the bad blocks has none before it.
LEMMA LeastBad ==
    ASSUME NEW s \in Seq({"good", "bad"}), NEW b \in BadBlocks(s),
           \A c \in BadBlocks(s) : b =< c
    PROVE  b \in Nat /\ b * SubBlock < Len(s) /\ \A c \in 0..(b - 1) : ~BlockIsBad(s, c)
<1>. USE FetchAssumption
<1>1. /\ b \in 0..(Len(s) \div SubBlock - 1) /\ Len(s) \in Nat
      /\ Len(s) \div SubBlock \in Nat
  BY DEF BadBlocks
<1>. DEFINE q == Len(s) \div SubBlock
<1>2. Len(s) >= q * SubBlock
  <2>1. Len(s) = SubBlock * q + (Len(s) % SubBlock) /\ Len(s) % SubBlock >= 0
    BY <1>1
  <2>. QED  BY <1>1, <2>1
<1>3. b \in Nat /\ q \in Nat /\ b + 1 =< q
  BY <1>1
<1>. HIDE DEF q
<1>4. \A r, c \in Nat : c + 1 =< r => c * SubBlock + SubBlock =< r * SubBlock
  OBVIOUS
<1>5. b * SubBlock + SubBlock =< q * SubBlock /\ b * SubBlock \in Nat /\ q * SubBlock \in Nat
  BY <1>3, <1>4
<1>6. b * SubBlock < Len(s)
  BY <1>1, <1>2, <1>5
<1>7. ASSUME NEW c \in 0..(b - 1) PROVE ~BlockIsBad(s, c)
  BY <1>1, <1>3, <1>7 DEF BadBlocks
<1>. QED  BY <1>3, <1>6, <1>7

LEMMA BadBlockStep ==
    ASSUME FetchInv, NEW piece \in Pieces, BadBlock(piece)
    PROVE  FetchInv'
<1>. DEFINE s == stream \o piece
<1>1. fetchPc = "reading" /\ Arrives(piece)
  BY DEF BadBlock, Arrives
<1>2. /\ s \in Seq({"good", "bad"}) /\ resumeAt + Len(s) =< Size /\ flushed =< Len(s)
      /\ \A i \in 1..flushed : disk[resumeAt + i - 1] = s[i]
  BY <1>1, PieceArrives
<1>3. CASE WriteFails(s)
  <2>. HIDE DEF s
  <2>. QED  BY <1>1, <1>2, <1>3, WriteFailsKeeps
<1>4. ASSUME NEW b \in BadBlocks(s), \A c \in BadBlocks(s) : b =< c,
             disk' = Written(s, Len(s)), Attempted(TRUE, PrefixAfter(b))
      PROVE  FetchInv'
  <2>. HIDE DEF s
  <2>1. b \in Nat /\ b * SubBlock < Len(s) /\ \A c \in 0..(b - 1) : ~BlockIsBad(s, c)
    BY <1>2, <1>4, LeastBad
  <2>2. /\ PrefixAfter(b) \in 0..Size /\ PrefixAfter(b) < Size
        /\ \E k \in Nat : PrefixAfter(b) = k * SubBlock
        /\ \A u \in Units : u < PrefixAfter(b) => Written(s, Len(s))[u] = "good"
    BY <1>1, <1>2, <2>1, PrefixLemma
  <2>3. disk' \in [Units -> {"hole", "good", "bad"}]
    BY <1>2, <1>4, WrittenType DEF FetchInv
  <2>. QED  BY <1>1, <1>4, <2>2, <2>3, AttemptedKeeps
<1>. QED  BY <1>3, <1>4 DEF BadBlock

LEMMA PieceStep ==
    ASSUME FetchInv, NEW piece \in Pieces, Piece(piece)
    PROVE  FetchInv'
<1>. DEFINE s == stream \o piece
<1>. USE FetchAssumption
<1>1. fetchPc = "reading" /\ Arrives(piece) /\ (manifest = "blocks" => BadBlocks(s) = {})
  BY DEF Piece, Arrives
<1>2. /\ s \in Seq({"good", "bad"}) /\ resumeAt + Len(s) =< Size /\ flushed =< Len(s)
      /\ \A i \in 1..flushed : disk[resumeAt + i - 1] = s[i] /\ Len(s) \in Nat
  <2>1. s \in Seq({"good", "bad"}) /\ resumeAt + Len(s) =< Size /\ flushed =< Len(s)
        /\ \A i \in 1..flushed : disk[resumeAt + i - 1] = s[i]
    BY <1>1, PieceArrives
  <2>. HIDE DEF s
  <2>. QED  BY <2>1
<1>3. CASE WriteFails(s)
  <2>. HIDE DEF s
  <2>. QED  BY <1>1, <1>2, <1>3, WriteFailsKeeps
<1>4. CASE /\ stream' = s
           /\ UNCHANGED <<manifest, disk, fetchPc, prefix, resumeAt, flushed, retries, digestOf>>
  <2>. HIDE DEF s
  <2>1. FetchTypeOK'
    BY <1>2, <1>4 DEF FetchInv, FetchTypeOK
  <2>2. AttemptInv'
    BY <1>1, <1>2, <1>4 DEF FetchInv, AttemptInv, PrefixIsVerified, BadBlocks, BlockIsBad, BlockOf
  <2>. QED  BY <1>1, <1>4, <2>1, <2>2 DEF FetchInv, DigestIsOfTheChunk
<1>5. CASE /\ stream' = s /\ flushed' = Len(s) /\ disk' = Written(s, Len(s))
           /\ UNCHANGED <<manifest, fetchPc, prefix, resumeAt, retries, digestOf>>
  <2>. HIDE DEF s
  <2>1. disk' \in [Units -> {"hole", "good", "bad"}]
    BY <1>2, <1>5, WrittenType DEF FetchInv
  <2>2. /\ \A i \in 1..Len(s) : disk'[resumeAt + i - 1] = s[i]
        /\ \A u \in Units : u < resumeAt => disk'[u] = disk[u]
    BY <1>2, <1>5, WrittenLands DEF FetchInv
  <2>3. FetchTypeOK'
    BY <1>2, <1>5, <2>1 DEF FetchInv, FetchTypeOK
  <2>4. PrefixIsVerified'
    BY <1>1, <1>5, <2>2 DEF FetchInv, AttemptInv, PrefixIsVerified
  <2>5. AttemptInv'
    <3>1. \A i \in 1..flushed' : disk'[resumeAt' + i - 1] = stream'[i]
      BY <1>5, <2>2
    <3>2. (manifest' = "blocks") => BadBlocks(stream') = {}
      BY <1>1, <1>5
    <3>. QED  BY <1>1, <1>5, <2>4, <3>1, <3>2 DEF FetchInv, AttemptInv
  <2>. QED  BY <1>1, <1>5, <2>3, <2>5 DEF FetchInv, DigestIsOfTheChunk
<1>. QED  BY <1>3, <1>4, <1>5 DEF Piece

LEMMA EndedStep ==
    ASSUME FetchInv, Ended
    PROVE  FetchInv'
<1>. USE FetchAssumption
<1>1. /\ fetchPc = "reading" /\ stream \in Seq({"good", "bad"}) /\ Len(stream) \in Nat
      /\ resumeAt \in 0..Size /\ resumeAt + Len(stream) =< Size /\ flushed \in 0..Len(stream)
      /\ \A i \in 1..flushed : disk[resumeAt + i - 1] = stream[i]
      /\ (manifest = "blocks" => BadBlocks(stream) = {})
  BY DEF Ended, FetchInv, FetchTypeOK, AttemptInv
<1>. DEFINE w == Written(stream, Len(stream))
<1>2. w \in [Units -> {"hole", "good", "bad"}]
  BY <1>1, WrittenType DEF FetchInv
<1>3. /\ \A i \in 1..Len(stream) : w[resumeAt + i - 1] = stream[i]
      /\ \A u \in Units : u < resumeAt => w[u] = disk[u]
  <2>1. FetchTypeOK /\ stream \in Seq({"good", "bad"}) /\ resumeAt + Len(stream) =< Size
        /\ flushed =< Len(stream) /\ \A i \in 1..flushed : disk[resumeAt + i - 1] = stream[i]
    BY <1>1 DEF FetchInv
  <2>. HIDE FetchAssumption
  <2>. QED  BY <2>1, WrittenLands
<1>4. CASE WriteFails(stream)
  BY <1>1, <1>4, WriteFailsKeeps
<1>5. CASE disk' = w /\ Attempted(TRUE, 0)
  BY <1>1, <1>2, <1>5, AttemptedFromZero
<1>6. CASE /\ disk' = w /\ manifest = "blocks" /\ TrailingIsBad
           /\ Attempted(TRUE, PrefixAfter(Len(stream) \div SubBlock))
  <2>. DEFINE b == Len(stream) \div SubBlock
  <2>1. b \in Nat /\ b * SubBlock < Len(stream)
    <3>1. /\ Len(stream) = SubBlock * b + (Len(stream) % SubBlock) /\ b \in Nat
          /\ Len(stream) % SubBlock \in Nat
      BY <1>1
    <3>2. Len(stream) % SubBlock # 0
      BY <1>6 DEF TrailingIsBad
    <3>. HIDE DEF b
    <3>3. SubBlock * b = b * SubBlock /\ b * SubBlock \in Nat
      BY <3>1
    <3>. QED  BY <3>1, <3>2, <3>3
  <2>2. \A c \in 0..(b - 1) : ~BlockIsBad(stream, c)
    BY <1>1, <1>6 DEF BadBlocks
  <2>. HIDE DEF b
  <2>3. /\ PrefixAfter(b) \in 0..Size /\ PrefixAfter(b) < Size
        /\ \E k \in Nat : PrefixAfter(b) = k * SubBlock
        /\ \A u \in Units : u < PrefixAfter(b) => w[u] = "good"
    <3>1. /\ stream \in Seq({"good", "bad"}) /\ resumeAt + Len(stream) =< Size
          /\ flushed =< Len(stream) /\ fetchPc = "reading"
          /\ \A i \in 1..flushed : disk[resumeAt + i - 1] = stream[i]
      BY <1>1
    <3>. HIDE FetchAssumption
    <3>. QED  BY <3>1, <2>1, <2>2, PrefixLemma
  <2>4. Attempted(TRUE, PrefixAfter(b)) /\ disk' = w
    BY <1>6 DEF b
  <2>. HIDE DEF w
  <2>. QED  BY <1>1, <1>2, <2>3, <2>4, AttemptedKeeps
<1>7. CASE /\ disk' = w /\ resumeAt + Len(stream) = Size
           /\ manifest = "none" \/ Good(Digested)
           /\ fetchPc' = "done"
           /\ digestOf' = Digested
           /\ prefix' = 0 /\ stream' = <<>> /\ flushed' = 0
           /\ UNCHANGED <<manifest, resumeAt, retries>>
  <2>. DEFINE d == [i \in 1..Size |-> w[i - 1]]
  <2>1. d \in Seq({"hole", "good", "bad"}) /\ Len(d) = Size
    <3>1. \A i \in 1..Size : w[i - 1] \in {"hole", "good", "bad"}
      BY <1>2 DEF Units
    <3>. HIDE DEF w
    <3>2. d \in [1..Size -> {"hole", "good", "bad"}]
      BY <3>1
    <3>3. d \in Seq({"hole", "good", "bad"})
      BY <3>2, SeqDef
    <3>. QED  BY <3>2, <3>3, LenProperties
  <2>2. Digested = d
    <3>1. CASE resumeAt > 0
      BY <3>1 DEF Digested
    <3>2. CASE resumeAt = 0
      <4>1. Len(stream) = Size /\ \A i \in 1..Size : w[i - 1] = stream[i]
        BY <1>1, <1>3, <1>7, <3>2
      <4>2. stream \in [1..Size -> {"good", "bad"}]
        BY <1>1, <4>1, LenProperties
      <4>3. stream = d
        BY <4>1, <4>2
      <4>. QED  BY <3>2, <4>3 DEF Digested
    <3>. QED  BY <1>1, <3>1, <3>2
  <2>3. manifest # "none" => \A u \in Units : w[u] = "good"
    <3>1. ASSUME manifest # "none", NEW u \in Units PROVE w[u] = "good"
      <4>1. u + 1 \in 1..Size /\ (u + 1) - 1 = u
        BY DEF Units
      <4>2. Good(d)
        BY <1>7, <2>2, <3>1
      <4>3. d[u + 1] = "good"
        <5>. HIDE DEF d
        <5>. QED  BY <2>1, <4>1, <4>2 DEF Good
      <4>. QED  BY <4>1, <4>3
    <3>. QED  BY <3>1
  <2>. HIDE DEF w
  <2>4. FetchTypeOK'
    BY <1>2, <1>7, <2>1, <2>2 DEF FetchInv, FetchTypeOK
  <2>5. AttemptInv'
    <3>1. 0 = 0 * SubBlock /\ \A u \in Units : ~(u < 0)
      BY DEF Units
    <3>. QED  BY <1>7, <3>1 DEF AttemptInv, PrefixIsVerified, Units
  <2>. QED  BY <1>7, <2>2, <2>3, <2>4, <2>5 DEF FetchInv, DigestIsOfTheChunk, Units
<1>. QED  BY <1>4, <1>5, <1>6, <1>7 DEF Ended

LEMMA FetchStep == FetchInv /\ [FetchNext]_fetchVars => FetchInv'
<1>. SUFFICES ASSUME FetchInv, [FetchNext]_fetchVars PROVE FetchInv'
  OBVIOUS
<1>. USE FetchAssumption
<1>1. CASE Request
  BY <1>1 DEF Request, FetchInv, FetchTypeOK, AttemptInv, PrefixIsVerified, DigestIsOfTheChunk,
              BadBlocks, BlockIsBad, BlockOf, Units
<1>2. CASE Refused \/ Broken \/ TooLong
  <2>1. fetchPc = "reading" /\ disk' = disk /\ \E retryable \in BOOLEAN : Attempted(retryable, 0)
    BY <1>2 DEF Refused, Broken, TooLong
  <2>. QED  BY <2>1, AttemptedFromZero DEF FetchInv, FetchTypeOK
<1>3. CASE Ended
  BY <1>3, EndedStep
<1>4. ASSUME NEW piece \in Pieces, BadBlock(piece) \/ Piece(piece) PROVE FetchInv'
  BY <1>4, BadBlockStep, PieceStep
<1>5. CASE UNCHANGED fetchVars
  <2>1. FetchTypeOK'
    BY <1>5 DEF fetchVars, FetchInv, FetchTypeOK
  <2>2. AttemptInv'
    BY <1>5 DEF fetchVars, FetchInv, AttemptInv, PrefixIsVerified
  <2>3. DigestIsOfTheChunk'
    BY <1>5 DEF fetchVars, FetchInv, DigestIsOfTheChunk
  <2>. QED  BY <2>1, <2>2, <2>3 DEF FetchInv
<1>. QED  BY <1>1, <1>2, <1>3, <1>4, <1>5 DEF FetchNext

LEMMA FetchAlways == FetchSpec => []FetchInv
BY FetchInitInv, FetchStep, PTL DEF FetchSpec

\* The variables of _fetch_chunk keep their types: no unit is read or written
\* outside the chunk and no attempt is made beyond the budget.
THEOREM FetchTypeCorrect == FetchSpec => []FetchTypeOK
BY FetchAlways, PTL DEF FetchInv

\* The part of a chunk that _fetch_chunk does not ask for again is on disk and is
\* what the manifest says, for a sub-block, buffer and chunk of any size.
THEOREM RetriesTrustVerifiedUnits == FetchSpec => []PrefixIsVerified
BY FetchAlways, PTL DEF FetchInv, AttemptInv

\* The digest that _fetch_chunk keeps of a finished chunk is of the bytes on disk,
\* whether it was computed over the stream or, after a resume, over the file.
THEOREM DigestsAreOfTheChunk == FetchSpec => []DigestIsOfTheChunk
BY FetchAlways, PTL DEF FetchInv

-----------------------------------------------------------------------------
(* The sparse writer: the inductive invariant *)

Contents == Writers \cup {"old", "zero", "foreign"}

SparseTyped ==
    /\ SparseTypeOK
    /\ written \in [Writers -> Nat]
    /\ digested \in Seq(Contents)

\* A range is claimed once, by a thread that found the writer open.
RangesInv ==
    /\ \A t \in Writers : offset[t] + size[t] =< TotalSize
    /\ \A t, other \in Writers :
           t # other => \A u \in RangeOf(t) : u \notin RangeOf(other)
    /\ \A t \in Writers :
           /\ writerPc[t] = "idle" => size[t] = 0
           /\ writerPc[t] # "idle" => writer \in {"open", "closing", "closed"}
           /\ writerPc[t] = "called" => written[t] < size[t]
           /\ writerPc[t] = "returned" => written[t] = size[t]

\* The number names the file until close, which a write under way overtakes.
DescriptorInv ==
    /\ writer \in {"allocating", "open"} => fdIs = "file"
    /\ writer \in {"new", "closing", "closed"} => fdIs # "file"
    /\ writer \in {"closing", "closed"} => \A t \in Writers : Busy(t) => t \in raced
    /\ writer \notin {"closing", "closed"} => raced = {}

\* What a thread counts as written is there.
CellsInv ==
    /\ \A t \in Writers : \A u \in Cells : cell[u] = t => u \in RangeOf(t)
    /\ \A t \in Writers :
           t \notin raced => \A u \in offset[t]..(offset[t] + written[t] - 1) : cell[u] = t
    /\ writer \in {"open", "closing", "closed"} => fileSize >= TotalSize

\* A verification that went on while the writer closed was disturbed.
VerifyInv ==
    /\ verifyPc = "idle" => digested = <<>>
    /\ verifyPc # "idle" => writer \in {"open", "closing", "closed"}
    /\ verifyPc # "idle" /\ writer # "open" => disturbed
    /\ ~disturbed => \A i \in 1..Len(digested) : digested[i] = cell[i - 1]

SparseInv == SparseTyped /\ RangesInv /\ DescriptorInv /\ CellsInv /\ VerifyInv

LEMMA SparseInitInv == SparseInit => SparseInv
<1>. SUFFICES ASSUME SparseInit PROVE SparseInv
  OBVIOUS
<1>. USE SparseAssumption
<1>1. /\ fileSize \in 0..(TotalSize + 1)
      /\ cell \in [Cells -> {"old", "zero"}]
      /\ digested \in Seq(Contents) /\ Len(digested) = 0
  BY DEF SparseInit
<1>2. SparseTyped
  <2>1. \A t \in Writers : written[t] \in 0..size[t]
    BY DEF SparseInit
  <2>2. fileSize \in 0..(TotalSize + 1) /\ cell \in [Cells -> Writers \cup {"old", "zero"}]
    BY <1>1
  <2>3. offset \in [Writers -> 0..TotalSize] /\ size \in [Writers -> 0..TotalSize]
        /\ written \in [Writers -> Nat]
        /\ writerPc \in [Writers -> {"idle", "writing", "called", "returned", "raised"}]
    BY DEF SparseInit
  <2>4. /\ writer \in {"new", "allocating", "open", "closing", "closed", "unusable"}
        /\ strategy \in {"fallocate", "auto", "sparse"}
        /\ fdIs \in {"file", "other", "nothing"} /\ raced \subseteq Writers
        /\ verifyPc \in {"idle", "reading", "digested", "raised"}
        /\ Len(digested) =< TotalSize
    BY <1>1 DEF SparseInit
  <2>5. disturbed \in BOOLEAN
    BY DEF SparseInit
  <2>. QED  BY <1>1, <2>1, <2>2, <2>3, <2>4, <2>5 DEF SparseTyped, SparseTypeOK
<1>3. RangesInv
  BY DEF SparseInit, RangesInv, RangeOf
<1>4. DescriptorInv
  BY DEF SparseInit, DescriptorInv
<1>5. \A t \in Writers : t # "old" /\ t # "zero"
  OBVIOUS
<1>6. CellsInv
  BY <1>1, <1>5 DEF SparseInit, CellsInv, Cells
<1>7. VerifyInv
  BY <1>1 DEF SparseInit, VerifyInv
<1>. QED  BY <1>2, <1>3, <1>4, <1>6, <1>7 DEF SparseInv

\* A verification has read nothing, or what it read is not compared any more.
LEMMA Disturbs ==
    ASSUME SparseInv, UNCHANGED <<verifyPc, digested>>,
           verifyPc # "idle" => disturbed' /\ writer' \in {"open", "closing", "closed"}
    PROVE  VerifyInv'
<1>1. CASE verifyPc = "idle"
  <2>1. digested' = <<>> /\ verifyPc' = "idle"
    BY <1>1 DEF SparseInv, VerifyInv
  <2>2. \A i \in 1..Len(digested') : FALSE
    BY <2>1
  <2>. QED  BY <2>1, <2>2 DEF VerifyInv
<1>2. CASE verifyPc # "idle"
  BY <1>2 DEF VerifyInv
<1>. QED  BY <1>1, <1>2

LEMMA PwriteStep ==
    ASSUME SparseInv, NEW t \in Writers, Pwrite(t)
    PROVE  SparseInv'
<1>. USE SparseAssumption
<1>1. /\ writerPc[t] = "called" /\ disturbed' = (verifyPc # "idle")
      /\ UNCHANGED <<fileSize, writer, strategy, fdIs, offset, size, raced, verifyPc, digested>>
      /\ offset[t] \in 0..TotalSize /\ size[t] \in 0..TotalSize /\ written[t] \in Nat
      /\ written[t] < size[t] /\ offset[t] + size[t] =< TotalSize
      /\ writerPc \in [Writers -> {"idle", "writing", "called", "returned", "raised"}]
      /\ written \in [Writers -> Nat] /\ cell \in [Cells -> Writers \cup {"old", "zero"}]
      /\ \A o \in Writers : written[o] \in 0..size[o]
      /\ offset \in [Writers -> 0..TotalSize] /\ size \in [Writers -> 0..TotalSize]
  BY DEF Pwrite, SparseInv, SparseTyped, SparseTypeOK, RangesInv
<1>d. /\ UNCHANGED <<verifyPc, digested>>
      /\ verifyPc # "idle" => disturbed' /\ writer' \in {"open", "closing", "closed"}
  BY <1>1 DEF SparseInv, VerifyInv
<1>2. ASSUME /\ written' = written /\ cell' = cell
             /\ writerPc' = [writerPc EXCEPT ![t] = "raised"]
      PROVE  SparseInv'
  <2>1. SparseTyped'
    BY <1>1, <1>2 DEF SparseInv, SparseTyped, SparseTypeOK, Cells
  <2>2. RangesInv'
    BY <1>1, <1>2 DEF SparseInv, RangesInv, RangeOf
  <2>3. DescriptorInv'
    BY <1>1, <1>2 DEF SparseInv, DescriptorInv, Busy
  <2>4. CellsInv'
    BY <1>1, <1>2 DEF SparseInv, CellsInv, Cells, RangeOf
  <2>5. VerifyInv'
    BY <1>d, Disturbs
  <2>. QED  BY <2>1, <2>2, <2>3, <2>4, <2>5 DEF SparseInv
<1>3. ASSUME NEW n \in 1..(size[t] - written[t]),
             written' = [written EXCEPT ![t] = @ + n],
             writerPc' = [writerPc EXCEPT ![t] = "writing"],
             cell' = IF fdIs # "file" THEN cell
                     ELSE [u \in Cells |->
                              IF u \in (offset[t] + written[t])..(offset[t] + written[t] + n - 1)
                              THEN t ELSE cell[u]]
      PROVE  SparseInv'
  <2>1. \A o \in Writers : written'[o] = IF o = t THEN written[t] + n ELSE written[o]
    BY <1>1, <1>3
  <2>2. SparseTyped'
    <3>1. written' \in [Writers -> Nat] /\ written[t] + n =< size[t] /\ written[t] + n \in Nat
      BY <1>1, <1>3
    <3>2. cell' \in [Cells -> Writers \cup {"old", "zero"}]
      BY <1>1, <1>3
    <3>3. writerPc' \in [Writers -> {"idle", "writing", "called", "returned", "raised"}]
      BY <1>1, <1>3
    <3>4. \A o \in Writers : written'[o] \in 0..size'[o]
      BY <1>1, <2>1, <3>1
    <3>. QED  BY <1>1, <3>1, <3>2, <3>3, <3>4 DEF SparseInv, SparseTyped, SparseTypeOK, Cells
  <2>3. RangesInv'
    BY <1>1, <1>3, <2>1 DEF SparseInv, RangesInv, RangeOf
  <2>4. DescriptorInv'
    BY <1>1, <1>3 DEF SparseInv, DescriptorInv, Busy
  <2>5. CASE fdIs # "file"
    <3>1. cell' = cell /\ t \in raced
      <4>1. writer \in {"closing", "closed"}
        BY <1>1, <2>5 DEF SparseInv, RangesInv, DescriptorInv
      <4>. QED  BY <1>1, <1>3, <2>5, <4>1 DEF SparseInv, DescriptorInv, Busy
    <3>2. CellsInv'
      BY <1>1, <2>1, <3>1 DEF SparseInv, CellsInv, Cells, RangeOf
    <3>3. VerifyInv'
      BY <1>d, Disturbs
    <3>. QED  BY <2>2, <2>3, <2>4, <3>2, <3>3 DEF SparseInv
  <2>6. CASE fdIs = "file"
    <3>. DEFINE first == offset[t] + written[t]
                new == first..(first + n - 1)
    <3>1. /\ cell' = [u \in Cells |-> IF u \in new THEN t ELSE cell[u]]
          /\ new \subseteq RangeOf(t) /\ RangeOf(t) \subseteq Cells
      <4>1. cell' = [u \in Cells |-> IF u \in new THEN t ELSE cell[u]]
        BY <1>3, <2>6
      <4>2. new \subseteq RangeOf(t)
        BY <1>1, <1>3 DEF RangeOf
      <4>3. RangeOf(t) \subseteq Cells
        BY <1>1 DEF RangeOf, Cells
      <4>. QED  BY <4>1, <4>2, <4>3
    <3>2. \A o \in Writers : RangeOf(o)' = RangeOf(o) /\ RangeOf(o) \subseteq Cells
      BY <1>1 DEF RangeOf, SparseInv, RangesInv, Cells
    <3>3. ASSUME NEW o \in Writers, NEW u \in Cells, cell'[u] = o PROVE u \in RangeOf(o)
      BY <3>1, <3>3 DEF SparseInv, CellsInv
    <3>4. ASSUME NEW o \in Writers, o \notin raced,
                 NEW u \in offset[o]..(offset[o] + written'[o] - 1)
          PROVE  cell'[u] = o
      <4>1. u \in RangeOf(o) /\ u \in Cells
        BY <1>1, <1>3, <2>1, <3>2, <3>4 DEF RangeOf
      <4>2. CASE o = t
        <5>1. u \in new \/ u \in offset[o]..(offset[o] + written[o] - 1)
          BY <1>1, <1>3, <2>1, <3>4, <4>2
        <5>. QED  BY <3>1, <3>4, <4>1, <4>2, <5>1 DEF SparseInv, CellsInv
      <4>3. CASE o # t
        <5>1. u \notin new /\ cell[u] = o
          BY <2>1, <3>1, <3>4, <4>1, <4>3 DEF SparseInv, CellsInv, RangesInv
        <5>. QED  BY <3>1, <4>1, <5>1
      <4>. QED  BY <4>2, <4>3
    <3>5. CellsInv'
      BY <1>1, <3>2, <3>3, <3>4 DEF SparseInv, CellsInv, Cells
    <3>6. VerifyInv'
      BY <1>d, Disturbs
    <3>. QED  BY <2>2, <2>3, <2>4, <3>5, <3>6 DEF SparseInv
  <2>. QED  BY <2>5, <2>6
<1>. QED  BY <1>1, <1>2, <1>3 DEF Pwrite

LEMMA ReadAtStep ==
    ASSUME SparseInv, ReadAt
    PROVE  SparseInv'
<1>. USE SparseAssumption
<1>1. /\ verifyPc = "reading" /\ Len(digested) < TotalSize
      /\ UNCHANGED <<fileSize, cell, writer, strategy, fdIs, ioVars, disturbed>>
      /\ digested \in Seq(Contents) /\ Len(digested) \in Nat
      /\ cell \in [Cells -> Writers \cup {"old", "zero"}]
  BY DEF ReadAt, SparseInv, SparseTyped, SparseTypeOK
<1>2. ASSUME digested' \in Seq(Contents), Len(digested') =< TotalSize,
             verifyPc' \in {"reading", "raised"},
             ~disturbed => \A i \in 1..Len(digested') : digested'[i] = cell[i - 1]
      PROVE  SparseInv'
  <2>1. SparseTyped'
    BY <1>1, <1>2 DEF SparseInv, SparseTyped, SparseTypeOK, ioVars, Cells
  <2>2. RangesInv' /\ DescriptorInv' /\ CellsInv'
    BY <1>1 DEF SparseInv, RangesInv, DescriptorInv, CellsInv, ioVars, RangeOf, Busy, Cells
  <2>3. VerifyInv'
    BY <1>1, <1>2 DEF SparseInv, VerifyInv
  <2>. QED  BY <2>1, <2>2, <2>3 DEF SparseInv
<1>3. CASE digested' = digested /\ verifyPc' = "raised"
  BY <1>1, <1>2, <1>3 DEF SparseInv, VerifyInv, SparseTyped, SparseTypeOK
<1>4. ASSUME NEW n \in 1..(TotalSize - Len(digested)), UNCHANGED verifyPc,
             digested' = digested \o [i \in 1..n |->
                 IF fdIs = "file" THEN cell[Len(digested) + i - 1] ELSE "foreign"]
      PROVE  SparseInv'
  <2>. DEFINE more == [i \in 1..n |->
                 IF fdIs = "file" THEN cell[Len(digested) + i - 1] ELSE "foreign"]
  <2>1. \A i \in 1..n : Len(digested) + i - 1 \in Cells /\ more[i] \in Contents
    <3>1. TAKE i \in 1..n
    <3>2. Len(digested) + i - 1 \in Cells
      BY <1>1, <1>4 DEF Cells
    <3>. QED  BY <1>1, <3>2 DEF Contents
  <2>2. more \in Seq(Contents) /\ Len(more) = n
    <3>1. more \in [1..n -> Contents] /\ n \in Nat
      <4>1. n \in Nat
        BY <1>1, <1>4
      <4>. QED  BY <2>1, <4>1
    <3>. HIDE DEF more
    <3>2. more \in Seq(Contents)
      BY <3>1, SeqDef
    <3>. QED  BY <3>1, <3>2, LenProperties
  <2>3. /\ digested' \in Seq(Contents) /\ Len(digested') = Len(digested) + n
        /\ \A i \in 1..(Len(digested) + n) :
               digested'[i] = IF i =< Len(digested) THEN digested[i] ELSE more[i - Len(digested)]
    <3>1. digested' = digested \o more /\ digested \in Seq(Contents)
      BY <1>1, <1>4
    <3>. HIDE DEF more
    <3>2. /\ digested \o more \in Seq(Contents)
          /\ Len(digested \o more) = Len(digested) + Len(more)
          /\ \A i \in 1..(Len(digested) + Len(more)) :
                 (digested \o more)[i] = IF i =< Len(digested) THEN digested[i]
                                          ELSE more[i - Len(digested)]
      BY <2>2, <3>1, ConcatProperties
    <3>. QED  BY <2>2, <3>1, <3>2
  <2>4. ASSUME ~disturbed, NEW i \in 1..Len(digested') PROVE digested'[i] = cell[i - 1]
    <3>1. fdIs = "file" /\ \A j \in 1..Len(digested) : digested[j] = cell[j - 1]
      BY <1>1, <2>4 DEF SparseInv, VerifyInv, DescriptorInv
    <3>2. CASE i =< Len(digested)
      <4>1. i \in 1..Len(digested) /\ i \in 1..(Len(digested) + n)
        BY <1>1, <2>3, <2>4, <3>2
      <4>. QED  BY <2>3, <3>1, <3>2, <4>1
    <3>3. CASE i > Len(digested)
      <4>1. i - Len(digested) \in 1..n /\ Len(digested) + (i - Len(digested)) - 1 = i - 1
        BY <1>1, <2>3, <2>4, <3>3
      <4>2. more[i - Len(digested)] = cell[i - 1]
        BY <3>1, <4>1
      <4>. HIDE DEF more
      <4>. QED  BY <1>1, <2>3, <2>4, <3>3, <4>2
    <3>. QED  BY <1>1, <2>3, <3>2, <3>3
  <2>. QED  BY <1>1, <1>2, <1>4, <2>3, <2>4
<1>. QED  BY <1>3, <1>4 DEF ReadAt

LEMMA SparseStep == SparseInv /\ [SparseNext]_sparseVars => SparseInv'
<1>. SUFFICES ASSUME SparseInv, [SparseNext]_sparseVars PROVE SparseInv'
  OBVIOUS
<1>. USE SparseAssumption DEF SparseInv
<1>1. CASE Open
  <2>. USE <1>1 DEF Open, ioVars, verifyVars
  <2>1. SparseTyped'
    BY DEF SparseTyped, SparseTypeOK, Cells
  <2>. QED  BY <2>1 DEF RangesInv, DescriptorInv, CellsInv, VerifyInv, RangeOf, Busy, Cells
<1>2. CASE Fallocate
  <2>. USE <1>2 DEF Fallocate, ioVars, verifyVars
  <2>1. SparseTyped'
    BY DEF SparseTyped, SparseTypeOK, Cells
  <2>2. RangesInv' /\ VerifyInv'
    BY DEF RangesInv, VerifyInv, RangeOf
  <2>3. DescriptorInv'
    BY DEF DescriptorInv, Busy, RangesInv
  <2>4. CellsInv'
    BY DEF SparseTyped, SparseTypeOK, CellsInv, RangeOf, Cells
  <2>. QED  BY <2>1, <2>2, <2>3, <2>4
<1>3. CASE Truncate
  <2>. USE <1>3 DEF Truncate, ioVars, verifyVars
  <2>1. SparseTyped'
    BY DEF SparseTyped, SparseTypeOK, Cells
  <2>2. RangesInv' /\ DescriptorInv'
    BY DEF RangesInv, DescriptorInv, RangeOf, Busy
  <2>4. VerifyInv'
    <3>1. verifyPc = "idle"
      BY DEF VerifyInv
    <3>. QED  BY <3>1, Disturbs
  <2>3. CellsInv'
    BY DEF SparseTyped, SparseTypeOK, CellsInv, RangesInv, RangeOf, Cells
  <2>. QED  BY <2>1, <2>2, <2>3, <2>4
<1>4. CASE Close
  <2>. USE <1>4 DEF Close
  <2>1. SparseTyped'
    BY DEF SparseTyped, SparseTypeOK, Cells
  <2>2. RangesInv' /\ DescriptorInv'
    BY DEF RangesInv, DescriptorInv, RangeOf, Busy
  <2>3. CellsInv'
    BY DEF CellsInv, DescriptorInv, RangeOf, Cells
  <2>4. VerifyInv'
    BY Disturbs
  <2>. QED  BY <2>1, <2>2, <2>3, <2>4
<1>11. CASE Closed \/ Reuse
  <2>. USE <1>11 DEF Closed, Reuse, ioVars, verifyVars
  <2>1. SparseTyped'
    BY DEF SparseTyped, SparseTypeOK, Cells
  <2>2. RangesInv' /\ DescriptorInv'
    BY DEF RangesInv, DescriptorInv, RangeOf, Busy
  <2>3. CellsInv'
    BY DEF CellsInv, RangeOf, Cells
  <2>4. VerifyInv'
    BY DEF VerifyInv
  <2>. QED  BY <2>1, <2>2, <2>3, <2>4
<1>5. CASE BeginVerify \/ EndVerify
  <2>. USE <1>5 DEF BeginVerify, EndVerify, ioVars
  <2>1. SparseTyped'
    BY DEF SparseTyped, SparseTypeOK, Cells
  <2>. QED  BY <2>1 DEF RangesInv, DescriptorInv, CellsInv, VerifyInv, RangeOf, Busy, Cells
<1>6. CASE ReadAt
  BY <1>6, ReadAtStep
<1>7. ASSUME NEW t \in Writers, WriteAt(t) PROVE SparseInv'
  <2>. USE DEF ioVars, verifyVars
  <2>1. PICK first \in 0..(TotalSize - 1), n \in 1..TotalSize :
            /\ first + n =< TotalSize
            /\ \A other \in Writers : (first..(first + n - 1)) \cap RangeOf(other) = {}
            /\ offset' = [offset EXCEPT ![t] = first]
            /\ size' = [size EXCEPT ![t] = n]
    BY <1>7 DEF WriteAt
  <2>2. /\ writer = "open" /\ writerPc[t] = "idle" /\ writerPc' = [writerPc EXCEPT ![t] = "writing"]
        /\ UNCHANGED <<fileSize, cell, writer, strategy, fdIs, written, raced, verifyVars>>
        /\ offset \in [Writers -> 0..TotalSize] /\ size \in [Writers -> 0..TotalSize]
        /\ written[t] = 0 /\ size[t] = 0
        /\ writerPc \in [Writers -> {"idle", "writing", "called", "returned", "raised"}]
    BY <1>7 DEF WriteAt, SparseTyped, SparseTypeOK, RangesInv
  <2>3. SparseTyped'
    <3>1. \A o \in Writers : written[o] \in 0..size'[o]
      BY <2>1, <2>2 DEF SparseTyped, SparseTypeOK
    <3>. QED  BY <2>1, <2>2, <3>1 DEF SparseTyped, SparseTypeOK, Cells
  <2>4. \A o \in Writers : RangeOf(o)' = IF o = t THEN first..(first + n - 1) ELSE RangeOf(o)
    BY <2>1, <2>2 DEF RangeOf
  <2>5. RangesInv'
    <3>1. ASSUME NEW a \in Writers, NEW b \in Writers, a # b, NEW u \in RangeOf(a)'
          PROVE  u \notin RangeOf(b)'
      BY <2>1, <2>4, <3>1 DEF RangesInv
    <3>2. \A o \in Writers : offset'[o] + size'[o] =< TotalSize
      BY <2>1, <2>2 DEF RangesInv
    <3>3. \A o \in Writers : o # t => writerPc'[o] = writerPc[o] /\ size'[o] = size[o]
      BY <2>1, <2>2
    <3>4. writerPc'[t] = "writing"
      BY <2>2
    <3>. QED  BY <2>2, <3>1, <3>2, <3>3, <3>4 DEF RangesInv
  <2>6. DescriptorInv'
    BY <2>2 DEF DescriptorInv, Busy
  <2>7. CellsInv'
    <3>1. ASSUME NEW o \in Writers, NEW u \in Cells, cell[u] = o PROVE u \in RangeOf(o)'
      <4>1. u \in RangeOf(o)
        BY <3>1 DEF CellsInv
      <4>2. o # t
        BY <2>2, <4>1 DEF RangeOf
      <4>. QED  BY <2>4, <4>1, <4>2
    <3>2. ASSUME NEW o \in Writers, o \notin raced,
                 NEW u \in offset'[o]..(offset'[o] + written[o] - 1)
          PROVE  cell[u] = o
      <4>1. o # t
        BY <2>1, <2>2, <3>2
      <4>. QED  BY <2>1, <2>2, <3>2, <4>1 DEF CellsInv
    <3>. QED  BY <2>2, <3>1, <3>2 DEF CellsInv, Cells
  <2>8. VerifyInv'
    BY <2>2 DEF VerifyInv
  <2>. QED  BY <2>3, <2>5, <2>6, <2>7, <2>8
<1>8. ASSUME NEW t \in Writers, TakeDescriptor(t) \/ Return(t) PROVE SparseInv'
  <2>. USE <1>8 DEF TakeDescriptor, Return, ioVars, verifyVars
  <2>0. \E pc \in {"called", "raised", "returned"} : writerPc' = [writerPc EXCEPT ![t] = pc]
    OBVIOUS
  <2>1. SparseTyped'
    BY <2>0 DEF SparseTyped, SparseTypeOK, Cells
  <2>2. RangesInv'
    <3>1. \A o \in Writers : RangeOf(o)' = RangeOf(o)
      BY DEF RangeOf
    <3>2. ASSUME NEW o \in Writers
          PROVE  /\ (writerPc[o] = "idle") <=> (writerPc'[o] = "idle")
                 /\ writerPc'[o] = "called" => written[o] < size[o]
                 /\ writerPc'[o] = "returned" => written[o] = size[o]
      BY DEF RangesInv, SparseTyped, SparseTypeOK
    <3>. QED  BY <3>1, <3>2 DEF RangesInv
  <2>3. DescriptorInv'
    <3>1. \A o \in Writers : Busy(o)' => Busy(o)
      BY DEF Busy, SparseTyped, SparseTypeOK
    <3>. QED  BY <3>1 DEF DescriptorInv
  <2>4. CellsInv'
    BY DEF CellsInv, RangeOf, Cells
  <2>5. VerifyInv'
    BY DEF VerifyInv
  <2>. QED  BY <2>1, <2>2, <2>3, <2>4, <2>5
<1>9. ASSUME NEW t \in Writers, Pwrite(t) PROVE SparseInv'
  BY <1>9, PwriteStep
<1>10. CASE UNCHANGED sparseVars
  <2>. USE <1>10 DEF sparseVars, ioVars, verifyVars
  <2>1. SparseTyped'
    BY DEF SparseTyped, SparseTypeOK, Cells
  <2>. QED  BY <2>1 DEF RangesInv, DescriptorInv, CellsInv, VerifyInv, RangeOf, Busy, Cells
<1>. QED
  BY <1>1, <1>2, <1>3, <1>4, <1>5, <1>6, <1>7, <1>8, <1>9, <1>10, <1>11 DEF SparseNext

LEMMA SparseAlways == SparseSpec => []SparseInv
BY SparseInitInv, SparseStep, PTL DEF SparseSpec

\* The variables of SparseFileWriter keep their types: no thread counts more
\* bytes written than its range has.
THEOREM SparseTypeCorrect == SparseSpec => []SparseTypeOK
BY SparseAlways, PTL DEF SparseInv, SparseTyped

\* A write_at that returns has filled its range, and only that, unless close
\* overtook it; an undisturbed verify_hash reads the file as it is.
THEOREM WritesLand == SparseSpec => []WritesLandWhole
<1>1. SparseInv => WritesLandWhole
  <2>. SUFFICES ASSUME SparseInv PROVE WritesLandWhole
    OBVIOUS
  <2>. USE SparseAssumption DEF SparseInv
  <2>1. ASSUME NEW t \in Writers, writerPc[t] = "returned", t \notin raced, NEW u \in RangeOf(t)
        PROVE  cell[u] = t
    BY <2>1 DEF CellsInv, RangesInv, RangeOf
  <2>2. DOMAIN digested = 1..Len(digested)
    BY LenProperties DEF SparseTyped
  <2>. QED  BY <2>1, <2>2 DEF CellsInv, VerifyInv, WritesLandWhole
<1>. QED  BY <1>1, SparseAlways, PTL

-----------------------------------------------------------------------------
(* The assembler *)

\* What a temporary file holds are the chunks as they were staged, in order.
CopiesAreStaged ==
    \A p \in Assemblers : \A i \in 1..Len(temp[p]) : temp[p][i] = staged[i]

\* A process that may replace the destination has the whole and right file.
HashedIsWhole ==
    \A p \in Assemblers : asmPc[p] = "hashed" =>
        Whole(temp[p]) /\ (expects => AllGood(temp[p]))

\* A process that removes chunk files has replaced the destination, or another
\* has since.
CleansAfterReplacing == \A p \in Assemblers : asmPc[p] = "cleaning" => output # <<>>

\* The destination, once there, is the whole staged file.
OutputIsStaged ==
    output # <<>> =>
        /\ Whole(output) /\ (expects => AllGood(output))
        /\ \A c \in Staged : output[c] = staged[c]

\* A chunk file is as it was staged, or removed after a replacement.
FilesAreStaged ==
    \A c \in Staged : files[c] = staged[c] \/ (files[c] = "absent" /\ output # <<>>)

AsmInv == CopiesAreStaged /\ HashedIsWhole /\ CleansAfterReplacing /\ OutputIsStaged
        /\ FilesAreStaged

-----------------------------------------------------------------------------
(* Types *)

LEMMA AsmTypeInit == AsmInit => AsmTypeOK
BY AssemblyAssumption DEF AsmInit, AsmTypeOK

LEMMA AsmTypeStep == AsmTypeOK /\ [AsmNext]_asmVars => AsmTypeOK'
<1>. SUFFICES ASSUME AsmTypeOK, [AsmNext]_asmVars PROVE AsmTypeOK'
  OBVIOUS
<1>. USE AssemblyAssumption
<1>1. ASSUME NEW p \in Assemblers, Begin(p) PROVE AsmTypeOK'
  BY <1>1 DEF Begin, AsmTypeOK
<1>2. ASSUME NEW p \in Assemblers, Copy(p) PROVE AsmTypeOK'
  <2>1. CASE files[Len(temp[p]) + 1] \in {"good", "bad"}
             /\ temp' = [temp EXCEPT ![p] = Append(@, files[Len(temp[p]) + 1])]
             /\ UNCHANGED asmPc
    <3>1. temp' \in [Assemblers -> Seq({"good", "bad"})]
      BY <2>1 DEF AsmTypeOK
    <3>2. \A q \in Assemblers : Len(temp'[q]) =< StagedChunks
      <4>1. Len(Append(temp[p], files[Len(temp[p]) + 1])) =< StagedChunks
        BY <1>2, <2>1 DEF Copy, Whole, AsmTypeOK
      <4>. QED  BY <2>1, <4>1 DEF AsmTypeOK
    <3>. QED  BY <1>2, <2>1, <3>1, <3>2 DEF Copy, AsmTypeOK
  <2>2. CASE Failed(p)
    BY <1>2, <2>2 DEF Copy, Failed, AsmTypeOK
  <2>. QED  BY <1>2, <2>1, <2>2 DEF Copy
<1>3. ASSUME NEW p \in Assemblers, StorageFails(p) PROVE AsmTypeOK'
  BY <1>3 DEF StorageFails, Failed, AsmTypeOK
<1>4. ASSUME NEW p \in Assemblers, Verify(p) PROVE AsmTypeOK'
  <2>1. CASE Failed(p)
    BY <1>4, <2>1 DEF Verify, Failed, AsmTypeOK
  <2>2. CASE asmPc' = [asmPc EXCEPT ![p] = "hashed"] /\ UNCHANGED temp
    BY <1>4, <2>2 DEF Verify, AsmTypeOK
  <2>. QED  BY <1>4, <2>1, <2>2 DEF Verify
<1>5. ASSUME NEW p \in Assemblers, Replace(p) PROVE AsmTypeOK'
  BY <1>5 DEF Replace, AsmTypeOK
<1>6. ASSUME NEW p \in Assemblers, Clean(p) PROVE AsmTypeOK'
  <2>1. files' \in [Staged -> {"absent", "short", "good", "bad"}]
    BY <1>6 DEF Clean, AsmTypeOK
  <2>2. cleaned' \in [Assemblers -> 0..StagedChunks]
    BY <1>6 DEF Clean, AsmTypeOK
  <2>. QED  BY <1>6, <2>1, <2>2 DEF Clean, AsmTypeOK
<1>7. ASSUME NEW p \in Assemblers, Cleaned(p) PROVE AsmTypeOK'
  BY <1>7 DEF Cleaned, AsmTypeOK
<1>8. ASSUME NEW p \in Assemblers, Die(p) PROVE AsmTypeOK'
  BY <1>8 DEF Die, AsmTypeOK
<1>9. CASE UNCHANGED asmVars
  BY <1>9 DEF asmVars, AsmTypeOK
<1>. QED  BY <1>1, <1>2, <1>3, <1>4, <1>5, <1>6, <1>7, <1>8, <1>9 DEF AsmNext

\* No process copies more chunks than there are, and each that assembles is at
\* one point of the assembly.
THEOREM AssemblyTypeCorrect == AsmSpec => []AsmTypeOK
<1>. QED  BY AsmTypeInit, AsmTypeStep, PTL DEF AsmSpec

-----------------------------------------------------------------------------
(* The invariant, one action at a time *)

LEMMA AsmInitInv == AsmInit => AsmInv
BY AssemblyAssumption
DEF AsmInit, AsmInv, CopiesAreStaged, HashedIsWhole, CleansAfterReplacing, OutputIsStaged,
    FilesAreStaged

\* Steps that leave the files alone and no process further than it was.
LEMMA StepsBack ==
    ASSUME AsmInv, AsmTypeOK, NEW p \in Assemblers,
           NEW pc \in {"idle", "copying", "done", "failed"},
           asmPc' = [asmPc EXCEPT ![p] = pc],
           temp' = temp \/ temp' = [temp EXCEPT ![p] = <<>>],
           UNCHANGED <<expects, staged, files, output>>
    PROVE  AsmInv'
<1>1. CopiesAreStaged'
  BY DEF AsmInv, CopiesAreStaged, AsmTypeOK
<1>2. HashedIsWhole' /\ CleansAfterReplacing'
  BY DEF AsmInv, HashedIsWhole, CleansAfterReplacing, Whole, AllGood, AsmTypeOK
<1>3. OutputIsStaged' /\ FilesAreStaged'
  BY DEF AsmInv, OutputIsStaged, FilesAreStaged, Whole, AllGood
<1>. QED  BY <1>1, <1>2, <1>3 DEF AsmInv

LEMMA CopyKeeps ==
    ASSUME AsmInv, AsmTypeOK, NEW p \in Assemblers, Copy(p)
    PROVE  AsmInv'
<1>. DEFINE c == Len(temp[p]) + 1
<1>1. CASE Failed(p)
  BY <1>1, StepsBack DEF Copy, Failed
<1>2. CASE /\ files[c] \in {"good", "bad"}
           /\ temp' = [temp EXCEPT ![p] = Append(@, files[c])]
           /\ UNCHANGED asmPc
  <2>1. c \in Staged /\ Len(temp[p]) \in Nat
    BY AssemblyAssumption DEF Copy, Whole, Staged, AsmTypeOK
  <2>2. files[c] = staged[c]
    BY <1>2, <2>1 DEF AsmInv, FilesAreStaged
  <2>3. temp'[p] = Append(temp[p], staged[c]) /\ temp[p] \in Seq({"good", "bad"})
    BY <1>2, <2>2 DEF AsmTypeOK
  <2>4. CopiesAreStaged'
    <3>. SUFFICES ASSUME NEW q \in Assemblers, NEW i \in 1..Len(temp'[q])
                  PROVE  temp'[q][i] = staged[i]
      BY DEF Copy, CopiesAreStaged
    <3>1. CASE q # p
      <4>1. temp'[q] = temp[q]
        BY <1>2, <3>1 DEF AsmTypeOK
      <4>. QED  BY <4>1 DEF AsmInv, CopiesAreStaged
    <3>2. CASE q = p
      <4>1. i \in 1..(Len(temp[p]) + 1)
        BY <2>3, <3>2
      <4>2. CASE i = c
        BY <2>3, <3>2, <4>2
      <4>3. CASE i # c
        <5>1. i \in 1..Len(temp[p])
          BY <2>1, <4>1, <4>3
        <5>2. temp'[p][i] = temp[p][i]
          BY <2>3, <5>1
        <5>. QED  BY <3>2, <5>1, <5>2 DEF AsmInv, CopiesAreStaged
      <4>. QED  BY <4>2, <4>3
    <3>. QED  BY <3>1, <3>2
  <2>5. HashedIsWhole'
    BY <1>2 DEF AsmInv, HashedIsWhole, Copy, Whole, AllGood, AsmTypeOK
  <2>6. CleansAfterReplacing' /\ OutputIsStaged' /\ FilesAreStaged'
    BY <1>2
    DEF AsmInv, CleansAfterReplacing, OutputIsStaged, FilesAreStaged, Copy, Whole, AllGood
  <2>. QED  BY <2>4, <2>5, <2>6 DEF AsmInv
<1>. QED  BY <1>1, <1>2 DEF Copy

LEMMA VerifyKeeps ==
    ASSUME AsmInv, AsmTypeOK, NEW p \in Assemblers, Verify(p)
    PROVE  AsmInv'
<1>1. CASE Failed(p)
  BY <1>1, StepsBack DEF Verify, Failed
<1>2. CASE /\ expects => AllGood(temp[p])
           /\ asmPc' = [asmPc EXCEPT ![p] = "hashed"]
           /\ UNCHANGED temp
  <2>1. HashedIsWhole'
    BY <1>2 DEF AsmInv, HashedIsWhole, Verify, Whole, AllGood, AsmTypeOK
  <2>2. CleansAfterReplacing'
    BY <1>2 DEF AsmInv, CleansAfterReplacing, Verify, AsmTypeOK
  <2>3. CopiesAreStaged' /\ OutputIsStaged' /\ FilesAreStaged'
    BY <1>2 DEF AsmInv, CopiesAreStaged, OutputIsStaged, FilesAreStaged, Verify, Whole, AllGood
  <2>. QED  BY <2>1, <2>2, <2>3 DEF AsmInv
<1>. QED  BY <1>1, <1>2 DEF Verify

LEMMA ReplaceKeeps ==
    ASSUME AsmInv, AsmTypeOK, NEW p \in Assemblers, Replace(p)
    PROVE  AsmInv'
<1>1. /\ output' = temp[p] /\ Len(temp[p]) = StagedChunks
      /\ expects => AllGood(temp[p])
      /\ temp[p] \in Seq({"good", "bad"})
  BY DEF AsmInv, HashedIsWhole, Replace, Whole, AsmTypeOK
<1>2. output' # <<>>
  BY <1>1, AssemblyAssumption
<1>3. OutputIsStaged'
  BY <1>1 DEF AsmInv, CopiesAreStaged, OutputIsStaged, Replace, Whole, AllGood, Staged
<1>4. FilesAreStaged' /\ CleansAfterReplacing'
  BY <1>2 DEF AsmInv, FilesAreStaged, CleansAfterReplacing, Replace
<1>5. CopiesAreStaged' /\ HashedIsWhole'
  BY DEF AsmInv, CopiesAreStaged, HashedIsWhole, Replace, Whole, AllGood, AsmTypeOK
<1>. QED  BY <1>3, <1>4, <1>5 DEF AsmInv

LEMMA CleanKeeps ==
    ASSUME AsmInv, AsmTypeOK, NEW p \in Assemblers, Clean(p)
    PROVE  AsmInv'
<1>1. output # <<>> /\ UNCHANGED output
  BY DEF AsmInv, CleansAfterReplacing, Clean
<1>2. FilesAreStaged'
  BY <1>1 DEF AsmInv, FilesAreStaged, Clean, AsmTypeOK
<1>3. CopiesAreStaged' /\ HashedIsWhole' /\ CleansAfterReplacing' /\ OutputIsStaged'
  BY DEF AsmInv, CopiesAreStaged, HashedIsWhole, CleansAfterReplacing, OutputIsStaged, Clean,
         Whole, AllGood
<1>. QED  BY <1>2, <1>3 DEF AsmInv

LEMMA AsmStep == AsmTypeOK /\ AsmInv /\ [AsmNext]_asmVars => AsmInv'
<1>. SUFFICES ASSUME AsmTypeOK, AsmInv, [AsmNext]_asmVars PROVE AsmInv'
  OBVIOUS
<1>1. ASSUME NEW p \in Assemblers, Begin(p) PROVE AsmInv'
  <2>1. CASE \E c \in Staged : files[c] = "absent"
    <3>1. asmPc' = [asmPc EXCEPT ![p] = "failed"]
      BY <1>1, <2>1 DEF Begin
    <3>. QED  BY <1>1, <3>1, StepsBack DEF Begin
  <2>2. CASE ~(\E c \in Staged : files[c] = "absent")
    <3>1. asmPc' = [asmPc EXCEPT ![p] = "copying"]
      BY <1>1, <2>2 DEF Begin
    <3>. QED  BY <1>1, <3>1, StepsBack DEF Begin
  <2>. QED  BY <2>1, <2>2
<1>2. ASSUME NEW p \in Assemblers, StorageFails(p) PROVE AsmInv'
  BY <1>2, StepsBack DEF StorageFails, Failed
<1>3. ASSUME NEW p \in Assemblers, Cleaned(p) PROVE AsmInv'
  BY <1>3, StepsBack DEF Cleaned
<1>4. ASSUME NEW p \in Assemblers, Die(p) PROVE AsmInv'
  BY <1>4, StepsBack DEF Die
<1>5. CASE UNCHANGED asmVars
  BY <1>5 DEF asmVars, AsmInv, CopiesAreStaged, HashedIsWhole, CleansAfterReplacing,
              OutputIsStaged, FilesAreStaged, Whole, AllGood
<1>. QED
  BY <1>1, <1>2, <1>3, <1>4, <1>5, CopyKeeps, VerifyKeeps, ReplaceKeeps, CleanKeeps
  DEF AsmNext

-----------------------------------------------------------------------------
(* Theorems *)

\* Whoever assembles, fails or dies, and however many: the destination is
\* absent or the whole file, and no staged chunk is lost before it is in it.
THEOREM DestinationIsAllOrNothing == AsmSpec => []AssemblyIsAtomic
<1>1. AsmInv => AssemblyIsAtomic
  BY DEF AsmInv, OutputIsStaged, FilesAreStaged, AssemblyIsAtomic
<1>. QED
  BY <1>1, AsmInitInv, AsmStep, AssemblyTypeCorrect, PTL DEF AsmSpec



\* The length of a sequence given element by element.
LEMMA LenOfLevel ==
    ASSUME NEW s, NEW m \in Nat, s = [i \in 1..m |-> s[i]]
    PROVE  Len(s) = m
<1>. DEFINE S == {s[i] : i \in 1..m}
<1>1. s \in [1..m -> S]
  OBVIOUS
<1>. HIDE DEF S
<1>2. s \in Seq(S)
  BY <1>1
<1>. QED  BY <1>1, <1>2

-----------------------------------------------------------------------------
(* The shape of a tree. *)

\* The depth is the least number of halvings that leave one node.
LEMMA DepthIs ==
    ASSUME NEW n \in Nat \ {0}
    PROVE  /\ Depth(n) \in Nat /\ n =< TwoTo[Depth(n)]
           /\ \A j \in 0..(Depth(n) - 1) : TwoTo[j] < n
<1>. DEFINE Enough == {k \in Nat : n =< TwoTo[k]}
<1>1. n \in Enough
  BY TwoToPositive
<1>2. Enough \in SUBSET Nat
  OBVIOUS
<1>. HIDE DEF Enough
<1>3. PICK k \in Enough : \A j \in Enough : k =< j
  BY <1>1, <1>2, LeastNumber
<1>4. k \in 0..n /\ TwoTo[k] >= n
  <2>1. k \in Nat /\ k =< n /\ n =< TwoTo[k]
    BY <1>1, <1>3 DEF Enough
  <2>2. TwoTo[k] \in Nat
    BY <2>1, TwoToPositive
  <2>. QED  BY <2>1, <2>2
<1>5. \A j \in 0..(k - 1) : TwoTo[j] < n
  <2>. SUFFICES ASSUME NEW j \in 0..(k - 1) PROVE TwoTo[j] < n
    OBVIOUS
  <2>1. j \in Nat /\ ~(k =< j)
    BY <1>4
  <2>2. TwoTo[j] \in Nat
    BY <2>1, TwoToPositive
  <2>3. j \notin Enough
    BY <1>3, <2>1
  <2>. QED  BY <2>1, <2>2, <2>3 DEF Enough
<1>6. \E l \in 0..n : TwoTo[l] >= n /\ \A j \in 0..(l - 1) : TwoTo[j] < n
  BY <1>4, <1>5
<1>7. Depth(n) \in 0..n /\ TwoTo[Depth(n)] >= n /\ \A j \in 0..(Depth(n) - 1) : TwoTo[j] < n
  BY <1>6 DEF Depth
<1>8. TwoTo[Depth(n)] \in Nat
  BY <1>7, TwoToPositive
<1>. QED  BY <1>7, <1>8

\* A verifier that only knows the length of a path tries the true count among others.
LEMMA CountsOfDepthHaveIt ==
    ASSUME NEW n \in Nat \ {0}
    PROVE  n \in CountsOfDepth(Depth(n))
<1>. DEFINE d == Depth(n)
<1>1. d \in Nat /\ n =< TwoTo[d] /\ \A j \in 0..(d - 1) : TwoTo[j] < n
  BY DepthIs
<1>. HIDE DEF d
<1>2. CASE d = 0
  BY <1>1, <1>2, TwoToStep DEF CountsOfDepth, d
<1>3. CASE d # 0
  <2>1. d - 1 \in 0..(d - 1) /\ d - 1 \in Nat
    BY <1>1, <1>3
  <2>2. TwoTo[d - 1] < n /\ TwoTo[d - 1] \in Nat /\ TwoTo[d] \in Nat
    BY <1>1, <2>1, TwoToPositive
  <2>3. n \in (TwoTo[d - 1] + 1)..TwoTo[d]
    BY <1>1, <2>2
  <2>. QED  BY <1>3, <2>3 DEF CountsOfDepth, d
<1>. QED  BY <1>2, <1>3

\* s is a level of m nodes.
IsLevel(s, m) == m \in Nat \ {0} /\ s = [i \in 1..m |-> s[i]]

\* Width of the level above m nodes.
Half(m) == (m + 1) \div 2

\* A level has half the nodes of the one below, rounded up, each the parent of its two.
LEMMA NextLevelIs ==
    ASSUME NEW s, NEW m, IsLevel(s, m)
    PROVE  /\ IsLevel(NextLevel(s), Half(m)) /\ Len(s) = m
           /\ \A i \in 1..Half(m) :
                  NextLevel(s)[i] = hash_parent(s[2 * i - 1], IF 2 * i =< m THEN s[2 * i] ELSE s[2 * i - 1])
<1>1. Len(s) = m
  BY LenOfLevel DEF IsLevel
<1>2. Half(m) \in Nat \ {0}
  BY DEF IsLevel, Half
<1>3. NextLevel(s) = [i \in 1..Half(m) |->
                          hash_parent(s[2 * i - 1], IF 2 * i =< m THEN s[2 * i] ELSE s[2 * i - 1])]
  BY <1>1 DEF NextLevel, Half
<1>. HIDE DEF NextLevel
<1>. QED  BY <1>1, <1>2, <1>3 DEF IsLevel

\* The levels of a tree as its recursion gives them.
IsTree(t, list) ==
    /\ t[0] = [i \in 1..Len(list) |-> hash_leaf(list[i])]
    /\ \A k \in 1..Depth(Len(list)) : t[k] = NextLevel(t[k - 1])

\* The recursion of Levels has a solution for every list of chunks.
LEMMA LevelsAreATree ==
    ASSUME NEW list, Len(list) \in Nat \ {0}
    PROVE  IsTree(Levels(list), list)
<1>. DEFINE base == [i \in 1..Len(list) |-> hash_leaf(list[i])]
            Solves(t, d) == t = [k \in 0..d |-> IF k = 0 THEN base ELSE NextLevel(t[k - 1])]
            Built == {d \in Nat : \E t : Solves(t, d)}
            D == Depth(Len(list))
<1>0. D \in Nat
  BY DepthIs
<1>. HIDE DEF base, D
<1>1. 0 \in Built
  <2>. DEFINE t == [k \in 0..0 |-> base]
  <2>1. Solves(t, 0)
    OBVIOUS
  <2>. HIDE DEF t
  <2>. QED  BY <2>1
<1>2. ASSUME NEW d \in Nat, d \in Built PROVE d + 1 \in Built
  <2>1. PICK t : Solves(t, d)
    BY <1>2
  <2>. DEFINE u == [k \in 0..(d + 1) |-> IF k = 0 THEN base ELSE NextLevel(t[k - 1])]
              v == [k \in 0..(d + 1) |-> IF k = 0 THEN base ELSE NextLevel(u[k - 1])]
  <2>2. \A k \in 0..d : u[k] = t[k]
    BY <2>1
  <2>3. ASSUME NEW k \in 0..(d + 1) PROVE u[k] = v[k]
    <3>1. CASE k = 0
      BY <3>1
    <3>2. CASE k # 0
      <4>1. k - 1 \in 0..d
        BY <3>2
      <4>2. u[k - 1] = t[k - 1]
        BY <2>2, <4>1
      <4>. QED  BY <3>2, <4>2
    <3>. QED  BY <3>1, <3>2
  <2>4. u = v
    BY <2>3
  <2>5. Solves(u, d + 1)
    BY <2>4
  <2>. HIDE DEF u, v
  <2>. QED  BY <2>5
<1>3. D \in Built
  <2>. HIDE DEF Built
  <2>. QED  BY <1>0, <1>1, <1>2, InductionOnNumbers
<1>4. Solves(Levels(list), D)
  <2>1. Levels(list) = CHOOSE t : Solves(t, D)
    BY DEF Levels, base, D
  <2>2. \E t : Solves(t, D)
    BY <1>3
  <2>. HIDE DEF Solves
  <2>. QED  BY <2>1, <2>2, Zenon
<1>5. Levels(list)[0] = base
  BY <1>0, <1>4
<1>6. ASSUME NEW k \in 1..D PROVE Levels(list)[k] = NextLevel(Levels(list)[k - 1])
  <2>1. k \in 0..D /\ k # 0
    BY <1>0
  <2>. QED  BY <1>4, <2>1
<1>. HIDE DEF Solves
<1>. QED  BY <1>5, <1>6 DEF IsTree, base, D

\* Level k covers the n leaves, and no more of them than it has to.
CoversLeaves(s, k, n) ==
    /\ IsLevel(s, Len(s))
    /\ n =< TwoTo[k] * Len(s) /\ TwoTo[k] * Len(s) < n + TwoTo[k]

\* The level above one that covers the leaves covers them.
LEMMA HalfCovers ==
    ASSUME NEW k \in Nat, NEW n \in Nat, NEW s, CoversLeaves(s, k, n)
    PROVE  CoversLeaves(NextLevel(s), k + 1, n) /\ Len(NextLevel(s)) = Half(Len(s))
<1>. DEFINE w == Len(s)
            h == Half(w)
            p == TwoTo[k]
<1>1. IsLevel(NextLevel(s), h) /\ w \in Nat \ {0}
  BY NextLevelIs DEF CoversLeaves, IsLevel
<1>2. Len(NextLevel(s)) = h
  BY <1>1, LenOfLevel DEF IsLevel
<1>3. h \in Nat \ {0} /\ (w = 2 * h \/ w = 2 * h - 1)
  BY <1>1 DEF Half
<1>4. p \in Nat /\ TwoTo[k + 1] = 2 * p
  BY TwoToPositive, TwoToStep
<1>5. n =< p * w /\ p * w < n + p
  BY DEF CoversLeaves
<1>. HIDE DEF w, h, p
<1>6. (2 * p) * h = 2 * (p * h) /\ p * h \in Nat
  BY <1>3, <1>4
<1>7. p * w = 2 * (p * h) \/ p * w = 2 * (p * h) - p
  <2>1. p * (2 * h) = 2 * (p * h) /\ p * (2 * h - 1) = 2 * (p * h) - p
    BY <1>3, <1>4
  <2>. QED  BY <1>3, <2>1
<1>8. n =< (2 * p) * h /\ (2 * p) * h < n + 2 * p
  BY <1>4, <1>5, <1>6, <1>7
<1>. QED  BY <1>1, <1>2, <1>4, <1>8 DEF CoversLeaves, h, w

LEMMA TreeShape ==
    ASSUME NEW t, NEW list, Len(list) \in Nat \ {0}, IsTree(t, list)
    PROVE  /\ \A k \in 0..Depth(Len(list)) : CoversLeaves(t[k], k, Len(list))
           /\ \A k \in 0..(Depth(Len(list)) - 1) :
                  t[k + 1] = NextLevel(t[k]) /\ Len(t[k + 1]) = Half(Len(t[k]))
           /\ Len(t[0]) = Len(list) /\ Len(t[Depth(Len(list))]) = 1
<1>. DEFINE n == Len(list)
            D == Depth(n)
            Shaped == {k \in Nat : k =< D => CoversLeaves(t[k], k, n)}
<1>0. D \in Nat /\ n =< TwoTo[D] /\ n \in Nat \ {0}
  BY DepthIs
<1>1. t[0] = [i \in 1..n |-> hash_leaf(list[i])] /\ \A k \in 1..D : t[k] = NextLevel(t[k - 1])
  BY DEF IsTree
<1>. HIDE DEF n, D
<1>2. IsLevel(t[0], n) /\ Len(t[0]) = n
  <2>1. t[0] = [i \in 1..n |-> t[0][i]]
    BY <1>1
  <2>. QED  BY <1>0, <2>1, LenOfLevel DEF IsLevel
<1>3. 0 \in Shaped
  <2>1. TwoTo[0] * n = n
    BY <1>0, TwoToStep
  <2>2. TwoTo[0] = 1
    BY TwoToStep
  <2>3. CoversLeaves(t[0], 0, n)
    BY <1>0, <1>2, <2>1, <2>2 DEF CoversLeaves
  <2>. QED  BY <2>3
<1>4. \A k \in Nat : k < D => t[k + 1] = NextLevel(t[k])
  <2>. SUFFICES ASSUME NEW k \in Nat, k < D PROVE t[k + 1] = NextLevel(t[k])
    OBVIOUS
  <2>1. k + 1 \in 1..D /\ (k + 1) - 1 = k
    BY <1>0
  <2>. QED  BY <1>1, <2>1
<1>5. ASSUME NEW k \in Nat, k \in Shaped PROVE k + 1 \in Shaped
  <2>. SUFFICES ASSUME k + 1 =< D PROVE CoversLeaves(t[k + 1], k + 1, n)
    OBVIOUS
  <2>1. k < D /\ CoversLeaves(t[k], k, n)
    BY <1>0, <1>5
  <2>. QED  BY <1>0, <1>4, <2>1, HalfCovers
<1>. HIDE DEF Shaped
<1>6. Nat \subseteq Shaped
  BY <1>3, <1>5, InductionOnNumbers
<1>7. \A k \in 0..D : CoversLeaves(t[k], k, n)
  BY <1>0, <1>6 DEF Shaped
<1>8. \A k \in 0..(D - 1) : t[k + 1] = NextLevel(t[k]) /\ Len(t[k + 1]) = Half(Len(t[k]))
  <2>. SUFFICES ASSUME NEW k \in 0..(D - 1)
       PROVE t[k + 1] = NextLevel(t[k]) /\ Len(t[k + 1]) = Half(Len(t[k]))
    OBVIOUS
  <2>1. k \in Nat /\ k < D /\ k \in 0..D
    BY <1>0
  <2>. QED  BY <1>0, <1>4, <1>7, <2>1, HalfCovers
<1>9. Len(t[D]) = 1
  <2>. DEFINE w == Len(t[D])
              p == TwoTo[D]
  <2>1. w \in Nat \ {0} /\ p * w < n + p /\ p \in Nat \ {0}
    <3>1. D \in 0..D
      BY <1>0
    <3>2. CoversLeaves(t[D], D, n)
      BY <1>7, <3>1
    <3>3. p \in Nat /\ D < p
      BY <1>0, TwoToPositive
    <3>. QED  BY <1>0, <3>2, <3>3 DEF CoversLeaves, IsLevel
  <2>2. n =< p
    BY <1>0
  <2>. HIDE DEF w, p
  <2>3. ~(w > 1)
    <3>. SUFFICES ASSUME w > 1 PROVE FALSE
      OBVIOUS
    <3>1. 2 =< w
      BY <2>1
    <3>2. p * 2 =< p * w
      BY <2>1, <3>1, ProductMonotone
    <3>. QED  BY <1>0, <2>1, <2>2, <3>2
  <2>4. w = 1
    BY <2>1, <2>3
  <2>. QED  BY <2>4 DEF w
<1>. QED  BY <1>2, <1>7, <1>8, <1>9 DEF n, D

-----------------------------------------------------------------------------
(* A root is of one list. *)

\* Digests are equal only for equal inputs.
LEMMA HashesAreTerms ==
    /\ \A c, d : hash_leaf(c) = hash_leaf(d) <=> c = d
    /\ \A a, b, c, d : hash_parent(a, b) = hash_parent(c, d) <=> a = c /\ b = d
    /\ \A a, b, m, n : hash_root(a, m) = hash_root(b, n) <=> a = b /\ m = n
BY DEF hash_leaf, hash_parent, hash_root

\* The level below one is determined by it and by its width.
LEMMA NextLevelInjective ==
    ASSUME NEW m, NEW s, NEW u, IsLevel(s, m), IsLevel(u, m), NextLevel(s) = NextLevel(u)
    PROVE  s = u
<1>1. m \in Nat \ {0}
  BY DEF IsLevel
<1>2. \A i \in 1..Half(m) :
          /\ NextLevel(s)[i] = hash_parent(s[2 * i - 1], IF 2 * i =< m THEN s[2 * i] ELSE s[2 * i - 1])
          /\ NextLevel(u)[i] = hash_parent(u[2 * i - 1], IF 2 * i =< m THEN u[2 * i] ELSE u[2 * i - 1])
  BY NextLevelIs
<1>3. ASSUME NEW i \in 1..Half(m)
      PROVE  s[2 * i - 1] = u[2 * i - 1] /\ (2 * i =< m => s[2 * i] = u[2 * i])
  <2>1. hash_parent(s[2 * i - 1], IF 2 * i =< m THEN s[2 * i] ELSE s[2 * i - 1])
            = hash_parent(u[2 * i - 1], IF 2 * i =< m THEN u[2 * i] ELSE u[2 * i - 1])
    BY <1>2
  <2>2. s[2 * i - 1] = u[2 * i - 1]
        /\ (IF 2 * i =< m THEN s[2 * i] ELSE s[2 * i - 1]) = (IF 2 * i =< m THEN u[2 * i] ELSE u[2 * i - 1])
    BY <2>1, HashesAreTerms
  <2>. QED  BY <2>2
<1>4. ASSUME NEW j \in 1..m PROVE s[j] = u[j]
  <2>. DEFINE i == (j + 1) \div 2
  <2>1. i \in 1..Half(m) /\ (j = 2 * i - 1 \/ (j = 2 * i /\ 2 * i =< m))
    BY <1>1 DEF Half
  <2>. HIDE DEF i
  <2>. QED  BY <1>3, <2>1
<1>5. s = [j \in 1..m |-> s[j]] /\ u = [j \in 1..m |-> u[j]]
  BY DEF IsLevel
<1>. QED  BY <1>4, <1>5

\* Two lists with one root are one list.
LEMMA RootIsOfOneList ==
    ASSUME NEW S, NEW list \in Seq(S), NEW other \in Seq(S), list # <<>>, other # <<>>,
           Root(list) = Root(other)
    PROVE  list = other
<1>. DEFINE n == Len(list)
            D == Depth(n)
            t == Levels(list)
            u == Levels(other)
<1>0. n \in Nat \ {0} /\ Len(other) \in Nat \ {0}
  OBVIOUS
<1>1. t[D][1] = u[Depth(Len(other))][1] /\ n = Len(other)
  <2>1. hash_root(t[D][1], n) = hash_root(u[Depth(Len(other))][1], Len(other))
    BY DEF Root
  <2>. HIDE DEF t, u, n, D
  <2>. QED  BY <2>1, HashesAreTerms
<1>2. IsTree(t, list) /\ IsTree(u, other)
  BY <1>0, LevelsAreATree
<1>. HIDE DEF t, u
<1>3. D \in Nat
  BY <1>0, DepthIs
<1>4. /\ \A k \in 0..D : CoversLeaves(t[k], k, n)
      /\ \A k \in 0..(D - 1) : t[k + 1] = NextLevel(t[k]) /\ Len(t[k + 1]) = Half(Len(t[k]))
      /\ Len(t[0]) = n /\ Len(t[D]) = 1
  BY <1>0, <1>2, TreeShape
<1>5. /\ \A k \in 0..D : CoversLeaves(u[k], k, n)
      /\ \A k \in 0..(D - 1) : u[k + 1] = NextLevel(u[k]) /\ Len(u[k + 1]) = Half(Len(u[k]))
      /\ Len(u[0]) = n /\ Len(u[D]) = 1
  BY <1>0, <1>1, <1>2, TreeShape
<1>6. t[0] = [i \in 1..n |-> hash_leaf(list[i])] /\ u[0] = [i \in 1..n |-> hash_leaf(other[i])]
  BY <1>1, <1>2 DEF IsTree
<1>7. t[D][1] = u[D][1]
  BY <1>1
<1>20. n \in Nat \ {0} /\ list = [i \in 1..n |-> list[i]] /\ other = [i \in 1..n |-> other[i]]
  BY <1>1
<1>. HIDE DEF n, D
\* Widths agree, going up; nodes agree, going down.
<1>. DEFINE AsWide == {k \in Nat : k =< D => Len(t[k]) = Len(u[k])}
<1>8. Nat \subseteq AsWide
  <2>1. 0 \in AsWide
    BY <1>4, <1>5
  <2>2. ASSUME NEW k \in Nat, k \in AsWide PROVE k + 1 \in AsWide
    <3>. SUFFICES ASSUME k + 1 =< D PROVE Len(t[k + 1]) = Len(u[k + 1])
      OBVIOUS
    <3>1. k \in 0..(D - 1) /\ Len(t[k]) = Len(u[k])
      BY <1>3, <2>2
    <3>. QED  BY <1>4, <1>5, <3>1
  <2>. HIDE DEF AsWide
  <2>. QED  BY <2>1, <2>2, InductionOnNumbers
<1>. DEFINE Agreed == {j \in Nat : j =< D => t[D - j] = u[D - j]}
<1>9. Nat \subseteq Agreed
  <2>1. 0 \in Agreed
    <3>1. IsLevel(t[D], 1) /\ IsLevel(u[D], 1)
      <4>1. D \in 0..D
        BY <1>3
      <4>2. CoversLeaves(t[D], D, n) /\ CoversLeaves(u[D], D, n)
        BY <1>4, <1>5, <4>1
      <4>. QED  BY <1>4, <1>5, <4>2 DEF CoversLeaves
    <3>2. t[D] = [i \in 1..1 |-> t[D][i]] /\ u[D] = [i \in 1..1 |-> u[D][i]]
      BY <3>1 DEF IsLevel
    <3>3. t[D] = u[D]
      BY <1>7, <3>2
    <3>. QED  BY <1>3, <3>3
  <2>2. ASSUME NEW j \in Nat, j \in Agreed PROVE j + 1 \in Agreed
    <3>. SUFFICES ASSUME j + 1 =< D PROVE t[D - (j + 1)] = u[D - (j + 1)]
      OBVIOUS
    <3>. DEFINE k == D - (j + 1)
    <3>1. k \in 0..(D - 1) /\ k \in 0..D /\ k \in Nat /\ k =< D /\ k + 1 = D - j /\ j =< D
      BY <1>3
    <3>. HIDE DEF k
    <3>2. t[k + 1] = u[k + 1]
      BY <2>2, <3>1
    <3>3. NextLevel(t[k]) = NextLevel(u[k])
      BY <1>4, <1>5, <3>1, <3>2
    <3>4. IsLevel(t[k], Len(t[k])) /\ IsLevel(u[k], Len(u[k])) /\ Len(t[k]) = Len(u[k])
      BY <1>4, <1>5, <1>8, <3>1 DEF CoversLeaves
    <3>5. t[k] = u[k]
      BY <3>3, <3>4, NextLevelInjective
    <3>. QED  BY <3>5 DEF k
  <2>. HIDE DEF Agreed
  <2>. QED  BY <2>1, <2>2, InductionOnNumbers
<1>10. t[0] = u[0]
  <2>1. D \in Agreed /\ D - D = 0
    BY <1>3, <1>9
  <2>. QED  BY <1>3, <2>1
<1>11. \A i \in 1..n : list[i] = other[i]
  <2>. SUFFICES ASSUME NEW i \in 1..n PROVE list[i] = other[i]
    OBVIOUS
  <2>1. hash_leaf(list[i]) = hash_leaf(other[i])
    <3>1. t[0][i] = hash_leaf(list[i]) /\ u[0][i] = hash_leaf(other[i])
      BY <1>6
    <3>. QED  BY <1>10, <3>1
  <2>. QED  BY <2>1, HashesAreTerms
<1>. QED  BY <1>20, <1>11

\* One step of an audit path.
StepUp(node, s) == IF s.side = "left" THEN hash_parent(s.sibling, node)
                   ELSE hash_parent(node, s.sibling)

\* The fold of a path, over the sets of steps the fold goes through.
ClimbRecursion(it, digest, proof) ==
    it = [s \in SUBSET DOMAIN proof |->
             IF s = {} THEN hash_leaf(digest) ELSE StepUp(it[s \ {Max(s)}], proof[Max(s)])]

\* That recursion has a solution for every path.
LEMMA ClimbRecursionSolved ==
    ASSUME NEW digest, NEW proof, NEW n \in Nat, DOMAIN proof = 1..n
    PROVE  \E it : ClimbRecursion(it, digest, proof)
<1>. DEFINE S == DOMAIN proof
            c(s) == Max(s)
            Upto(m) == {s \in SUBSET S : Cardinality(s) =< m}
            Solves(g, m) == g = [s \in Upto(m) |-> IF s = {} THEN hash_leaf(digest)
                                                   ELSE StepUp(g[s \ {c(s)}], proof[c(s)])]
            Solvable == {m \in Nat : \E g : Solves(g, m)}
<1>a. IsFiniteSet(S)
  BY FS_Interval
<1>0. \A s \in SUBSET S : IsFiniteSet(s) /\ Cardinality(s) \in Nat /\ (Cardinality(s) = 0 <=> s = {})
  BY <1>a, FS_Subset, FS_CardinalityType, FS_EmptySet
<1>1. \A s \in SUBSET S : s # {} => c(s) \in s
  <2>. SUFFICES ASSUME NEW s \in SUBSET S, s # {} PROVE c(s) \in s
    OBVIOUS
  <2>1. s \in SUBSET Int
    OBVIOUS
  <2>. QED  BY <1>0, <2>1, MaxExists
<1>2. \A s \in SUBSET S : s # {} => Cardinality(s \ {c(s)}) = Cardinality(s) - 1
  BY <1>0, <1>1, FS_RemoveElement
<1>. HIDE DEF c, S
<1>3. 0 \in Solvable
  <2>. DEFINE g == [s \in Upto(0) |-> hash_leaf(digest)]
              h == [s \in Upto(0) |-> IF s = {} THEN hash_leaf(digest)
                                      ELSE StepUp(g[s \ {c(s)}], proof[c(s)])]
  <2>1. \A s \in Upto(0) : s = {}
    BY <1>0
  <2>2. g = h
    BY <2>1
  <2>3. Solves(g, 0)
    BY <2>2
  <2>. HIDE DEF g, h
  <2>. QED  BY <2>3
<1>4. ASSUME NEW m \in Nat, m \in Solvable PROVE m + 1 \in Solvable
  <2>1. PICK g : Solves(g, m)
    BY <1>4
  <2>. DEFINE h == [s \in Upto(m + 1) |-> IF s = {} THEN hash_leaf(digest)
                                          ELSE StepUp(g[s \ {c(s)}], proof[c(s)])]
  <2>2. \A s \in Upto(m) : s \in Upto(m + 1) /\ h[s] = g[s]
    <3>1. \A s \in Upto(m) : s \in Upto(m + 1)
      BY <1>0
    <3>. QED  BY <2>1, <3>1
  <2>3. \A s \in Upto(m + 1) : s # {} => s \ {c(s)} \in Upto(m)
    BY <1>0, <1>2
  <2>4. \A s \in Upto(m + 1) : s # {} => h[s \ {c(s)}] = g[s \ {c(s)}]
    BY <2>2, <2>3
  <2>5. Solves(h, m + 1)
    <3>. DEFINE k == [s \in Upto(m + 1) |-> IF s = {} THEN hash_leaf(digest)
                                            ELSE StepUp(h[s \ {c(s)}], proof[c(s)])]
    <3>1. \A s \in Upto(m + 1) : h[s] = k[s]
      BY <2>4
    <3>. QED  BY <3>1
  <2>. HIDE DEF h, Solves
  <2>. QED  BY <2>5
<1>5. Cardinality(S) \in Solvable
  <2>. HIDE DEF Solvable
  <2>1. Cardinality(S) \in Nat
    BY <1>0
  <2>. QED  BY <1>3, <1>4, <2>1, InductionOnNumbers
<1>6. Upto(Cardinality(S)) = SUBSET S
  BY <1>a, <1>0, FS_Subset
<1>. HIDE DEF Upto
<1>. QED  BY <1>5, <1>6 DEF c, S, ClimbRecursion

\* The last step of a path of n.
LEMMA MaxOfInterval ==
    ASSUME NEW k \in Nat \ {0}
    PROVE  Max(1..k) = k
<1>1. (1..k) \in SUBSET Int /\ 1..k # {}
  <2>1. k \in 1..k
    OBVIOUS
  <2>. QED  BY <2>1
<1>1a. IsFiniteSet(1..k)
  BY FS_Interval
<1>2. Max(1..k) \in 1..k /\ \A x \in 1..k : Max(1..k) >= x
  BY <1>1, <1>1a, MaxExists
<1>. QED  BY <1>2

\* The nodes on the way up, by the steps taken.
LEMMA ClimbIs ==
    ASSUME NEW digest, NEW proof, NEW n \in Nat, DOMAIN proof = 1..n
    PROVE  \E node : /\ node[0] = hash_leaf(digest)
                     /\ \A k \in 1..n : node[k] = StepUp(node[k - 1], proof[k])
                     /\ Climb(digest, proof) = node[n]
<1>. DEFINE it == CHOOSE g : ClimbRecursion(g, digest, proof)
<1>1. ClimbRecursion(it, digest, proof)
  BY ClimbRecursionSolved, Zenon
<1>2. Climb(digest, proof) = it[1..n]
  BY DEF Climb, FoldLeft, MapThenFoldSet, ClimbRecursion, StepUp
<1>. HIDE DEF it
<1>. DEFINE node == [k \in 0..n |-> it[1..k]]
<1>3. node[0] = hash_leaf(digest)
  <2>1. 1..0 = {} /\ {} \in SUBSET DOMAIN proof
    OBVIOUS
  <2>. QED  BY <1>1, <2>1 DEF ClimbRecursion
<1>4. ASSUME NEW k \in 1..n PROVE node[k] = StepUp(node[k - 1], proof[k])
  <2>1. (1..k) \ {k} = 1..(k - 1) /\ 1..k # {} /\ (1..k) \in SUBSET DOMAIN proof /\ k - 1 \in 0..n /\ k \in 0..n
    <3>1. (1..k) \ {k} = 1..(k - 1)
      OBVIOUS
    <3>2. k \in 1..k /\ \A i \in 1..k : i \in 1..n
      OBVIOUS
    <3>3. k - 1 \in 0..n /\ k \in 0..n
      OBVIOUS
    <3>. QED  BY <3>1, <3>2, <3>3
  <2>2. Max(1..k) = k
    BY MaxOfInterval
  <2>3. it[1..k] = StepUp(it[(1..k) \ {Max(1..k)}], proof[Max(1..k)])
    BY <1>1, <2>1 DEF ClimbRecursion
  <2>. QED  BY <2>1, <2>2, <2>3
<1>5. node[n] = it[1..n]
  OBVIOUS
<1>. HIDE DEF node
<1>. QED  BY <1>2, <1>3, <1>4, <1>5

-----------------------------------------------------------------------------
(* A path leads to the top from the digest of its leaf, and from no other. *)

\* Index of the node above a leaf, on a level.
Above(leaf, k) == leaf \div TwoTo[k]

\* The node above is at half the index on the next level.
LEMMA AboveIs ==
    ASSUME NEW leaf \in Nat
    PROVE  /\ Above(leaf, 0) = leaf
           /\ \A k \in Nat : Above(leaf, k) \in Nat /\ Above(leaf, k + 1) = Above(leaf, k) \div 2
<1>1. Above(leaf, 0) = leaf
  BY TwoToStep DEF Above
<1>2. ASSUME NEW k \in Nat
      PROVE  Above(leaf, k) \in Nat /\ Above(leaf, k + 1) = Above(leaf, k) \div 2
  <2>. DEFINE p == TwoTo[k]
  <2>1. p \in Nat \ {0} /\ TwoTo[k + 1] = 2 * p
    BY TwoToStep, TwoToPositive
  <2>. HIDE DEF p
  <2>2. leaf \div (2 * p) = (leaf \div p) \div 2 /\ leaf \div p \in Nat
    BY <2>1, DivTwice, DivIs
  <2>. QED  BY <2>1, <2>2 DEF Above, p
<1>. QED  BY <1>1, <1>2

\* The proof step that build makes for the node at idx of a level s of w nodes.
ProofStep(s, w, idx) ==
    IF idx % 2 = 1 THEN [sibling |-> s[idx], side |-> "left"]
    ELSE [sibling |-> s[IF idx + 2 =< w THEN idx + 2 ELSE idx + 1], side |-> "right"]

\* The sibling a path names at a node, and the node above them.
LEMMA StepUpIsParent ==
    ASSUME NEW s, NEW w, IsLevel(s, w), NEW idx \in 0..(w - 1), NEW node, NEW step,
           step = ProofStep(s, w, idx)
    PROVE  /\ idx \div 2 \in 0..(Half(w) - 1)
           /\ StepUp(node, step) = NextLevel(s)[idx \div 2 + 1] <=> node = s[idx + 1]
<1>. USE DEF ProofStep
<1>. DEFINE i == idx \div 2 + 1
<1>0. w \in Nat \ {0}
  BY DEF IsLevel
<1>1. i \in 1..Half(w) /\ (idx = 2 * i - 1 \/ idx = 2 * i - 2) /\ i = idx \div 2 + 1 /\ idx \in Int
  BY <1>0 DEF Half
<1>2. NextLevel(s)[i] = hash_parent(s[2 * i - 1], IF 2 * i =< w THEN s[2 * i] ELSE s[2 * i - 1])
  BY <1>1, NextLevelIs
<1>. HIDE DEF i
<1>3. idx \div 2 \in 0..(Half(w) - 1)
  BY <1>0, <1>1 DEF Half
<1>4. CASE idx = 2 * i - 1
  <2>1. idx % 2 = 1 /\ 2 * i =< w /\ 2 * i = idx + 1
    BY <1>0, <1>1, <1>4
  <2>2. StepUp(node, step) = hash_parent(s[idx], node)
    BY <2>1 DEF StepUp
  <2>3. NextLevel(s)[i] = hash_parent(s[idx], s[idx + 1])
    BY <1>2, <1>4, <2>1
  <2>4. StepUp(node, step) = NextLevel(s)[i] <=> node = s[idx + 1]
    BY <2>2, <2>3, HashesAreTerms
  <2>. QED  BY <1>1, <1>3, <2>4
<1>5. CASE idx = 2 * i - 2
  <2>1. idx % 2 # 1 /\ 2 * i - 1 = idx + 1 /\ 2 * i = idx + 2
    BY <1>0, <1>1, <1>5
  <2>. DEFINE right == s[IF idx + 2 =< w THEN idx + 2 ELSE idx + 1]
  <2>2. StepUp(node, step) = hash_parent(node, right)
    BY <2>1 DEF StepUp
  <2>3. right = IF 2 * i =< w THEN s[2 * i] ELSE s[2 * i - 1]
    BY <2>1
  <2>4. NextLevel(s)[i] = hash_parent(s[idx + 1], right)
    BY <1>2, <2>1, <2>3
  <2>. HIDE DEF right
  <2>5. StepUp(node, step) = NextLevel(s)[i] <=> node = s[idx + 1]
    BY <2>2, <2>4, HashesAreTerms
  <2>. QED  BY <1>1, <1>3, <2>5
<1>. QED  BY <1>1, <1>4, <1>5

\* The path of a leaf leads to the top from the digest of that leaf, and from no other.
LEMMA ClimbReachesTop ==
    ASSUME NEW S, NEW list \in Seq(S), list # <<>>, NEW leaf \in 0..(Len(list) - 1), NEW digest
    PROVE  /\ Climb(digest, Proof(list, leaf)) = Levels(list)[Depth(Len(list))][1]
                  <=> digest = list[leaf + 1]
           /\ Len(Proof(list, leaf)) = Depth(Len(list))
<1>. DEFINE n == Len(list)
            D == Depth(n)
            t == Levels(list)
            proof == Proof(list, leaf)
<1>0. n \in Nat \ {0} /\ leaf \in Nat /\ leaf < n
  OBVIOUS
<1>1. D \in Nat
  BY <1>0, DepthIs
<1>2. proof = [k \in 1..D |->
                  IF Above(leaf, k - 1) % 2 = 1
                  THEN [sibling |-> t[k - 1][Above(leaf, k - 1)], side |-> "left"]
                  ELSE [sibling |-> t[k - 1][IF Above(leaf, k - 1) + 2 =< Len(t[k - 1])
                                             THEN Above(leaf, k - 1) + 2 ELSE Above(leaf, k - 1) + 1],
                        side |-> "right"]]
  BY DEF Proof, Above
<1>3. IsTree(t, list)
  BY <1>0, LevelsAreATree
<1>. HIDE DEF t
<1>4. /\ \A k \in 0..D : CoversLeaves(t[k], k, n)
      /\ \A k \in 0..(D - 1) : t[k + 1] = NextLevel(t[k]) /\ Len(t[k + 1]) = Half(Len(t[k]))
      /\ Len(t[0]) = n /\ Len(t[D]) = 1
  BY <1>0, <1>3, TreeShape
<1>5. t[0][leaf + 1] = hash_leaf(list[leaf + 1])
  BY <1>0, <1>3 DEF IsTree
<1>6. DOMAIN proof = 1..D
  BY <1>2
<1>7. Len(proof) = D
  <2>1. proof = [k \in 1..D |-> proof[k]]
    BY <1>2
  <2>. HIDE DEF proof, D
  <2>. QED  BY <1>1, <2>1, LenOfLevel
<1>. HIDE DEF proof, D, n
<1>8. PICK node : /\ node[0] = hash_leaf(digest)
                  /\ \A k \in 1..D : node[k] = StepUp(node[k - 1], proof[k])
                  /\ Climb(digest, proof) = node[D]
  BY <1>1, <1>6, ClimbIs
<1>. DEFINE Reaches(k) == node[k] = t[k][Above(leaf, k) + 1] <=> digest = list[leaf + 1]
            Reached == {k \in Nat : k =< D => Above(leaf, k) \in 0..(Len(t[k]) - 1) /\ Reaches(k)}
<1>9. 0 \in Reached
  <2>1. Above(leaf, 0) = leaf
    BY <1>0, AboveIs
  <2>2. Above(leaf, 0) \in 0..(Len(t[0]) - 1)
    BY <1>0, <1>4, <2>1
  <2>3. Reaches(0)
    BY <1>5, <1>8, <2>1, HashesAreTerms
  <2>. QED  BY <2>2, <2>3
<1>10. ASSUME NEW k \in Nat, k \in Reached PROVE k + 1 \in Reached
  <2>. SUFFICES ASSUME k + 1 =< D
       PROVE Above(leaf, k + 1) \in 0..(Len(t[k + 1]) - 1) /\ Reaches(k + 1)
    OBVIOUS
  <2>. DEFINE idx == Above(leaf, k)
  <2>1. k \in 0..(D - 1) /\ k \in 0..D /\ k + 1 \in 1..D /\ (k + 1) - 1 = k
    BY <1>1
  <2>2. idx \in 0..(Len(t[k]) - 1) /\ (node[k] = t[k][idx + 1] <=> digest = list[leaf + 1])
    BY <1>10, <2>1
  <2>3. Above(leaf, k + 1) = idx \div 2
    BY <1>0, AboveIs
  <2>4. IsLevel(t[k], Len(t[k])) /\ t[k + 1] = NextLevel(t[k]) /\ Len(t[k + 1]) = Half(Len(t[k]))
    BY <1>4, <2>1 DEF CoversLeaves
  <2>5. proof[k + 1] = IF idx % 2 = 1 THEN [sibling |-> t[k][idx], side |-> "left"]
                       ELSE [sibling |-> t[k][IF idx + 2 =< Len(t[k]) THEN idx + 2 ELSE idx + 1],
                             side |-> "right"]
    BY <1>2, <2>1
  <2>6. node[k + 1] = StepUp(node[k], proof[k + 1])
    BY <1>8, <2>1
  <2>. HIDE DEF idx
  <2>7. /\ idx \div 2 \in 0..(Half(Len(t[k])) - 1)
        /\ StepUp(node[k], proof[k + 1]) = NextLevel(t[k])[idx \div 2 + 1] <=> node[k] = t[k][idx + 1]
    <3>. DEFINE s == t[k]
                w == Len(s)
                step == proof[k + 1]
    <3>1. IsLevel(s, w) /\ idx \in 0..(w - 1)
      BY <2>2, <2>4
    <3>2. step = ProofStep(s, w, idx)
      BY <2>5 DEF ProofStep
    <3>. HIDE DEF s, w, step
    <3>3. /\ idx \div 2 \in 0..(Half(w) - 1)
          /\ StepUp(node[k], step) = NextLevel(s)[idx \div 2 + 1] <=> node[k] = s[idx + 1]
      BY <3>1, <3>2, StepUpIsParent
    <3>. QED  BY <3>3 DEF s, w, step
  <2>. QED  BY <2>2, <2>3, <2>4, <2>6, <2>7
<1>. HIDE DEF Reached
<1>11. D \in Reached
  BY <1>1, <1>9, <1>10, InductionOnNumbers
<1>12. Above(leaf, D) \in 0..(Len(t[D]) - 1) /\ Reaches(D)
  BY <1>1, <1>11 DEF Reached
<1>13. Above(leaf, D) = 0
  BY <1>4, <1>12
<1>14. Climb(digest, proof) = t[D][1] <=> digest = list[leaf + 1]
  BY <1>8, <1>12, <1>13
<1>. QED  BY <1>7, <1>14 DEF proof, t, D, n

-----------------------------------------------------------------------------

\* A manifest lists at least one chunk.
LEMMA ListsAre ==
    ASSUME NEW list \in Lists
    PROVE  list \in Seq(Digests) /\ list # <<>> /\ Len(list) \in Nat \ {0}
<1>1. PICK n \in 1..MaxLeaves : list \in [1..n -> Digests]
  BY DEF Lists
<1>2. list \in Seq(Digests) /\ Len(list) = n /\ n \in Nat \ {0}
  BY <1>1, MerkleAssumption
<1>. QED  BY <1>2

\* The chunks of the manifest do not change.
MerkleInv == chunks \in Lists /\ ChecksSayTheTruth

\* verify_chunks tells the manifest's list from every other.
LEMMA RootIsTheLists ==
    ASSUME NEW list \in Lists, NEW other \in Lists
    PROVE  Root(list) = Root(other) <=> list = other
<1>1. Root(list) = Root(other) => list = other
  BY ListsAre, RootIsOfOneList
<1>. QED  BY <1>1

\* verify_inclusion accepts the digest of the leaf and no other, whether it knows the count
\* of the chunks or tries every count of the depth.
LEMMA InclusionIsTheLeafs ==
    ASSUME NEW list \in Lists, NEW leaf \in 0..(Len(list) - 1), NEW digest, NEW known \in BOOLEAN
    PROVE  LET proof == Proof(list, leaf)
               counts == IF known THEN {Len(list)} ELSE CountsOfDepth(Len(proof))
           IN  verify_inclusion(digest, proof, Root(list), counts) <=> list[leaf + 1] = digest
<1>. DEFINE proof == Proof(list, leaf)
            counts == IF known THEN {Len(list)} ELSE CountsOfDepth(Len(proof))
            top == Levels(list)[Depth(Len(list))][1]
<1>1. list \in Seq(Digests) /\ list # <<>> /\ Len(list) \in Nat \ {0}
  BY ListsAre
<1>2. (Climb(digest, proof) = top <=> digest = list[leaf + 1]) /\ Len(proof) = Depth(Len(list))
  BY <1>1, ClimbReachesTop
<1>3. Len(list) \in counts
  <2>1. Len(list) \in CountsOfDepth(Depth(Len(list)))
    BY <1>1, CountsOfDepthHaveIt
  <2>. QED  BY <1>2, <2>1
<1>4. Root(list) = hash_root(top, Len(list))
  BY DEF Root
<1>. HIDE DEF proof, counts, top
<1>5. \A count : hash_root(Climb(digest, proof), count) = Root(list)
                     <=> Climb(digest, proof) = top /\ count = Len(list)
  BY <1>4, HashesAreTerms
<1>6. verify_inclusion(digest, proof, Root(list), counts) <=> list[leaf + 1] = digest
  BY <1>2, <1>3, <1>5 DEF verify_inclusion
<1>. QED  BY <1>6 DEF proof, counts

\* For manifests of any length, verify_merkle_root accepts the chunks that are listed and no
\* others, and verify_inclusion the digest of the leaf and no other.
THEOREM ChecksTrue == MerkleSpec => []ChecksSayTheTruth
<1>1. MerkleInit => MerkleInv
  BY DEF MerkleInit, MerkleInv, ChecksSayTheTruth
<1>2. MerkleInv /\ [MerkleNext]_merkleVars => MerkleInv'
  <2>. SUFFICES ASSUME MerkleInv, [MerkleNext]_merkleVars PROVE MerkleInv'
    OBVIOUS
  <2>0. chunks \in Lists
    BY DEF MerkleInv
  <2>1. ASSUME VerifyMerkleRoot PROVE MerkleInv'
    <3>1. PICK list \in Lists :
              answer' = [asked |-> "list", list |-> list, yes |-> Root(list) = Root(chunks)]
      BY <2>1 DEF VerifyMerkleRoot
    <3>2. chunks' = chunks
      BY <2>1 DEF VerifyMerkleRoot
    <3>3. (Root(list) = Root(chunks)) = (list = chunks)
      BY <2>0, RootIsTheLists
    <3>4. answer'.asked = "list" /\ answer'.yes = (answer'.list = chunks')
      BY <3>1, <3>2, <3>3
    <3>. QED  BY <2>0, <3>2, <3>4 DEF MerkleInv, ChecksSayTheTruth
  <2>2. ASSUME VerifyInclusion PROVE MerkleInv'
    <3>1. PICK leaf \in 0..(Len(chunks) - 1), digest \in Digests, known \in BOOLEAN :
              LET proof == Proof(chunks, leaf)
                  counts == IF known THEN {Len(chunks)} ELSE CountsOfDepth(Len(proof))
              IN  answer' = [asked |-> "leaf", leaf |-> leaf, digest |-> digest,
                             yes |-> verify_inclusion(digest, proof, Root(chunks), counts)]
      BY <2>2 DEF VerifyInclusion
    <3>2. chunks' = chunks
      BY <2>2 DEF VerifyInclusion
    <3>. DEFINE yes == LET proof == Proof(chunks, leaf)
                           counts == IF known THEN {Len(chunks)} ELSE CountsOfDepth(Len(proof))
                       IN  verify_inclusion(digest, proof, Root(chunks), counts)
    <3>3. yes <=> chunks[leaf + 1] = digest
      BY <2>0, InclusionIsTheLeafs
    <3>4. answer' = [asked |-> "leaf", leaf |-> leaf, digest |-> digest, yes |-> yes]
      BY <3>1
    <3>5. yes \in BOOLEAN
      BY DEF verify_inclusion
    <3>. HIDE DEF yes
    <3>6. yes = (chunks[leaf + 1] = digest)
      BY <3>3, <3>5
    <3>7. answer'.asked = "leaf" /\ answer'.yes = (chunks'[answer'.leaf + 1] = answer'.digest)
      BY <3>2, <3>4, <3>6
    <3>. QED  BY <2>0, <3>2, <3>7 DEF MerkleInv, ChecksSayTheTruth
  <2>3. CASE UNCHANGED merkleVars
    BY <2>3 DEF merkleVars, MerkleInv, ChecksSayTheTruth
  <2>. QED  BY <2>1, <2>2, <2>3 DEF MerkleNext
<1>3. MerkleInv => ChecksSayTheTruth
  BY DEF MerkleInv
<1>. QED  BY <1>1, <1>2, <1>3, PTL DEF MerkleSpec

===============================================================================
