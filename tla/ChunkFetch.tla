------------------------------ MODULE ChunkFetch ------------------------------
(***************************************************************************)
(* One chunk fetched by _fetch_chunk until it is done or given up: the     *)
(* response read piece by piece, the pieces coalesced in a buffer and      *)
(* written at their offsets, every sub-block of the manifest checked as it *)
(* completes, and the part of the chunk a failed attempt leaves verified,  *)
(* which the next attempt does not ask for again.                          *)
(*                                                                         *)
(* The chunk has Size units; a unit is "good" when it is what the manifest *)
(* describes, "bad" when a mirror sends something else, and a "hole" where *)
(* the part file was never written.                                        *)
(***************************************************************************)
EXTENDS Integers, Sequences, FiniteSets

CONSTANTS
    Size,           \* units of the chunk
    SubBlock,       \* _sub_block_size
    Flush,          \* write_buffer_bytes
    MaxPiece,       \* bound: units the network delivers at once
    FetchAttempts   \* max_retries_per_chunk

ASSUME FetchAssumption ==
    /\ Size \in Nat \ {0} /\ SubBlock \in Nat \ {0}
    /\ Flush \in Nat \ {0} /\ MaxPiece \in Nat \ {0}
    /\ FetchAttempts \in Nat \ {0}

VARIABLES
    manifest,    \* digests known: "none", "chunk" or "blocks" (of the chunk too)
    disk,        \* the chunk's range of the part file
    fetchPc,     \* "idle", "reading", "done" or "abandoned"
    prefix,      \* _verified_prefix of the chunk, 0 when there is none
    resumeAt,    \* resume_at of the attempt
    stream,      \* units of the attempt, in the order they arrived
    flushed,     \* how many of them left the buffer
    retries,     \* chunk.retries
    digestOf     \* what the digest of the finished chunk was computed over

fetchVars == <<manifest, disk, fetchPc, prefix, resumeAt, stream, flushed, retries, digestOf>>

Units == 0..(Size - 1)
Good(s) == \A i \in 1..Len(s) : s[i] = "good"

\* The units of a full or trailing block b of the attempt; blocks are counted
\* from resumeAt, as _build_validator slices the digests.
BlockOf(s, b) == {i \in 1..Len(s) : (i - 1) \div SubBlock = b}
BlockIsBad(s, b) == \E i \in BlockOf(s, b) : s[i] # "good"

\* The full blocks of the stream that fail their digests.
BadBlocks(s) == {b \in 0..(Len(s) \div SubBlock - 1) : BlockIsBad(s, b)}

\* The file after the first n units of s are written from the buffer's start.
Written(s, n) ==
    [u \in Units |->
        IF u - resumeAt \in flushed..(n - 1) THEN s[u - resumeAt + 1] ELSE disk[u]]

\* _record_verified_prefix after a sub-block failure.
PrefixAfter(bad) ==
    LET good == (prefix \div SubBlock + bad) * SubBlock
        known == IF good < Size THEN good ELSE Size
    IN  IF known =< prefix THEN 0 ELSE known

FetchInit ==
    /\ manifest \in {"none", "chunk", "blocks"}
    /\ disk = [u \in Units |-> "hole"]
    /\ fetchPc = "idle"
    /\ prefix = 0 /\ resumeAt = 0
    /\ stream = <<>> /\ flushed = 0
    /\ retries = 0
    /\ digestOf = <<>>

\* The request for what is not verified yet.
Request ==
    /\ fetchPc = "idle"
    /\ fetchPc' = "reading"
    /\ resumeAt' = prefix
    /\ stream' = <<>> /\ flushed' = 0
    /\ UNCHANGED <<manifest, disk, prefix, retries, digestOf>>

\* A retry budget that is checked before the failure is counted.
AttemptedOnceMore(retryable, known) ==
    /\ prefix' = known
    /\ fetchPc' = IF retryable /\ retries < FetchAttempts THEN "idle" ELSE "abandoned"
    /\ retries' = retries + 1
    /\ stream' = <<>> /\ flushed' = 0
    /\ UNCHANGED <<manifest, resumeAt, digestOf>>

\* The attempt fails: the chunk is retried, or abandoned.
Attempted(retryable, known) ==
    /\ prefix' = known
    /\ fetchPc' = IF retryable /\ retries + 1 < FetchAttempts THEN "idle" ELSE "abandoned"
    /\ retries' = retries + 1
    /\ stream' = <<>> /\ flushed' = 0
    /\ UNCHANGED <<manifest, resumeAt, digestOf>>

\* A status or Content-Range that will not do, before any data.
Refused ==
    /\ fetchPc = "reading" /\ stream = <<>>
    /\ \E retryable \in BOOLEAN : Attempted(retryable, 0)
    /\ UNCHANGED disk

\* The connection breaks: what is in the buffer is dropped.
Broken ==
    /\ fetchPc = "reading"
    /\ Attempted(TRUE, 0)
    /\ UNCHANGED disk

\* More bytes than the range asked for.
TooLong ==
    /\ fetchPc = "reading"
    /\ Size - resumeAt - Len(stream) < MaxPiece
    /\ Attempted(FALSE, 0)
    /\ UNCHANGED disk

\* A write that fails after some of it reached the disk; not retryable.
WriteFails(s) ==
    /\ \E n \in flushed..(Len(s) - 1) : disk' = Written(s, n)
    /\ Attempted(FALSE, 0)

Arrives(piece) ==
    /\ fetchPc = "reading"
    /\ resumeAt + Len(stream) + Len(piece) =< Size

\* A bad block reported without writing the buffer first.
BadBlockUnflushed(piece) ==
    LET s == stream \o piece IN
    /\ Arrives(piece)
    /\ manifest = "blocks" /\ BadBlocks(s) # {}
    /\ disk' = disk
    /\ \E b \in BadBlocks(s) :
           (\A c \in BadBlocks(s) : b =< c) /\ Attempted(TRUE, PrefixAfter(b))

\* A piece completes a block that is bad: the buffer is written, and the
\* blocks before the bad one are kept.
BadBlock(piece) ==
    LET s == stream \o piece IN
    /\ Arrives(piece)
    /\ manifest = "blocks" /\ BadBlocks(s) # {}
    /\ \/ /\ disk' = Written(s, Len(s))
          /\ \E b \in BadBlocks(s) :
                 (\A c \in BadBlocks(s) : b =< c) /\ Attempted(TRUE, PrefixAfter(b))
       \/ WriteFails(s)

\* A piece joins the buffer, which is written once it is full.
Piece(piece) ==
    LET s == stream \o piece IN
    /\ Arrives(piece)
    /\ manifest = "blocks" => BadBlocks(s) = {}
    /\ \/ /\ Len(s) - flushed < Flush
          /\ stream' = s
          /\ UNCHANGED <<manifest, disk, fetchPc, prefix, resumeAt, flushed, retries, digestOf>>
       \/ /\ Len(s) - flushed >= Flush
          /\ stream' = s /\ flushed' = Len(s) /\ disk' = Written(s, Len(s))
          /\ UNCHANGED <<manifest, fetchPc, prefix, resumeAt, retries, digestOf>>
       \/ /\ Len(s) - flushed >= Flush
          /\ WriteFails(s)

\* The trailing partial block, which finalize checks.
TrailingIsBad == Len(stream) % SubBlock # 0 /\ BlockIsBad(stream, Len(stream) \div SubBlock)

\* A digest of the streamed units although the attempt resumed.
DigestOfStream == stream

\* The digest covers the stream, or, after a resume, the chunk on disk.
Digested ==
    IF resumeAt > 0 THEN [i \in 1..Size |-> Written(stream, Len(stream))[i - 1]] ELSE stream

\* The response ends: the rest of the buffer is written, and the chunk is
\* whole, trailing block and digest right, or the attempt fails.
Ended ==
    /\ fetchPc = "reading"
    /\ \/ flushed < Len(stream) /\ WriteFails(stream)
       \/ /\ disk' = Written(stream, Len(stream))
          /\ \/ resumeAt + Len(stream) # Size /\ Attempted(TRUE, 0)
             \/ /\ resumeAt + Len(stream) = Size
                /\ manifest = "blocks" /\ TrailingIsBad
                /\ Attempted(TRUE, PrefixAfter(Len(stream) \div SubBlock))
             \/ /\ resumeAt + Len(stream) = Size
                /\ ~(manifest = "blocks" /\ TrailingIsBad)
                /\ manifest # "none" /\ ~Good(Digested)
                /\ Attempted(TRUE, 0)
             \/ /\ resumeAt + Len(stream) = Size
                /\ ~(manifest = "blocks" /\ TrailingIsBad)
                /\ manifest = "none" \/ Good(Digested)
                /\ fetchPc' = "done"
                /\ digestOf' = Digested
                /\ prefix' = 0 /\ stream' = <<>> /\ flushed' = 0
                /\ UNCHANGED <<manifest, resumeAt, retries>>

Pieces == UNION {[1..n -> {"good", "bad"}] : n \in 1..MaxPiece}

FetchNext ==
    \/ Request \/ Refused \/ Broken \/ TooLong \/ Ended
    \/ \E piece \in Pieces : BadBlock(piece) \/ Piece(piece)

FetchSpec == FetchInit /\ [][FetchNext]_fetchVars

-----------------------------------------------------------------------------
(* Properties *)

FetchTypeOK ==
    /\ manifest \in {"none", "chunk", "blocks"}
    /\ disk \in [Units -> {"hole", "good", "bad"}]
    /\ fetchPc \in {"idle", "reading", "done", "abandoned"}
    /\ prefix \in 0..Size /\ resumeAt \in 0..Size
    /\ stream \in Seq({"good", "bad"}) /\ Len(stream) =< Size - resumeAt
    /\ flushed \in 0..Len(stream)
    /\ retries \in 0..FetchAttempts
    /\ digestOf \in Seq({"hole", "good", "bad"})

(***************************************************************************)
(* The prefix a retry trusts without asking for it again is on disk and    *)
(* matches the manifest, whatever the attempts before it received and      *)
(* wherever they stopped (the comment on _fetch_chunk: "already durable on *)
(* disk").                                                                 *)
(***************************************************************************)
PrefixIsVerified == \A u \in Units : u < prefix => disk[u] = "good"

(***************************************************************************)
(* A chunk reported complete is on disk as its digest says, unit for unit, *)
(* and as the manifest says when there is one: no resumed attempt, dropped *)
(* buffer or short last write leaves the digest of one thing and the bytes *)
(* of another.                                                             *)
(***************************************************************************)
DigestIsOfTheChunk ==
    fetchPc = "done" =>
        /\ digestOf = [i \in 1..Size |-> disk[i - 1]]
        /\ manifest # "none" => \A u \in Units : disk[u] = "good"
=============================================================================
