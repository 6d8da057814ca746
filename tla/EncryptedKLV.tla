---------------------------- MODULE EncryptedKLV ----------------------------
(***************************************************************************)
(* KLVEObject (mxflib/crypto): a KLV whose value is encrypted while it is  *)
(* written chunk by chunk (GCWriter::WriteRaw), and decrypted while it is  *)
(* read with requests of any size.  The bytes before the plaintext offset  *)
(* stay as they are, the rest is encrypted in blocks; what does not fill a *)
(* block waits for the next call, on both sides.                           *)
(*                                                                         *)
(* A byte is its place in the value.  A cell of the file is a byte, and    *)
(* the number of the block it was encrypted in, 0 if it was not.  Blocks   *)
(* are chained: one that is decrypted out of its turn is noise.  A hash is *)
(* the list of the cells it was made from.  The header and its lengths,    *)
(* the check value and the optional identifiers of the footer are left     *)
(* out: they are the same on both sides.                                   *)
(***************************************************************************)
EXTENDS Integers, Sequences

CONSTANTS
    Granularity,    \* EncryptionGranularity: bytes of a block
    Values,         \* the KLVs: [length, plain, hashing, chunk, requests]
    All,            \* the request for all bytes there are, (size_t)-1
    Null

VARIABLES
    klv,        \* the KLV: the length of its value, PlaintextOffset asked for,
                \* is there a hasher?, ReadChunkSize, sizes of the requests
    cells,      \* the value in the file, from the end of the header
    mic,        \* the hash in the footer, Null without one
    encryptor,  \* the object that writes
    decryptor   \* the object that reads

klvVars == <<klv, cells, mic, encryptor, decryptor>>

Pad == -1
Noise == -2

\* The IV and the check value, which both hashes start with; the check value
\* is the first block of the chain.
Start == [block |-> 0, byte |-> -3]

ASSUME EncryptedKLVAssumption ==
    /\ Granularity \in Nat \ {0}
    /\ \A v \in Values : /\ {v.length, v.plain, v.chunk} \subseteq Nat /\ v.chunk > 0
                         /\ v.hashing \in BOOLEAN
                         /\ v.requests \subseteq (Nat \ {0}) \cup {All}

ValueLength == klv.length

\* WriteKL and LoadData: no more is plain than there is.
PlaintextOffset == IF klv.plain > klv.length THEN klv.length ELSE klv.plain

\* There are 1 to Granularity bytes of padding.
EncryptedLength ==
    PlaintextOffset + (((ValueLength - PlaintextOffset) + Granularity) \div Granularity) * Granularity

\* CurrentWriteOffset, AwaitingEncryptionBuffer, the next block, the hash, and
\* Offset of WriteRaw.
NewEncryptor == [offset |-> 0, awaiting |-> << >>, block |-> 1, hash |-> << >>, at |-> 0, done |-> FALSE]

\* CurrentReadOffset, PreDecryptBuffer and PreDecrypted, the next block, the
\* hash; the data of the last call, its offset, and whether the caller is done.
NewDecryptor ==
    [offset |-> 0, buffer |-> [i \in 1 .. Granularity |-> Noise], pre |-> 0, block |-> 1, hash |-> << >>,
     data |-> << >>, at |-> 0, ended |-> FALSE]

KLVInit ==
    /\ klv \in Values
    /\ cells = << >>
    /\ mic = Null
    /\ encryptor = NewEncryptor
    /\ decryptor = NewDecryptor

-----------------------------------------------------------------------------
FirstOf(list, n) == SubSeq(list, 1, n)

Back(list, n) == SubSeq(list, n + 1, Len(list))

Least(a, b) == IF a < b THEN a ELSE b

Clear(bytes) == [i \in 1 .. Len(bytes) |-> [block |-> 0, byte |-> bytes[i]]]

\* The cipher, from a given block on.
Encrypt(bytes, block) ==
    [i \in 1 .. Len(bytes) |-> [block |-> block + ((i - 1) \div Granularity), byte |-> bytes[i]]]

Decrypt(list, block) ==
    [i \in 1 .. Len(list) |->
        IF list[i].block = block + ((i - 1) \div Granularity) THEN list[i].byte ELSE Noise]

\* Base_WriteDataTo at an offset; a gap would be noise.
Put(list, offset) ==
    [i \in 1 .. (IF Len(cells) > offset + Len(list) THEN Len(cells) ELSE offset + Len(list)) |->
        CASE i \in offset + 1 .. offset + Len(list) -> list[i - offset]
          [] i \in 1 .. Least(offset, Len(cells)) -> cells[i]
          [] i > offset + Len(list) -> cells[i]
          [] OTHER -> [block |-> 0, byte |-> Noise]]

Hashed(hash, list) == IF klv.hashing THEN hash \o list ELSE hash

-----------------------------------------------------------------------------
(***************************************************************************)
(* WriteCryptoDataTo, of the object e: what is left of a block waits, and  *)
(* the last bytes are padded.  Bytes that do not even fill up the block    *)
(* that waits are copied but not counted (AwaitingEncryption is not set),  *)
(* so they are gone.  `plain' has been written before.                     *)
(***************************************************************************)
\* A mutant: the bytes that wait are not taken off.
FromOffset(offset, awaiting) == offset

\* The code takes them off the offset.
FromAwaiting(offset, awaiting) == offset - Len(awaiting)

WriteCryptoDataTo(e, plain, bytes, offset) ==
    LET last == offset + Len(bytes) >= ValueLength
        all == e.awaiting \o bytes
        from == FromAwaiting(offset, e.awaiting)
        whole == IF last THEN EncryptedLength - (Granularity + from)
                 ELSE (Len(all) \div Granularity) * Granularity
        rest == Back(all, whole)
        padded == [i \in 1 .. Granularity |-> IF i <= Len(rest) THEN rest[i] ELSE Pad]
        crypt == Encrypt(IF last THEN FirstOf(all, whole) \o padded ELSE FirstOf(all, whole), e.block)
        next == [e EXCEPT !.offset = @ + Len(bytes), !.at = offset + Len(bytes)]
    IN IF ~last /\ Len(bytes) < Granularity - Len(e.awaiting)
       THEN cells' = Put(plain, offset - Len(plain)) /\ encryptor' = next
       ELSE /\ cells' = Put(plain \o crypt, from - Len(plain))
            /\ encryptor' = [next EXCEPT !.block = @ + Len(crypt) \div Granularity,
                                         !.awaiting = IF last THEN << >> ELSE rest,
                                         !.hash = Hashed(@, crypt)]

\* WriteFooter, when the end has been reached.
WriteFooter == mic' = IF klv.hashing /\ encryptor'.offset >= ValueLength THEN encryptor'.hash ELSE mic

\* WriteDataTo, of what WriteRaw has read at e.at; `first' is after the IV and
\* the check value.  With bytes of both kinds the hash gets all of them plain.
WriteDataTo(bytes) ==
    LET at == encryptor.at
        first == [encryptor EXCEPT !.hash = IF encryptor.offset = 0 THEN Hashed(@, <<Start>>) ELSE @]
        mixed == [first EXCEPT !.hash = Hashed(@, Clear(bytes)), !.offset = PlaintextOffset]
        plain == PlaintextOffset - at
    IN /\ \/ /\ at >= PlaintextOffset
             /\ at = encryptor.offset
             /\ WriteCryptoDataTo(first, << >>, bytes, at)
          \/ /\ at + Len(bytes) < PlaintextOffset
             /\ cells' = Put(Clear(bytes), at)
             /\ encryptor' = [first EXCEPT !.hash = Hashed(@, Clear(bytes)), !.offset = at + Len(bytes),
                                           !.at = at + Len(bytes)]
          \/ /\ at < PlaintextOffset /\ at + Len(bytes) >= PlaintextOffset
             /\ encryptor.offset <= PlaintextOffset
             /\ WriteCryptoDataTo(mixed, Clear(FirstOf(bytes, plain)), Back(bytes, plain), PlaintextOffset)
       /\ WriteFooter

\* The loop of GCWriter::WriteRaw, chunk by chunk.
WriteChunk ==
    LET n == Least(klv.chunk, ValueLength - encryptor.at)
    IN /\ ~encryptor.done
       /\ \/ n > 0 /\ WriteDataTo([i \in 1 .. n |-> encryptor.at + i - 1])
          \/ n = 0 /\ encryptor' = [encryptor EXCEPT !.done = TRUE] /\ UNCHANGED <<cells, mic>>
       /\ UNCHANGED <<klv, decryptor>>

-----------------------------------------------------------------------------
(***************************************************************************)
(* ReadCryptoDataFrom, of the object d: what has been decrypted before,    *)
(* then as many blocks as are needed; what is too much is kept for the     *)
(* next call, and the padding is taken off.  A call that needs no more     *)
(* than has been decrypted leaves PreDecrypted as it is.                   *)
(***************************************************************************)
\* A mutant: what has been decrypted before is forgotten.
JoinedFresh(before, fresh) == fresh

\* The code puts it in front.
Joined(before, fresh) == before \o fresh

ReadCryptoDataFrom(d, offset, size) ==
    LET toRead == IF size = All THEN EncryptedLength - offset ELSE Least(size, EncryptedLength - offset)
        ready == toRead <= d.pre
        count == IF ready THEN 0
                 ELSE (((toRead - d.pre) + (Granularity - 1)) \div Granularity) * Granularity
        crypt == SubSeq(cells, offset + d.pre + 1, offset + d.pre + count)
        all == IF ready THEN FirstOf(d.buffer, toRead)
               ELSE Joined(FirstOf(d.buffer, d.pre), Decrypt(crypt, d.block))
        keep == IF size = All THEN Len(all) ELSE Least(size, Len(all))
        data == FirstOf(all, Least(keep, ValueLength - offset))
        next == [d EXCEPT !.offset = @ + toRead, !.data = data]
    IN IF ready
       THEN [next EXCEPT !.buffer = [i \in 1 .. Granularity |-> IF i <= Granularity - Len(data) THEN @[i + Len(data)] ELSE @[i]]]
       ELSE [next EXCEPT !.block = @ + count \div Granularity,
                         !.hash = Hashed(@, crypt),
                         !.pre = Len(all) - keep,
                         !.buffer = [i \in 1 .. Granularity |-> IF i <= Len(all) - keep THEN all[keep + i] ELSE @[i]]]

\* ReadFooter, when the end has been reached: a hash that differs drops the data.
ReadFooter(d) ==
    IF d.offset >= ValueLength /\ klv.hashing /\ mic # d.hash THEN [d EXCEPT !.data = << >>] ELSE d

\* ReadDataFrom inside the plaintext, and across its end.
ReadPlain(d, offset, size) ==
    LET list == SubSeq(cells, offset + 1, offset + size)
    IN [d EXCEPT !.offset = offset + size, !.hash = Hashed(@, list), !.data = [i \in 1 .. size |-> list[i].byte]]

ReadMixed(d, offset, size) ==
    LET plain == ReadPlain(d, offset, PlaintextOffset - offset)
        crypt == ReadCryptoDataFrom(plain, PlaintextOffset, IF size = All THEN All ELSE size - Len(plain.data))
        data == plain.data \o crypt.data
    IN [crypt EXCEPT !.offset = offset + Len(data), !.data = data]

\* ReadDataFrom at an offset before the end.  Random access to what is
\* encrypted, and to the plaintext while hashing, is refused.
ReadDataFrom(offset, size) ==
    LET first == [decryptor EXCEPT !.hash = IF decryptor.offset = 0 THEN Hashed(@, <<Start>>) ELSE @]
        inPlain == size # All /\ offset + size < PlaintextOffset
        refused == IF offset >= PlaintextOffset THEN offset # decryptor.offset
                   ELSE IF inPlain THEN klv.hashing /\ offset # decryptor.offset
                   ELSE decryptor.offset > PlaintextOffset
    IN CASE refused -> [first EXCEPT !.data = << >>]
         [] ~refused /\ offset >= PlaintextOffset -> ReadFooter(ReadCryptoDataFrom(first, offset, size))
         [] ~refused /\ offset < PlaintextOffset /\ inPlain -> ReadFooter(ReadPlain(first, offset, size))
         [] OTHER -> ReadFooter(ReadMixed(first, offset, size))

\* A caller reads on until there is no more; without a hasher it may also start
\* again as long as nothing has been decrypted.
Read ==
    /\ encryptor.done /\ ~decryptor.ended
    /\ \E size \in klv.requests, at \in {0, decryptor.at + Len(decryptor.data)} :
        /\ at = 0 => (~klv.hashing /\ decryptor.block = NewDecryptor.block) \/ decryptor.offset = 0
        /\ LET d == IF at >= ValueLength THEN [decryptor EXCEPT !.data = << >>] ELSE ReadDataFrom(at, size)
           IN decryptor' = [d EXCEPT !.at = at, !.ended = d.data = << >>]
    /\ UNCHANGED <<klv, cells, mic, encryptor>>

\* The next KLV, of the same size.
NextKLV ==
    /\ decryptor.ended
    /\ UNCHANGED klv
    /\ cells' = << >> /\ mic' = Null /\ encryptor' = NewEncryptor /\ decryptor' = NewDecryptor

KLVNext == WriteChunk \/ Read \/ NextKLV

KLVSpec == KLVInit /\ [][KLVNext]_klvVars

-----------------------------------------------------------------------------
(***************************************************************************)
(* What the code needs, to write and to read a value as it is meant.       *)
(***************************************************************************)
\* The bytes of a chunk behind the plaintext, of that which reaches its end,
\* are none, a block or more, or the rest of the value: fewer are lost.  A hash
\* needs that there are none, as it gets them without encryption.
BehindPlain(v) == {n \in 0 .. v.chunk - 1 : \E k \in 1 .. v.plain : v.plain + n = k * v.chunk}

Writable(v) ==
    /\ v.length > 0 /\ v.chunk >= Granularity
    /\ \A n \in BehindPlain(v) :
        /\ n = 0 \/ n >= Granularity \/ v.plain + n >= v.length
        /\ v.hashing => n = 0 \/ v.plain >= v.length

\* No request is less than a block.  With a hasher a request for a part must not
\* be one after which only padding is left: it would be compared too early.
Readable(v) ==
    /\ \A size \in v.requests : size = All \/ size >= Granularity
    /\ v.hashing => \/ v.plain < v.length /\ (v.length - v.plain) % Granularity # 0
                    \/ v.requests = {All}

\* When WriteRaw is done with a KLV, each byte of it is in the file, once and at
\* its place: the plaintext as it is, the rest in blocks that follow each other
\* without a gap, the last one padded; and the hash in the footer is that of
\* what is in the file, whatever the chunks that were written.
WrittenWhole ==
    encryptor.done =>
        /\ Len(cells) = EncryptedLength
        /\ \A i \in DOMAIN cells :
            cells[i] = [block |-> IF i <= PlaintextOffset THEN 0 ELSE 1 + (i - PlaintextOffset - 1) \div Granularity,
                        byte |-> IF i <= ValueLength THEN i - 1 ELSE Pad]
        /\ mic = IF klv.hashing THEN <<Start>> \o cells ELSE Null

\* Whatever the sizes of its requests, a caller gets the bytes of the value from
\* the offset it asked for, deciphered and without padding, and no less than
\* all of them before it is told that there are no more.
ReadBack ==
    /\ \A i \in DOMAIN decryptor.data : decryptor.data[i] = decryptor.at + i - 1
    /\ decryptor.ended => decryptor.at = ValueLength
=============================================================================
