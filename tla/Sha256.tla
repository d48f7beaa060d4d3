------------------------------- MODULE Sha256 -------------------------------
(***************************************************************************)
(* SHA-256 as src/encryptions/sha computes it.  A uint32_t is the pair of  *)
(* its high and its low 16 bits.                                           *)
(***************************************************************************)
EXTENDS Integers, Sequences

LOCAL INSTANCE Bitwise

VARIABLES shaSample,  \* data, room (max_len) and the answer known for them
          shaAt,      \* "prepare", "refused", "hash", "schedule", "rounds", "done"
          shaData,    \* the padded data
          shaBlock,   \* block_index
          shaW,       \* the message schedule so far
          shaIndex,   \* rounds done of this block
          shaState,   \* a .. h
          shaHash     \* h0 .. h7

shaVars == <<shaSample, shaAt, shaData, shaBlock, shaW, shaIndex, shaState, shaHash>>

BLOCK_SIZE_BYTES == 64

round_constants ==
    <<<<\h428A, \h2F98>>, <<\h7137, \h4491>>, <<\hB5C0, \hFBCF>>, <<\hE9B5, \hDBA5>>,
      <<\h3956, \hC25B>>, <<\h59F1, \h11F1>>, <<\h923F, \h82A4>>, <<\hAB1C, \h5ED5>>,
      <<\hD807, \hAA98>>, <<\h1283, \h5B01>>, <<\h2431, \h85BE>>, <<\h550C, \h7DC3>>,
      <<\h72BE, \h5D74>>, <<\h80DE, \hB1FE>>, <<\h9BDC, \h06A7>>, <<\hC19B, \hF174>>,
      <<\hE49B, \h69C1>>, <<\hEFBE, \h4786>>, <<\h0FC1, \h9DC6>>, <<\h240C, \hA1CC>>,
      <<\h2DE9, \h2C6F>>, <<\h4A74, \h84AA>>, <<\h5CB0, \hA9DC>>, <<\h76F9, \h88DA>>,
      <<\h983E, \h5152>>, <<\hA831, \hC66D>>, <<\hB003, \h27C8>>, <<\hBF59, \h7FC7>>,
      <<\hC6E0, \h0BF3>>, <<\hD5A7, \h9147>>, <<\h06CA, \h6351>>, <<\h1429, \h2967>>,
      <<\h27B7, \h0A85>>, <<\h2E1B, \h2138>>, <<\h4D2C, \h6DFC>>, <<\h5338, \h0D13>>,
      <<\h650A, \h7354>>, <<\h766A, \h0ABB>>, <<\h81C2, \hC92E>>, <<\h9272, \h2C85>>,
      <<\hA2BF, \hE8A1>>, <<\hA81A, \h664B>>, <<\hC24B, \h8B70>>, <<\hC76C, \h51A3>>,
      <<\hD192, \hE819>>, <<\hD699, \h0624>>, <<\hF40E, \h3585>>, <<\h106A, \hA070>>,
      <<\h19A4, \hC116>>, <<\h1E37, \h6C08>>, <<\h2748, \h774C>>, <<\h34B0, \hBCB5>>,
      <<\h391C, \h0CB3>>, <<\h4ED8, \hAA4A>>, <<\h5B9C, \hCA4F>>, <<\h682E, \h6FF3>>,
      <<\h748F, \h82EE>>, <<\h78A5, \h636F>>, <<\h84C8, \h7814>>, <<\h8CC7, \h0208>>,
      <<\h90BE, \hFFFA>>, <<\hA450, \h6CEB>>, <<\hBEF9, \hA3F7>>, <<\hC671, \h78F2>>>>

InitialHash ==
    <<<<\h6A09, \hE667>>, <<\hBB67, \hAE85>>, <<\h3C6E, \hF372>>, <<\hA54F, \hF53A>>,
      <<\h510E, \h527F>>, <<\h9B05, \h688C>>, <<\h1F83, \hD9AB>>, <<\h5BE0, \hCD19>>>>

-----------------------------------------------------------------------------
Half == 65536
XorWord(x, y) == <<x[1] ^^ y[1], x[2] ^^ y[2]>>
AndWord(x, y) == <<x[1] & y[1], x[2] & y[2]>>
NotWord(x) == <<Half - 1 - x[1], Half - 1 - x[2]>>
AddWord(x, y) ==
    LET low == x[2] + y[2]
    IN  <<(x[1] + y[1] + (low \div Half)) % Half, low % Half>>

(* x >> n, for n below 16. *)
Shift(x, n) == <<x[1] \div 2 ^ n, (x[2] \div 2 ^ n) + (x[1] % 2 ^ n) * 2 ^ (16 - n)>>
rotr(x, n) ==
    LET y == IF n < 16 THEN x ELSE <<x[2], x[1]>>
        k == n % 16
    IN  <<(y[1] \div 2 ^ k) + (y[2] % 2 ^ k) * 2 ^ (16 - k),
          (y[2] \div 2 ^ k) + (y[1] % 2 ^ k) * 2 ^ (16 - k)>>

ch(x, y, z) == XorWord(AndWord(x, y), AndWord(NotWord(x), z))
maj(x, y, z) == XorWord(XorWord(AndWord(x, y), AndWord(x, z)), AndWord(y, z))
bsig0(x) == XorWord(XorWord(rotr(x, 2), rotr(x, 13)), rotr(x, 22))
bsig1(x) == XorWord(XorWord(rotr(x, 6), rotr(x, 11)), rotr(x, 25))
ssig0(x) == XorWord(XorWord(rotr(x, 7), rotr(x, 18)), Shift(x, 3))
ssig1(x) == XorWord(XorWord(rotr(x, 17), rotr(x, 19)), Shift(x, 10))

-----------------------------------------------------------------------------
(* hash_prepare_data_sha256: the padded data, or nothing when max_len is   *)
(* too little (the code returns 0).  Lengths are below 2^28.               *)
PaddedLengthShort(length) ==   \* slip: the 0x80 byte is not counted
    ((length + 8 + BLOCK_SIZE_BYTES - 1) \div BLOCK_SIZE_BYTES) * BLOCK_SIZE_BYTES
PaddedLength(length) ==
    LET total_len == length + 1 + 8
        pad_len == (BLOCK_SIZE_BYTES - (total_len % BLOCK_SIZE_BYTES)) % BLOCK_SIZE_BYTES
    IN  total_len + pad_len

hash_prepare_data_sha256(data, max_len) ==
    LET length == Len(data)
        total_len == PaddedLength(length)
        BitLength(k) == IF k > 3 THEN 0 ELSE ((length * 8) \div 256 ^ k) % 256
    IN  IF total_len > max_len THEN <<>>
        ELSE [i \in 1 .. total_len |->
                 CASE i <= length -> data[i]
                   [] i = length + 1 -> \h80
                   [] i > total_len - 8 -> BitLength(total_len - i)
                   [] OTHER -> 0]

-----------------------------------------------------------------------------
(* The known answers of FIPS 180-4's examples, one of the length of a      *)
(* common key (derive_symmetric_key_from_public gives it SHA_PADDING = 64  *)
(* bytes of room), and lengths about the edge of a block, which are only   *)
(* prepared.                                                               *)
KnownAnswers ==
    {[data |-> <<>>, room |-> 64, answer |->
         <<<<\hE3B0, \hC442>>, <<\h98FC, \h1C14>>, <<\h9AFB, \hF4C8>>, <<\h996F, \hB924>>,
           <<\h27AE, \h41E4>>, <<\h649B, \h934C>>, <<\hA495, \h991B>>, <<\h7852, \hB855>>>>],
     [data |-> <<97, 98, 99>>, room |-> 256, answer |->
         <<<<\hBA78, \h16BF>>, <<\h8F01, \hCFEA>>, <<\h4141, \h40DE>>, <<\h5DAE, \h2223>>,
           <<\hB003, \h61A3>>, <<\h9617, \h7A9C>>, <<\hB410, \hFF61>>, <<\hF200, \h15AD>>>>],
     [data |-> [i \in 1 .. 56 |-> 97 + ((i - 1) \div 4) + ((i - 1) % 4)], room |-> 128, answer |->
         <<<<\h248D, \h6A61>>, <<\hD206, \h38B8>>, <<\hE5C0, \h2693>>, <<\h0C3E, \h6039>>,
           <<\hA33C, \hE459>>, <<\h64FF, \h2167>>, <<\hF6EC, \hEDD4>>, <<\h19DB, \h06C1>>>>],
     [data |-> [i \in 1 .. 256 |-> i - 1], room |-> 256 + 64, answer |->
         <<<<\h40AF, \hF2E9>>, <<\hD2D8, \h922E>>, <<\h47AF, \hD464>>, <<\h8E69, \h6749>>,
           <<\h7158, \h785F>>, <<\hBD1D, \hA870>>, <<\hE711, \h0266>>, <<\hBF94, \h4880>>>>]}

ShaSamples ==
    KnownAnswers
    \cup {[data |-> [i \in 1 .. n |-> 255], room |-> n + extra, answer |-> <<>>] :
              n \in {0, 1, 54, 55, 56, 57, 63, 64, 65, 119, 120, 128},
              extra \in {0, 8, 9, 10, 63, 64, 71, 72, 73}}

ShaInit ==
    /\ shaSample \in ShaSamples
    /\ shaAt = "prepare"
    /\ shaData = <<>> /\ shaBlock = 0 /\ shaW = <<>> /\ shaIndex = 0
    /\ shaState = InitialHash /\ shaHash = InitialHash

(* The caller prepares its data, and gives up on a 0. *)
Prepare ==
    /\ shaAt = "prepare"
    /\ shaData' = hash_prepare_data_sha256(shaSample.data, shaSample.room)
    /\ shaAt' = IF shaData' = <<>> THEN "refused"
                ELSE IF shaSample.answer = <<>> THEN "done" ELSE "hash"
    /\ UNCHANGED <<shaSample, shaBlock, shaW, shaIndex, shaState, shaHash>>

(* hash_sha256 begins a block with its first 16 words, or is done. *)
BeginBlock ==
    /\ shaAt = "hash"
    /\ IF shaBlock < Len(shaData) \div BLOCK_SIZE_BYTES
       THEN LET Byte(n) == shaData[shaBlock * BLOCK_SIZE_BYTES + n + 1]
            IN  /\ shaW' = [i \in 1 .. 16 |->
                               <<Byte(4 * i - 4) * 256 + Byte(4 * i - 3),
                                 Byte(4 * i - 2) * 256 + Byte(4 * i - 1)>>]
                /\ shaAt' = "schedule" /\ shaState' = shaHash
       ELSE shaAt' = "done" /\ UNCHANGED <<shaW, shaState>>
    /\ UNCHANGED <<shaSample, shaData, shaBlock, shaIndex, shaHash>>

(* One more word of the schedule: w[i] of the code is shaW[i + 1]. *)
ScheduleWord ==
    /\ shaAt = "schedule"
    /\ LET i == Len(shaW) + 1
       IN  shaW' = Append(shaW, AddWord(AddWord(ssig1(shaW[i - 2]), shaW[i - 7]),
                                     AddWord(ssig0(shaW[i - 15]), shaW[i - 16])))
    /\ shaAt' = IF Len(shaW') < 64 THEN "schedule" ELSE "rounds"
    /\ UNCHANGED <<shaSample, shaData, shaBlock, shaIndex, shaState, shaHash>>

(* One round of the compression. *)
CompressionRound ==
    /\ shaAt = "rounds" /\ shaIndex < 64
    /\ LET s == shaState
           T1 == AddWord(AddWord(AddWord(s[8], bsig1(s[5])), ch(s[5], s[6], s[7])),
                      AddWord(round_constants[shaIndex + 1], shaW[shaIndex + 1]))
           T2 == AddWord(bsig0(s[1]), maj(s[1], s[2], s[3]))
       IN  shaState' = <<AddWord(T1, T2), s[1], s[2], s[3], AddWord(s[4], T1), s[5], s[6], s[7]>>
    /\ shaIndex' = shaIndex + 1
    /\ UNCHANGED <<shaSample, shaAt, shaData, shaBlock, shaW, shaHash>>

EndBlock ==
    /\ shaAt = "rounds" /\ shaIndex = 64
    /\ shaHash' = [k \in 1 .. 8 |-> AddWord(shaHash[k], shaState[k])]
    /\ shaBlock' = shaBlock + 1 /\ shaIndex' = 0 /\ shaAt' = "hash"
    /\ UNCHANGED <<shaSample, shaData, shaW, shaState>>

ShaNext == Prepare \/ BeginBlock \/ ScheduleWord \/ CompressionRound \/ EndBlock
-----------------------------------------------------------------------------
(* The padding of FIPS 180-4, stated without the code's arithmetic: the    *)
(* data, a bit 1, the fewest zeros, and the length in bits; refused only   *)
(* when it does not fit.                                                   *)
WellPadded(data, padded) ==
    LET n == Len(data)
        m == Len(padded)
    IN  /\ m % BLOCK_SIZE_BYTES = 0 /\ n + 9 <= m /\ m < n + 9 + BLOCK_SIZE_BYTES
        /\ SubSeq(padded, 1, n + 1) = Append(data, 128)
        /\ \A i \in n + 2 .. m - 4 : padded[i] = 0
        /\ ((padded[m - 3] * 256 + padded[m - 2]) * 256 + padded[m - 1]) * 256 + padded[m] = 8 * n

(* Data are padded as the standard says whenever the room allows it, in    *)
(* particular a common key with SHA_PADDING more bytes, and their hash is  *)
(* the known one: both ends of a link derive the standard's key.           *)
ShaIsFips180 ==
    /\ shaAt = "refused" =>
          ~\E m \in 0 .. shaSample.room :
              m % BLOCK_SIZE_BYTES = 0 /\ m >= Len(shaSample.data) + 9
    /\ shaData # <<>> => WellPadded(shaSample.data, shaData) /\ Len(shaData) <= shaSample.room
    /\ shaAt = "done" /\ shaSample.answer # <<>> => shaHash = shaSample.answer
=============================================================================
