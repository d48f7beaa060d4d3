-------------------------------- MODULE Aes --------------------------------
(***************************************************************************)
(* AES-128 as src/encryptions/aes computes it.  A block is the sequence of *)
(* its 16 bytes: bytes[col][row] of aes_block128_t is number 4 * col + row *)
(* + 1.  A word of the key schedule is a column, its lowest byte first.    *)
(***************************************************************************)
EXTENDS Integers, Sequences

LOCAL INSTANCE Bitwise

VARIABLES aesSample,  \* key, data and the answer known for them
          aesAt,      \* what is computed: "keys", "encrypt", "decrypt", "done"
          aesKeys,    \* the round keys so far
          aesRound,
          aesBlock

aesVars == <<aesSample, aesAt, aesKeys, aesRound, aesBlock>>

AES_BLOCK128_ROUNDS == 10
Cells == 1 .. 16
Row(i) == (i - 1) % 4
Column(i) == (i - 1) \div 4
Cell(column, row) == 4 * column + row + 1

sbox == <<
    \h63, \h7C, \h77, \h7B, \hF2, \h6B, \h6F, \hC5, \h30, \h01, \h67, \h2B, \hFE, \hD7, \hAB, \h76,
    \hCA, \h82, \hC9, \h7D, \hFA, \h59, \h47, \hF0, \hAD, \hD4, \hA2, \hAF, \h9C, \hA4, \h72, \hC0,
    \hB7, \hFD, \h93, \h26, \h36, \h3F, \hF7, \hCC, \h34, \hA5, \hE5, \hF1, \h71, \hD8, \h31, \h15,
    \h04, \hC7, \h23, \hC3, \h18, \h96, \h05, \h9A, \h07, \h12, \h80, \hE2, \hEB, \h27, \hB2, \h75,
    \h09, \h83, \h2C, \h1A, \h1B, \h6E, \h5A, \hA0, \h52, \h3B, \hD6, \hB3, \h29, \hE3, \h2F, \h84,
    \h53, \hD1, \h00, \hED, \h20, \hFC, \hB1, \h5B, \h6A, \hCB, \hBE, \h39, \h4A, \h4C, \h58, \hCF,
    \hD0, \hEF, \hAA, \hFB, \h43, \h4D, \h33, \h85, \h45, \hF9, \h02, \h7F, \h50, \h3C, \h9F, \hA8,
    \h51, \hA3, \h40, \h8F, \h92, \h9D, \h38, \hF5, \hBC, \hB6, \hDA, \h21, \h10, \hFF, \hF3, \hD2,
    \hCD, \h0C, \h13, \hEC, \h5F, \h97, \h44, \h17, \hC4, \hA7, \h7E, \h3D, \h64, \h5D, \h19, \h73,
    \h60, \h81, \h4F, \hDC, \h22, \h2A, \h90, \h88, \h46, \hEE, \hB8, \h14, \hDE, \h5E, \h0B, \hDB,
    \hE0, \h32, \h3A, \h0A, \h49, \h06, \h24, \h5C, \hC2, \hD3, \hAC, \h62, \h91, \h95, \hE4, \h79,
    \hE7, \hC8, \h37, \h6D, \h8D, \hD5, \h4E, \hA9, \h6C, \h56, \hF4, \hEA, \h65, \h7A, \hAE, \h08,
    \hBA, \h78, \h25, \h2E, \h1C, \hA6, \hB4, \hC6, \hE8, \hDD, \h74, \h1F, \h4B, \hBD, \h8B, \h8A,
    \h70, \h3E, \hB5, \h66, \h48, \h03, \hF6, \h0E, \h61, \h35, \h57, \hB9, \h86, \hC1, \h1D, \h9E,
    \hE1, \hF8, \h98, \h11, \h69, \hD9, \h8E, \h94, \h9B, \h1E, \h87, \hE9, \hCE, \h55, \h28, \hDF,
    \h8C, \hA1, \h89, \h0D, \hBF, \hE6, \h42, \h68, \h41, \h99, \h2D, \h0F, \hB0, \h54, \hBB, \h16 >>

inv_sbox == <<
    \h52, \h09, \h6A, \hD5, \h30, \h36, \hA5, \h38, \hBF, \h40, \hA3, \h9E, \h81, \hF3, \hD7, \hFB,
    \h7C, \hE3, \h39, \h82, \h9B, \h2F, \hFF, \h87, \h34, \h8E, \h43, \h44, \hC4, \hDE, \hE9, \hCB,
    \h54, \h7B, \h94, \h32, \hA6, \hC2, \h23, \h3D, \hEE, \h4C, \h95, \h0B, \h42, \hFA, \hC3, \h4E,
    \h08, \h2E, \hA1, \h66, \h28, \hD9, \h24, \hB2, \h76, \h5B, \hA2, \h49, \h6D, \h8B, \hD1, \h25,
    \h72, \hF8, \hF6, \h64, \h86, \h68, \h98, \h16, \hD4, \hA4, \h5C, \hCC, \h5D, \h65, \hB6, \h92,
    \h6C, \h70, \h48, \h50, \hFD, \hED, \hB9, \hDA, \h5E, \h15, \h46, \h57, \hA7, \h8D, \h9D, \h84,
    \h90, \hD8, \hAB, \h00, \h8C, \hBC, \hD3, \h0A, \hF7, \hE4, \h58, \h05, \hB8, \hB3, \h45, \h06,
    \hD0, \h2C, \h1E, \h8F, \hCA, \h3F, \h0F, \h02, \hC1, \hAF, \hBD, \h03, \h01, \h13, \h8A, \h6B,
    \h3A, \h91, \h11, \h41, \h4F, \h67, \hDC, \hEA, \h97, \hF2, \hCF, \hCE, \hF0, \hB4, \hE6, \h73,
    \h96, \hAC, \h74, \h22, \hE7, \hAD, \h35, \h85, \hE2, \hF9, \h37, \hE8, \h1C, \h75, \hDF, \h6E,
    \h47, \hF1, \h1A, \h71, \h1D, \h29, \hC5, \h89, \h6F, \hB7, \h62, \h0E, \hAA, \h18, \hBE, \h1B,
    \hFC, \h56, \h3E, \h4B, \hC6, \hD2, \h79, \h20, \h9A, \hDB, \hC0, \hFE, \h78, \hCD, \h5A, \hF4,
    \h1F, \hDD, \hA8, \h33, \h88, \h07, \hC7, \h31, \hB1, \h12, \h10, \h59, \h27, \h80, \hEC, \h5F,
    \h60, \h51, \h7F, \hA9, \h19, \hB5, \h4A, \h0D, \h2D, \hE5, \h7A, \h9F, \h93, \hC9, \h9C, \hEF,
    \hA0, \hE0, \h3B, \h4D, \hAE, \h2A, \hF5, \hB0, \hC8, \hEB, \hBB, \h3C, \h83, \h53, \h99, \h61,
    \h17, \h2B, \h04, \h7E, \hBA, \h77, \hD6, \h26, \hE1, \h69, \h14, \h63, \h55, \h21, \h0C, \h7D >>

-----------------------------------------------------------------------------
xor_block128(value, operand) == [i \in Cells |-> value[i] ^^ operand[i]]
sub_bytes_block128(value) == [i \in Cells |-> sbox[value[i] + 1]]
inv_sub_bytes_block128(value) == [i \in Cells |-> inv_sbox[value[i] + 1]]

(* Row r is shifted left by r places, and back. *)
shift_rows_block128(value) ==
    [i \in Cells |-> value[Cell((Column(i) + Row(i)) % 4, Row(i))]]
inv_shift_rows_block128(value) ==
    [i \in Cells |-> value[Cell((Column(i) - Row(i)) % 4, Row(i))]]

(* Multiplication in GF(2^8), by 2 and by a factor. *)
mul2(x) == ((2 * x) % 256) ^^ ((x \div 128) * \h1B)
mul(x, factor) ==
    LET turn[k \in 0 .. 8] ==
            IF k = 0 THEN [x |-> x, factor |-> factor, res |-> 0]
            ELSE LET t == turn[k - 1]
                 IN  [x |-> mul2(t.x), factor |-> t.factor \div 2,
                      res |-> IF t.factor % 2 = 1 THEN t.res ^^ t.x ELSE t.res]
    IN  turn[8].res

(* Each column by a matrix whose rows are the first one turned round. *)
MixColumns(value, first) ==
    LET Term(i, k) == mul(value[Cell(Column(i), k)], first[((k - Row(i)) % 4) + 1])
    IN  [i \in Cells |-> (Term(i, 0) ^^ Term(i, 1)) ^^ (Term(i, 2) ^^ Term(i, 3))]
mix_columns_block128(value) == MixColumns(value, <<2, 3, 1, 1>>)
inv_mix_columns_block128(value) == MixColumns(value, <<\h0E, \h0B, \h0D, \h09>>)

-----------------------------------------------------------------------------
aes_round_constants == <<1, 2, 4, 8, 16, 32, 64, 128, \h1B, \h36>>

(* rot_word on a word of four bytes, lowest first. *)
rot_word_left(word) == <<word[4], word[1], word[2], word[3]>>   \* slip: turned the other way
rot_word(word) == <<word[2], word[3], word[4], word[1]>>
sub_word(word) == [i \in 1 .. 4 |-> sbox[word[i] + 1]]

(* The key of a round from the one before. *)
NextKey(prev, round) ==
    LET sub == sub_word(rot_word(SubSeq(prev, 13, 16)))
        g_prev == [sub EXCEPT ![1] = @ ^^ aes_round_constants[round]]
        curr[i \in Cells] == prev[i] ^^ (IF i <= 4 THEN g_prev[i] ELSE curr[i - 4])
    IN  curr

-----------------------------------------------------------------------------
(* FIPS-197, appendices A.1, B and C.1, and inputs without a known answer. *)
Sample(k, data, lastKey, answer) ==
    [key |-> k, data |-> data, lastKey |-> lastKey, answer |-> answer]
AesSamples ==
    {Sample(
         <<\h2B, \h7E, \h15, \h16, \h28, \hAE, \hD2, \hA6, \hAB, \hF7, \h15, \h88, \h09, \hCF, \h4F, \h3C>>,
         <<\h32, \h43, \hF6, \hA8, \h88, \h5A, \h30, \h8D, \h31, \h31, \h98, \hA2, \hE0, \h37, \h07, \h34>>,
         <<\hD0, \h14, \hF9, \hA8, \hC9, \hEE, \h25, \h89, \hE1, \h3F, \h0C, \hC8, \hB6, \h63, \h0C, \hA6>>,
         <<\h39, \h25, \h84, \h1D, \h02, \hDC, \h09, \hFB, \hDC, \h11, \h85, \h97, \h19, \h6A, \h0B, \h32>>),
     Sample(
         <<\h00, \h01, \h02, \h03, \h04, \h05, \h06, \h07, \h08, \h09, \h0A, \h0B, \h0C, \h0D, \h0E, \h0F>>,
         <<\h00, \h11, \h22, \h33, \h44, \h55, \h66, \h77, \h88, \h99, \hAA, \hBB, \hCC, \hDD, \hEE, \hFF>>,
         <<\h13, \h11, \h1D, \h7F, \hE3, \h94, \h4A, \h17, \hF3, \h07, \hA7, \h8B, \h4D, \h2B, \h30, \hC5>>,
         <<\h69, \hC4, \hE0, \hD8, \h6A, \h7B, \h04, \h30, \hD8, \hCD, \hB7, \h80, \h70, \hB4, \hC5, \h5A>>)}
    \cup {Sample([i \in Cells |-> (n * i) % 256], [i \in Cells |-> (255 - n * i * i) % 256], <<>>, <<>>) :
              n \in {0, 1, 17, 101}}

AesInit ==
    /\ aesSample \in AesSamples
    /\ aesAt = "keys"
    /\ aesKeys = <<aesSample.key>>
    /\ aesRound = 0
    /\ aesBlock = aesSample.data

(* One turn of aes_generate_keys128; keys[r] of the code is aesKeys[r + 1]. *)
aes_generate_keys128 ==
    /\ aesAt = "keys"
    /\ aesKeys' = Append(aesKeys, NextKey(aesKeys[Len(aesKeys)], Len(aesKeys)))
    /\ aesAt' = IF Len(aesKeys) < AES_BLOCK128_ROUNDS THEN "keys" ELSE "encrypt"
    /\ UNCHANGED <<aesSample, aesRound, aesBlock>>

RoundKey == aesKeys[aesRound + 1]

(* One round of aes_encrypt128 on the block, the first and the last with   *)
(* their exceptions.                                                       *)
aes_encrypt128 ==
    /\ aesAt = "encrypt"
    /\ aesBlock' =
          LET substituted == sub_bytes_block128(aesBlock)
              shifted == shift_rows_block128(substituted)
          IN  CASE aesRound = 0 -> xor_block128(aesBlock, RoundKey)
                [] aesRound = AES_BLOCK128_ROUNDS -> xor_block128(shifted, RoundKey)
                [] OTHER -> xor_block128(mix_columns_block128(shifted), RoundKey)
    /\ IF aesRound < AES_BLOCK128_ROUNDS
       THEN aesRound' = aesRound + 1 /\ UNCHANGED aesAt
       ELSE aesAt' = "decrypt" /\ UNCHANGED aesRound
    /\ UNCHANGED <<aesSample, aesKeys>>

(* One round of aes_decrypt128. *)
aes_decrypt128 ==
    /\ aesAt = "decrypt"
    /\ aesBlock' =
          LET added == xor_block128(aesBlock, RoundKey)
              mixed == IF aesRound = AES_BLOCK128_ROUNDS THEN added
                       ELSE inv_mix_columns_block128(added)
          IN  IF aesRound = 0 THEN added
              ELSE inv_sub_bytes_block128(inv_shift_rows_block128(mixed))
    /\ IF aesRound > 0
       THEN aesRound' = aesRound - 1 /\ UNCHANGED aesAt
       ELSE aesAt' = "done" /\ UNCHANGED aesRound
    /\ UNCHANGED <<aesSample, aesKeys>>

AesNext == aes_generate_keys128 \/ aes_encrypt128 \/ aes_decrypt128
-----------------------------------------------------------------------------
(* The S-box by its definition: turned back through the affine map, an     *)
(* entry is the inverse of its index in GF(2^8).                           *)
SboxIsInverse ==
    \A x \in 0 .. 255 :
        LET RotLeft(s, n) == ((s * 2 ^ n) % 256) + (s \div 2 ^ (8 - n))
            s == sbox[x + 1]
            y == (RotLeft(s, 1) ^^ RotLeft(s, 3)) ^^ (RotLeft(s, 6) ^^ 5)
        IN  /\ IF x = 0 THEN y = 0 ELSE mul(x, y) = 1
            /\ inv_sbox[s + 1] = x

(* The tables, the key schedule and the rounds are those of the standard:  *)
(* the known answers come out, and decryption gives back every block.      *)
AesIsFips197 ==
    /\ aesAt = "encrypt" /\ aesSample.lastKey # <<>> =>
          aesKeys[AES_BLOCK128_ROUNDS + 1] = aesSample.lastKey
    /\ aesAt = "decrypt" /\ aesRound = AES_BLOCK128_ROUNDS /\ aesSample.answer # <<>> =>
          aesBlock = aesSample.answer
    /\ aesAt = "done" => aesBlock = aesSample.data
    /\ aesAt = "done" /\ aesSample.answer # <<>> => SboxIsInverse
=============================================================================
