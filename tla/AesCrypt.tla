------------------------------ MODULE AesCrypt ------------------------------
(***************************************************************************)
(* The AES-CBC helpers of core/crypto/aes.go, used to encrypt file chunks  *)
(* when a file is added with an access key and to decrypt them on get.     *)
(*                                                                         *)
(* Bytes are numbers below 2^ByteBits and a cipher block is BlockSize      *)
(* bytes (16 in the code; md5 yields exactly one block).  The AES block    *)
(* function itself is out of reach: it is an abstract keyed bijection on   *)
(* blocks (Cipher / Decipher).  The padding, the CBC chaining with the     *)
(* md5 of the key as IV, the length check and the unpadding are modelled   *)
(* as the code computes them.                                              *)
(*                                                                         *)
(* EncryptedAdd uses them for the leaves of an add and for get, and checks *)
(* there that what is stored reads back as the file.                      *)
(***************************************************************************)
EXTENDS Naturals, Sequences, SequencesExt, Bitwise

CONSTANTS
    BlockSize,   \* aes.BlockSize (16)
    ByteBits,    \* bits of a byte in the model
    Keys,        \* access keys (non-nil)
    NilKey,      \* a nil key
    Md5,         \* Md5[k]: md5.Sum(k), one block
    NoData       \* a nil []byte result

Bytes == 0 .. (2^ByteBits - 1)
Block == [1..BlockSize -> Bytes]

ASSUME /\ BlockSize \in Nat \ {0} /\ BlockSize < 2^ByteBits
       /\ Md5 \in [Keys -> Block]
       /\ NilKey \notin Keys

\* the abstract AES block function under key block k, and its inverse
Cipher(k, b) == [i \in 1..BlockSize |-> b[(i % BlockSize) + 1] ^^ k[i]]
Decipher(k, c) ==
    [j \in 1..BlockSize |->
        LET i == IF j = 1 THEN BlockSize ELSE j - 1 IN c[i] ^^ k[i]]

XorBlock(a, b) == [i \in 1..BlockSize |-> a[i] ^^ b[i]]

\* the n-th block of a byte sequence whose length is a multiple of BlockSize
BlockAt(s, n) == [i \in 1..BlockSize |-> s[(n - 1) * BlockSize + i]]

NBlocks(s) == Len(s) \div BlockSize

\* mutant: no padding block for a chunk that fills its last block
PKCS7PaddingNoFullBlock(s) ==
    LET padding == (BlockSize - (Len(s) % BlockSize)) % BlockSize
    IN  s \o [i \in 1..padding |-> padding]

\* PKCS7Padding: append blocksize - len % blocksize bytes of that value
PKCS7Padding(s) ==
    LET padding == BlockSize - (Len(s) % BlockSize)
    IN  s \o [i \in 1..padding |-> padding]

\* PKCS7UnPadding: strip as many bytes as the last byte says, unless that
\* is not less than the length; an empty input indexes origData[-1]
PKCS7UnPadding(s) ==
    IF s = <<>> THEN NoData   \* index out of range: the call panics
    ELSE LET unpadding == s[Len(s)]
         IN  IF unpadding < Len(s) THEN SubSeq(s, 1, Len(s) - unpadding)
                                   ELSE s

\* cipher.NewCBCEncrypter(block, k[:blockSize]).CryptBlocks
CbcEncrypt(k, p) ==
    LET RECURSIVE Chain(_, _)
        Chain(n, prev) ==
            IF n > NBlocks(p) THEN <<>>
            ELSE LET c == Cipher(k, XorBlock(BlockAt(p, n), prev))
                 IN  c \o Chain(n + 1, c)
    IN  Chain(1, k)

\* mutant: every block is chained to the IV instead of the previous block
CbcDecryptFixedIV(k, c) ==
    FlattenSeq([n \in 1..NBlocks(c) |->
                  XorBlock(Decipher(k, BlockAt(c, n)), k)])

\* cipher.NewCBCDecrypter(block, k[:blockSize]).CryptBlocks
CbcDecrypt(k, c) ==
    LET Prev(n) == IF n = 1 THEN k ELSE BlockAt(c, n - 1)
    IN  FlattenSeq([n \in 1..NBlocks(c) |->
                      XorBlock(Decipher(k, BlockAt(c, n)), Prev(n))])

\* AesEncrypt(origData, key)
AesEncrypt(s, key) ==
    IF key = NilKey THEN s
    ELSE CbcEncrypt(Md5[key], PKCS7Padding(s))

\* AesDecrypt(crytedByte, key)
AesDecrypt(c, key) ==
    IF key = NilKey THEN c
    ELSE IF Len(c) % BlockSize # 0 THEN NoData
    ELSE PKCS7UnPadding(CbcDecrypt(Md5[key], c))

=============================================================================
