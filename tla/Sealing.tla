------------------------------- MODULE Sealing -------------------------------
(***************************************************************************)
(* What becomes of a text between the page that creates a secret and the   *)
(* page that reveals it: encrypt, decrypt, padding.ts and encoding.ts of   *)
(* client/src/crypto, and the limits that the text meets on its way.  A    *)
(* text is its length: bytes are abstracted away, AES-GCM to the key that  *)
(* opens what it closed.                                                   *)
(***************************************************************************)
EXTENDS Integers

CONSTANT Lengths \* how many bytes of UTF-8 the trimmed text may have

MaxLength == 10000 \* UTF-16 units

(* UTF-8 has one to three bytes for a unit, and a text may mix them: each number of
   bytes up to three times the limit is that of some text. *)
SealingAssumption == Lengths \subseteq 0 .. 3 * MaxLength

MaxInputSize == 100000
MinPaddedSize == 256
PrefixSize == 4
IvLength == 12
TagLength == 16
MaxCiphertext == 100000

(* Math.floor(Math.log2(n)). *)
Log2(n) == CHOOSE e \in 0 .. 20 : 2^e <= n /\ n < 2^(e + 1)

(* (n + mask) & ~mask, where mask is unit - 1 and unit a power of two. *)
RoundUp(n, unit) == LET top == n + unit - 1 IN top - (top % unit)

(* e - s, the low bits that are to be zero. *)
LastBits(n) == LET e == Log2(n) IN e - (Log2(e) + 1)

PadmeLength(n) ==
    IF n <= MinPaddedSize THEN MinPaddedSize ELSE RoundUp(n, 2^LastBits(n))

(* Faulty: the prefix is not counted. *)
PadNoPrefix(n) == [length |-> n, size |-> PadmeLength(n)]

(* padPlaintext: the length, the data, and zeros. *)
Pad(n) == [length |-> n, size |-> PadmeLength(PrefixSize + n)]

(* unpadPlaintext *)
PaddingIsValid(padded) ==
    /\ padded.size >= PrefixSize
    /\ padded.length <= padded.size - PrefixSize

(* Characters of base64 for n bytes. *)
Base64Size(n) == 4 * ((n + 2) \div 3)
BytesOf(chars) == 3 * (chars \div 4)  \* as many, or up to two more

VARIABLES
    text,   \* length in bytes
    stage,  \* "typed", "refused", "encrypted", "stored", "read" or "failed"
    sealed, \* what AES-GCM closed, and the key
    size,   \* of the ciphertext in characters, which is what the server sees
    reading \* the key of the link, and the length of what was read

sealVars == <<text, stage, sealed, size, reading>>

NotRead == [key |-> "none", length |-> -1]
SealingInit ==
    /\ text \in Lengths
    /\ stage = "typed"
    /\ sealed = [key |-> "none", data |-> [length |-> 0, size |-> 0]]
    /\ size = 0
    /\ reading = NotRead

(* An empty text is refused by the page before it is encrypted. *)
Refuse ==
    /\ stage = "typed" /\ text = 0
    /\ stage' = "refused"
    /\ UNCHANGED <<text, sealed, size, reading>>

Encrypt ==
    /\ stage = "typed" /\ text > 0
    /\ IF text > MaxInputSize
       THEN stage' = "failed" /\ UNCHANGED <<sealed, size>>
       ELSE /\ sealed' = [key |-> "own", data |-> Pad(text)]
            /\ size' = Base64Size(IvLength + sealed'.data.size + TagLength)
            /\ stage' = "encrypted"
    /\ UNCHANGED <<text, reading>>

(* CreateSecretSchema. *)
Store ==
    /\ stage = "encrypted"
    /\ stage' = IF size \in 1 .. MaxCiphertext THEN "stored" ELSE "failed"
    /\ UNCHANGED <<text, sealed, size, reading>>

(* The key may have been cut off the link, or be that of another one. *)
Decrypt ==
    /\ stage = "stored"
    /\ \E key \in {"own", "other", "cut"} :
        LET opens == /\ BytesOf(size) >= IvLength + TagLength
                     /\ key = sealed.key
                     /\ PaddingIsValid(sealed.data)
        IN /\ reading' = [key |-> key,
                          length |-> IF opens THEN sealed.data.length ELSE -1]
           /\ stage' = IF opens THEN "read" ELSE "failed"
    /\ UNCHANGED <<text, sealed, size>>

SealNext == Refuse \/ Encrypt \/ Store \/ Decrypt

SealSpec == SealingInit /\ [][SealNext]_sealVars

-----------------------------------------------------------------------------
(* Properties. *)

(* The tiers as the paper of PURBs defines them: lengths of e + 1 bits of which only the
   first s may be set. *)
IsTier(n) == LET e == Log2(n) IN n % (2^(e - (Log2(e) + 1))) = 0

(* padmeLength returns the least tier that has room: nobody's ciphertext is
   larger than it must be, and all the texts of a tier have one size. *)
LeastTier(n, padded) ==
    IF n <= MinPaddedSize THEN padded = MinPaddedSize
    ELSE /\ padded >= n /\ IsTier(padded)
         /\ \A k \in n .. padded - 1 : ~IsTier(k)
         /\ 100 * (padded - n) <= 12 * n

(* Whatever the page takes passes every limit on its way, is read as it was
   written by whoever has the key and by nobody else, and shows the server no
   more of its length than its tier (padding.ts:9). *)
TextArrivesHidden ==
    /\ stage = "failed" => reading.key \in {"other", "cut"}
    /\ stage = "read" => reading = [key |-> "own", length |-> text]
    /\ stage \in {"encrypted", "stored"} =>
        LeastTier(PrefixSize + text, sealed.data.size)

==============================================================================
