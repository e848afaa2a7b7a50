------------------------------ MODULE StatusList ------------------------------
(***************************************************************************)
(* The revocation bit string of badges/revocation-status.ts: written from  *)
(* the entries of a tenant, read back at one index. Compression and base64 *)
(* are undone by the reader exactly as the writer did them and left out.   *)
(***************************************************************************)
EXTENDS Integers

CONSTANT MinimumBytes   \* MINIMUM_STATUS_LIST_BYTES: 16384, so that lists look alike
ASSUME MinimumBytesAssumption == MinimumBytes \in Nat

Entry == [index: Nat, revoked: BOOLEAN]

\* Byte and mask of an index.
Place(i) == <<i \div 8, i % 8>>

\* The bytes up to that of the greatest index, and at least MinimumBytes.
Bytes(entries) == (0 .. MinimumBytes - 1) \cup UNION {0 .. (e.index \div 8) : e \in entries}

\* encodeRevocationBitstring
Encode(entries) ==
    [bytes |-> Bytes(entries),
     bits  |-> {Place(e.index) : e \in {f \in entries : f.revoked}}]

\* decodedRevocationStatusBit; "unknown" is its null.
Decode(list, i) ==
    IF i \div 8 \notin list.bytes THEN "unknown"
    ELSE IF Place(i) \in list.bits THEN "revoked"
    ELSE "clear"
=============================================================================
