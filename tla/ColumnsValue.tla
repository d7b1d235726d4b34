---------------------------- MODULE ColumnsValue ----------------------------
(***************************************************************************)
(* Column values (volodb-common/AttributeUtils): the bytes                 *)
(* ColumnsValueBuilder puts into a ColumnValue for a CHAR, a VARCHAR or a  *)
(* VARBINARY, and what ColumnsValueDecoder reads back.                     *)
(*                                                                         *)
(* A variable length value travels behind a length of two bytes, the lower *)
(* one first.  A byte is a number below Base (256 in the code), so lengths *)
(* wrap at Base * Base, the width of the uint16_t parameter of             *)
(* _prependLength.  A CHAR travels padded with blanks.                     *)
(***************************************************************************)
EXTENDS Integers, Sequences

CONSTANTS
    Base,       \* the number of values of a byte
    Symbols,    \* the bytes that values are made of
    Blank       \* the byte that pads a CHAR (32)

Byte == 0 .. Base - 1

ASSUME ByteAssumption ==
    /\ Base \in Nat \ {0, 1}
    /\ Symbols \subseteq Byte
    /\ Blank \in Byte

-----------------------------------------------------------------------------
\* The uint16_t parameter of _prependLength.
Length16(n) == n % (Base * Base)

\* The two bytes _prependLength puts first: length & 0x00FF, (length & 0xFF00) >> 8.
LengthBytes(length) == <<length % Base, length \div Base>>

\* What _prependLength allocates and fills: the length and that many bytes.
PrependLength(v) ==
    LengthBytes(Length16(Len(v))) \o SubSeq(v, 1, Length16(Len(v)))

\* addVarCharColumn and addVarBinaryColumn copy value.size() + 2 bytes out of that
\* buffer; what they find beyond its end is undefined.
Beyond(v) == [1 .. Len(v) - Length16(Len(v)) -> Symbols]

\* addCharColumn: blanks, and the value over them.
PadChar(v, size) == v \o [i \in 1 .. size - Len(v) |-> Blank]

\* Mutant: without the casts to unsigned char, where char is signed.
GetLength_Signed(bytes) ==
    LET signed(b) == IF 2 * b < Base THEN b ELSE b - Base
    IN  signed(bytes[1]) + signed(bytes[2]) * Base

\* ColumnsValueDecoder::getLength.
GetLength(bytes) == bytes[1] + bytes[2] * Base

\* getVarChar, and getVarBinary by it: one byte more than the length says, in the
\* limit the zero that ends the buffer of a std::string.
GetVarChar(bytes) == SubSeq(Append(bytes, 0), 3, GetLength(bytes) + 3)

\* getChar returns the bytes as they are: padded, and without a zero at the end.
GetChar(bytes) == bytes
=============================================================================
