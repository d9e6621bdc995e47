------------------------------- MODULE Crc16 -------------------------------
(***************************************************************************)
(* proto_crc16 of the firmware and its twin pkt_crc16 of the simulator:    *)
(* the bit-serial CRC of CCITT (0x1021, 0xFFFF, not reflected), for bytes  *)
(* of any width and registers of any width.                                *)
(***************************************************************************)
EXTENDS Integers, SequencesExt, Bitwise

CONSTANTS ByteBits,   \* 8
          CrcBits,    \* 16
          Poly,       \* 0x1021, the generator without its leading term
          Seed        \* 0xFFFF

ASSUME CrcAssumption ==
    /\ ByteBits \in 1 .. CrcBits
    /\ Poly \in 0 .. 2 ^ CrcBits - 1 /\ Poly % 2 = 1
    /\ Seed \in 0 .. 2 ^ CrcBits - 1

Register == 0 .. 2 ^ CrcBits - 1
Octet == 0 .. 2 ^ ByteBits - 1

(* One turn of the inner loop: the bit that falls out decides whether the  *)
(* generator is subtracted.                                                *)
Shifted(crc) == (2 * crc) % 2 ^ CrcBits
Top(crc) == crc >= 2 ^ (CrcBits - 1)
ShiftBit ==
    [crc \in Register |-> IF Top(crc) THEN Shifted(crc) ^^ Poly ELSE Shifted(crc)]

(* A turn of the outer loop: a byte enters at the top of the register.     *)
(* BUG: it enters at the bottom.                                           *)
EnterLow(crc, byte) == crc ^^ byte
Enter(crc, byte) == crc ^^ (byte * 2 ^ (CrcBits - ByteBits))
Absorb ==
    [crc \in Register, byte \in Octet |->
        FoldLeft(LAMBDA c, b : ShiftBit[c], Enter(crc, byte), [b \in 1 .. ByteBits |-> b])]

proto_crc16(data) == FoldLeft(LAMBDA crc, byte : Absorb[crc, byte], Seed, data)
-----------------------------------------------------------------------------
(* The reference: polynomials over GF(2) are the sets of their exponents,  *)
(* a sum is a symmetric difference.                                        *)
Plus(p, q) == (p \ q) \cup (q \ p)
Times(p, k) == {e + k : e \in p}          \* p times x^k
Exponents(n, bits) == {e \in 0 .. bits - 1 : (n \div 2 ^ e) % 2 = 1}
Generator == Exponents(Poly, CrcBits) \cup {CrcBits}

(* What is left of p, of degree below top, after division by Generator:    *)
(* the leading terms are cancelled from the highest down.                  *)
Remainder(p, top) ==
    FoldLeft(LAMBDA r, e : IF e \in r THEN Plus(r, Times(Generator, e - CrcBits)) ELSE r,
             p, [i \in 1 .. top - CrcBits |-> top - i])

(* The message, first byte highest, with room for the register below it    *)
(* and the seed added to its leading bits.                                 *)
Message(data) ==
    LET n == Len(data)
    IN  UNION {Times(Exponents(data[i], ByteBits), (n - i) * ByteBits + CrcBits) : i \in 1 .. n}

CrcOf(data) ==
    LET bits == Len(data) * ByteBits
    IN  Remainder(Plus(Message(data), Times(Exponents(Seed, CrcBits), bits)), bits + CrcBits)
=============================================================================
