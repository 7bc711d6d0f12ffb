------------------------------- MODULE CidrMath -------------------------------
(***************************************************************************)
(* Cidr and IPUtil: addresses as signed integers, cut and counted by       *)
(* shifts.  Width stands for the 32 bits of an int: a multiple of four,    *)
(* one part for each number of a dotted address.                           *)
(*                                                                         *)
(* The state is the CIDR at hand; the operators are what the code computes *)
(* from it, the properties compare them with what blocks are.              *)
(***************************************************************************)
EXTENDS Integers, Sequences, Functions

CONSTANT Width

ASSUMPTION WidthConstant == Width \in Nat \ {0} /\ 4 * (Width \div 4) = Width

\* Math.pow(2, n), and what a shift by n multiplies or divides by.
pow2[n \in Nat] == IF n = 0 THEN 1 ELSE 2 * pow2[n - 1]

Half == pow2[Width - 1]
Int32 == (0 - Half)..(Half - 1)
Part == pow2[Width \div 4]
Dotted == [1..4 -> 0..(Part - 1)]
Mask == 1..Width \* what Cidr.check allows

\* An int keeps the low bits.
Wrap(n) == ((n + Half) % (2 * Half)) - Half

\* Java's shifts count modulo the width; >> keeps the sign.
Shl(a, k) == Wrap(a * pow2[k % Width])
Shr(a, k) == a \div pow2[k % Width]

\* (int) of a double stays within the ints.
ToInt(n) == IF n > Half - 1 THEN Half - 1 ELSE n

-----------------------------------------------------------------------------
ip2int(ip) ==
    LET k == Width \div 4
    IN  Wrap(Shl(ip[1], 3 * k) + Shl(ip[2], 2 * k) + Shl(ip[3], k) + ip[4])

int2ip(s) == [i \in 1..4 |-> Shr(s, (4 - i) * (Width \div 4)) % Part]

\* Mutant: the shifts are one short.
CutShort(address, maskBits) ==
    Shl(Shr(address, Width - 1 - maskBits), Width - 1 - maskBits)

\* (address >> (32 - maskBits)) << (32 - maskBits)
Cut(address, maskBits) == Shl(Shr(address, Width - maskBits), Width - maskBits)

\* Mutant: the power itself.
CountAll(maskBits) == ToInt(pow2[Width - maskBits])

\* (int) Math.pow(2, 32 - maskBits) - 1
Count(maskBits) == ToInt(pow2[Width - maskBits]) - 1

parseNetworkIdentifier(address, maskBits) == Cut(address, maskBits)
parseBroadcastAddress(address, maskBits) == Wrap(Cut(address, maskBits) + Count(maskBits))
gatewayAddress(address, maskBits) == Wrap(Cut(address, maskBits) + 1)

\* Mutant: all ones and not the largest int.
MaskOnes(maskBits) == Shl(0 - 1, Width - maskBits)

\* Integer.MAX_VALUE << (32 - maskBits)
parseMaskAddress(maskBits) == Shl(Half - 1, Width - maskBits)

\* s += 1, from 0 to count
parseIpList(address, maskBits) ==
    [n \in 1..(Count(maskBits) + 1) |-> Wrap(Cut(address, maskBits) + n - 1)]

\* The list without the address as written and the broadcast address.  Their
\* order matters to nobody: they become the keys of bindIPMap.
availableIpList(address, maskBits) ==
    Range(parseIpList(address, maskBits))
        \ {address, parseBroadcastAddress(address, maskBits)}

\* Mutant: the first address of the block is left out.
containsInside(address, maskBits, ip) ==
    LET minAddr == Cut(address, maskBits)
    IN  ip > minAddr /\ ip <= Wrap(minAddr + Count(maskBits))

contains(address, maskBits, ip) ==
    LET minAddr == Cut(address, maskBits)
        maxAddr == Wrap(minAddr + Count(maskBits))
    IN  ip >= minAddr /\ ip <= maxAddr

-----------------------------------------------------------------------------
VARIABLE cidr

CidrInit == cidr \in [address : Int32, maskBits : Mask]
CidrSpec == CidrInit /\ [][UNCHANGED cidr]_cidr

\* What a block is: the addresses with the same first bits.
Bits(a) == a % (2 * Half)
SameBits(a, b, m) == Bits(a) \div pow2[Width - m] = Bits(b) \div pow2[Width - m]
Block(a, m) == {b \in Int32 : SameBits(a, b, m)}
LastOf(a, m) == CHOOSE b \in Block(a, m) : (Bits(b) + 1) % pow2[Width - m] = 0

\* contains() is membership of the block, in either half of the signed range and
\* whichever address of the block is written; only of a /1 it misses the last
\* address, because 2^31 is no int (Cidr.contains).
ContainsExact ==
    LET a == cidr.address
        m == cidr.maskBits
        last == LastOf(a, m)
    IN  \A ip \in Int32 :
            contains(a, m, ip) <=> SameBits(a, ip, m) /\ (m = 1 => ip # last)

\* The pool of the controller: every address of the block once, without the one
\* written and the broadcast address, and of a /1 without the last but one too.
PoolExact ==
    LET a == cidr.address
        m == cidr.maskBits
    IN  /\ IsInjective(parseIpList(a, m))
        /\ availableIpList(a, m) =
               Block(a, m) \ {a, LastOf(a, m), parseBroadcastAddress(a, m)}

\* updateNode takes an address that contains() finds in the CIDR, a registration one
\* that is in the pool: the two agree but for the address as written and the
\* broadcast address, and no address of the pool is refused.
AcceptedBindable ==
    LET a == cidr.address
        m == cidr.maskBits
    IN  availableIpList(a, m) =
            {ip \in Int32 : contains(a, m, ip)} \ {a, parseBroadcastAddress(a, m)}

\* The mask the tun device is given has maskBits ones first, but for a /32, of
\* which it misses the first bit; and writing an address out and reading it
\* again gives the same one (parseMaskAddress, int2ip, ip2int).
MaskExact ==
    LET m == cidr.maskBits
    IN  /\ m < Width => Bits(parseMaskAddress(m)) = 2 * Half - pow2[Width - m]
        /\ m = Width => parseMaskAddress(m) = Half - 1
        /\ ip2int(int2ip(cidr.address)) = cidr.address
        /\ int2ip(parseMaskAddress(m)) \in Dotted
=============================================================================
