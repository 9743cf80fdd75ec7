------------------------------ MODULE NetAddr ------------------------------
(***************************************************************************)
(* One CNetAddr object of deps/CoinCore/src/netaddress.cpp: its 16 bytes  *)
(* ip[] (IPv4 stored IPv4-mapped), the mutators that set them, and the    *)
(* const classification the rest of the file derives from them: IsRFC*,   *)
(* IsValid, IsRoutable, GetNetwork, GetGroup and GetReachabilityFrom.     *)
(* ip is a sequence of 16 bytes, ip[1] being the C array's ip[0].  The    *)
(* Network enum is declared in netaddress.h, which is not in the tree; it *)
(* is taken with Bitcoin Core's order, NET_UNROUTABLE = 0 .. NET_MAX = 5.  *)
(* The scopeId of IPv6 addresses is never read by the classification and *)
(* is left out.                                                            *)
(***************************************************************************)
EXTENDS Integers, Sequences, SequencesExt, Bitwise

CONSTANTS
    V4Inputs,    \* in_addr contents (4 bytes) given to SetRaw(NET_IPV4, ..)
    V6Inputs,    \* in6_addr contents (16 bytes) given to SetRaw(NET_IPV6, ..)
    OnionNames,  \* names for SetSpecial: [onion: ends in ".onion" and longer
                 \* than 6, decoded: DecodeBase32 of the part before it]
    Partners     \* addresses a peer may have, for GetReachabilityFrom

NET_UNROUTABLE == 0
NET_IPV4       == 1
NET_IPV6       == 2
NET_TOR        == 3
NET_INTERNAL   == 4
NET_MAX        == 5
\* The private extensions returned only by GetExtNetwork.
NET_UNKNOWN    == NET_MAX + 0
NET_TEREDO     == NET_MAX + 1

Zeros(n) == [i \in 1..n |-> 0]

pchIPv4           == <<0, 0, 0, 0, 0, 0, 0, 0, 0, 0, 255, 255>>
pchOnionCat       == <<253, 135, 216, 126, 235, 67>>
g_internal_prefix == <<253, 107, 136, 192, 135, 36>>

VARIABLES
    ip,   \* CNetAddr::ip
    ret,  \* what the last mutator returned: "void", "true" or "false"
    op    \* the last mutator called

vars == <<ip, ret, op>>

\* GetByte(n): ip[15 - n].
GetByte(a, n) == a[16 - n]

\* memcmp(ip, p, sizeof p) == 0
Starts(a, p) == IsPrefix(p, a)

IsIPv4(a)     == Starts(a, pchIPv4)
IsTor(a)      == Starts(a, pchOnionCat)
IsInternal(a) == Starts(a, g_internal_prefix)
IsIPv6(a)     == ~IsIPv4(a) /\ ~IsTor(a) /\ ~IsInternal(a)

\* Mutant: the 172.16/12 test stops at 172.30.
IsRFC1918Upto30(a) ==
    IsIPv4(a) /\ \/ GetByte(a, 3) = 10
                 \/ GetByte(a, 3) = 192 /\ GetByte(a, 2) = 168
                 \/ GetByte(a, 3) = 172 /\ GetByte(a, 2) >= 16 /\ GetByte(a, 2) < 31

IsRFC1918(a) ==
    IsIPv4(a) /\ \/ GetByte(a, 3) = 10
                 \/ GetByte(a, 3) = 192 /\ GetByte(a, 2) = 168
                 \/ GetByte(a, 3) = 172 /\ GetByte(a, 2) >= 16 /\ GetByte(a, 2) <= 31
IsRFC2544(a) == IsIPv4(a) /\ GetByte(a, 3) = 198 /\ GetByte(a, 2) \in {18, 19}
IsRFC3927(a) == IsIPv4(a) /\ GetByte(a, 3) = 169 /\ GetByte(a, 2) = 254
IsRFC6598(a) == IsIPv4(a) /\ GetByte(a, 3) = 100 /\ GetByte(a, 2) >= 64 /\ GetByte(a, 2) <= 127
IsRFC5737(a) ==
    IsIPv4(a) /\ <<GetByte(a, 3), GetByte(a, 2), GetByte(a, 1)>>
                   \in {<<192, 0, 2>>, <<198, 51, 100>>, <<203, 0, 113>>}
IsRFC3849(a) == <<GetByte(a, 15), GetByte(a, 14), GetByte(a, 13), GetByte(a, 12)>> = <<32, 1, 13, 184>>
IsRFC3964(a) == GetByte(a, 15) = 32 /\ GetByte(a, 14) = 2
IsRFC6052(a) == Starts(a, <<0, 100, 255, 155, 0, 0, 0, 0, 0, 0, 0, 0>>)
IsRFC4380(a) == <<GetByte(a, 15), GetByte(a, 14), GetByte(a, 13), GetByte(a, 12)>> = <<32, 1, 0, 0>>
IsRFC4862(a) == Starts(a, <<254, 128, 0, 0, 0, 0, 0, 0>>)
IsRFC4193(a) == (GetByte(a, 15) & 254) = 252
IsRFC6145(a) == Starts(a, <<0, 0, 0, 0, 0, 0, 0, 0, 255, 255, 0, 0>>)
IsRFC4843(a) ==
    /\ <<GetByte(a, 15), GetByte(a, 14), GetByte(a, 13)>> = <<32, 1, 0>>
    /\ (GetByte(a, 12) & 240) = 16

\* IPv4 0/8 and 127/8, and ::1.
IsLocal(a) ==
    \/ IsIPv4(a) /\ GetByte(a, 3) \in {0, 127}
    \/ a = Zeros(15) \o <<1>>

\* IsValid: not a 3-byte-shifted IPv4 mapping, not ::, not documentation,
\* not internal, and for IPv4 neither INADDR_NONE nor 0.0.0.0.
IsValid(a) ==
    /\ ~Starts(a, SubSeq(pchIPv4, 4, 12))
    /\ a # Zeros(16)
    /\ ~IsRFC3849(a)
    /\ ~IsInternal(a)
    /\ IsIPv4(a) => SubSeq(a, 13, 16) \notin {<<255, 255, 255, 255>>, Zeros(4)}

\* Mutant: OnionCat addresses are not exempted from the RFC 4193 range.
IsRoutableTorUnexempt(a) ==
    IsValid(a) /\ ~(IsRFC1918(a) \/ IsRFC2544(a) \/ IsRFC3927(a) \/ IsRFC4862(a)
                    \/ IsRFC6598(a) \/ IsRFC5737(a) \/ IsRFC4193(a)
                    \/ IsRFC4843(a) \/ IsLocal(a) \/ IsInternal(a))

IsRoutable(a) ==
    IsValid(a) /\ ~(IsRFC1918(a) \/ IsRFC2544(a) \/ IsRFC3927(a) \/ IsRFC4862(a)
                    \/ IsRFC6598(a) \/ IsRFC5737(a) \/ (IsRFC4193(a) /\ ~IsTor(a))
                    \/ IsRFC4843(a) \/ IsLocal(a) \/ IsInternal(a))

GetNetwork(a) ==
    CASE IsInternal(a)  -> NET_INTERNAL
      [] ~IsRoutable(a) -> NET_UNROUTABLE
      [] IsIPv4(a)      -> NET_IPV4
      [] IsTor(a)       -> NET_TOR
      [] OTHER          -> NET_IPV6

\* Mutant: the Teredo group keeps the obfuscated client address.
TeredoGroupUnmasked(a) == <<NET_IPV4, GetByte(a, 3), GetByte(a, 2)>>

\* Teredo: the encapsulated (bit-inverted) IPv4 client address's /16.
TeredoGroup(a) == <<NET_IPV4, GetByte(a, 3) ^^ 255, GetByte(a, 2) ^^ 255>>

\* The tail of GetGroup: nBits bits from byte nStartByte on, the last
\* partial byte padded with ones.
RECURSIVE GroupBytes(_, _, _)
GroupBytes(a, start, bits) ==
    IF bits >= 8 THEN <<GetByte(a, 15 - start)>> \o GroupBytes(a, start + 1, bits - 8)
    ELSE IF bits > 0 THEN <<GetByte(a, 15 - start) | (2 ^ (8 - bits) - 1)>>
    ELSE << >>

\* GetGroup: the class and the prefix that identify an address's group.
\* The IsLocal assignment is overwritten by the chain that follows it
\* whenever the address is unroutable, which every local address is.
GetGroup(a) ==
    LET base == IF IsLocal(a) THEN [cls |-> 255, start |-> 0, bits |-> 0]
                ELSE [cls |-> NET_IPV6, start |-> 0, bits |-> 16]
        Group(g) == <<g.cls>> \o GroupBytes(a, g.start, g.bits)
    IN CASE IsInternal(a) -> Group([cls |-> NET_INTERNAL, start |-> 6, bits |-> 80])
         [] ~IsRoutable(a) -> Group([base EXCEPT !.cls = NET_UNROUTABLE, !.bits = 0])
         [] IsIPv4(a) \/ IsRFC6145(a) \/ IsRFC6052(a) ->
                              Group([base EXCEPT !.cls = NET_IPV4, !.start = 12])
         [] IsRFC3964(a)   -> Group([base EXCEPT !.cls = NET_IPV4, !.start = 2])
         [] IsRFC4380(a)   -> TeredoGroup(a)
         [] IsTor(a)       -> Group([cls |-> NET_TOR, start |-> 6, bits |-> 4])
         [] <<GetByte(a, 15), GetByte(a, 14), GetByte(a, 13), GetByte(a, 12)>>
              = <<32, 1, 4, 112>> -> Group([base EXCEPT !.bits = 36])
         [] OTHER          -> Group([base EXCEPT !.bits = 32])

\* GetExtNetwork: nullptr (here << >>) is NET_UNKNOWN, Teredo NET_TEREDO.
GetExtNetwork(a) ==
    CASE a = << >>    -> NET_UNKNOWN
      [] IsRFC4380(a) -> NET_TEREDO
      [] OTHER        -> GetNetwork(a)

\* fTunnel of GetReachabilityFrom.
Tunnelled(a) == IsRFC3964(a) \/ IsRFC6052(a) \/ IsRFC6145(a)

\* GetReachabilityFrom(paddrPartner): how well the partner reaches us.
GetReachabilityFrom(a, partner) ==
    LET our   == GetExtNetwork(a)
        their == GetExtNetwork(partner)
        ours(table, dflt) == IF our \in DOMAIN table THEN table[our] ELSE dflt
    IN IF ~IsRoutable(a) \/ IsInternal(a) THEN "REACH_UNREACHABLE"
       ELSE CASE their = NET_IPV4 ->
                   ours(NET_IPV4 :> "REACH_IPV4", "REACH_DEFAULT")
              [] their = NET_IPV6 ->
                   ours((NET_TEREDO :> "REACH_TEREDO") @@ (NET_IPV4 :> "REACH_IPV4")
                        @@ (NET_IPV6 :> IF Tunnelled(a) THEN "REACH_IPV6_WEAK"
                                                        ELSE "REACH_IPV6_STRONG"),
                        "REACH_DEFAULT")
              [] their = NET_TOR ->
                   ours((NET_IPV4 :> "REACH_IPV4") @@ (NET_TOR :> "REACH_PRIVATE"),
                        "REACH_DEFAULT")
              [] their = NET_TEREDO ->
                   ours((NET_TEREDO :> "REACH_TEREDO") @@ (NET_IPV6 :> "REACH_IPV6_WEAK")
                        @@ (NET_IPV4 :> "REACH_IPV4"), "REACH_DEFAULT")
              [] OTHER ->
                   ours((NET_TEREDO :> "REACH_TEREDO") @@ (NET_IPV6 :> "REACH_IPV6_WEAK")
                        @@ (NET_IPV4 :> "REACH_IPV4") @@ (NET_TOR :> "REACH_PRIVATE"),
                        "REACH_DEFAULT")

-----------------------------------------------------------------------------
(* The object and its mutators *)

\* CNetAddr(): Init() clears ip.
Init == ip = Zeros(16) /\ ret = "void" /\ op = "CNetAddr"

\* CNetAddr::Init()
ClearAddr == ip' = Zeros(16) /\ ret' = "void" /\ op' = "Init"

\* SetRaw(NET_IPV4, ip_in), also CNetAddr(const in_addr&): IPv4-mapped.
SetRawIPv4(in) == ip' = pchIPv4 \o in /\ ret' = "void" /\ op' = "SetRaw"

\* SetRaw(NET_IPV6, ip_in), also CNetAddr(const in6_addr&, scope) and SetIP.
SetRawIPv6(in) == ip' = in /\ ret' = "void" /\ op' = "SetRaw"

\* The address SetSpecial(strName) stores: the OnionCat prefix and the 10
\* bytes an onion name's base32 part decodes to; << >> when it fails.
SpecialIP(name) ==
    IF name.onion /\ Len(name.decoded) = 16 - Len(pchOnionCat)
    THEN pchOnionCat \o name.decoded ELSE << >>

\* SetSpecial(strName): an onion name whose base32 part decodes to the 10
\* bytes after the OnionCat prefix; anything else fails, ip untouched.
SetSpecial(name) ==
    /\ op' = "SetSpecial"
    /\ IF SpecialIP(name) # << >>
       THEN ip' = SpecialIP(name) /\ ret' = "true"
       ELSE ret' = "false" /\ UNCHANGED ip

\* SetInternal(name): the hash and the copy into ip are commented out; a
\* non-empty name returns true with ip unchanged.
SetInternal(name) ==
    /\ op' = "SetInternal"
    /\ ret' = IF name = "" THEN "false" ELSE "true"
    /\ UNCHANGED ip

Next ==
    \/ ClearAddr
    \/ \E in \in V4Inputs : SetRawIPv4(in)
    \/ \E in \in V6Inputs : SetRawIPv6(in)
    \/ \E name \in OnionNames : SetSpecial(name)
    \/ \E name \in {"", "seed"} : SetInternal(name)

Spec == Init /\ [][Next]_vars

-----------------------------------------------------------------------------
(* Properties, against the address ranges as the RFCs define them *)

\* The CIDR block prefix/len, as a 16-byte prefix and a bit count.
Net6(prefix, len) == [p |-> prefix \o Zeros(16 - Len(prefix)), len |-> len]
Net4(o1, o2, o3, len) == Net6(pchIPv4 \o <<o1, o2, o3>>, 96 + len)

\* a lies in block c: its first c.len bits are those of c.p.
InBlock(a, c) ==
    \A i \in 1..16 :
        LET r == c.len - 8 * (i - 1)    \* bits of the block in byte i
        IN CASE r >= 8 -> a[i] = c.p[i]
             [] r <= 0 -> TRUE
             [] OTHER  -> a[i] \div 2 ^ (8 - r) = c.p[i] \div 2 ^ (8 - r)

Ranges == [
    RFC1918 |-> {Net4(10, 0, 0, 8), Net4(172, 16, 0, 12), Net4(192, 168, 0, 16)},
    RFC2544 |-> {Net4(198, 18, 0, 15)},
    RFC3927 |-> {Net4(169, 254, 0, 16)},
    RFC6598 |-> {Net4(100, 64, 0, 10)},
    RFC5737 |-> {Net4(192, 0, 2, 24), Net4(198, 51, 100, 24), Net4(203, 0, 113, 24)},
    RFC3849 |-> {Net6(<<32, 1, 13, 184>>, 32)},
    RFC3964 |-> {Net6(<<32, 2>>, 16)},
    RFC6052 |-> {Net6(<<0, 100, 255, 155>>, 96)},
    RFC4380 |-> {Net6(<<32, 1, 0, 0>>, 32)},
    RFC4862 |-> {Net6(<<254, 128>>, 64)},
    RFC4193 |-> {Net6(<<252>>, 7)},
    RFC6145 |-> {Net6(<<0, 0, 0, 0, 0, 0, 0, 0, 255, 255>>, 96)},
    RFC4843 |-> {Net6(<<32, 1, 0, 16>>, 28)},
    Local   |-> {Net4(0, 0, 0, 8), Net4(127, 0, 0, 8), Net6(Zeros(15) \o <<1>>, 128)}]

Classification(a) == [
    RFC1918 |-> IsRFC1918(a), RFC2544 |-> IsRFC2544(a), RFC3927 |-> IsRFC3927(a),
    RFC6598 |-> IsRFC6598(a), RFC5737 |-> IsRFC5737(a), RFC3849 |-> IsRFC3849(a),
    RFC3964 |-> IsRFC3964(a), RFC6052 |-> IsRFC6052(a), RFC4380 |-> IsRFC4380(a),
    RFC4862 |-> IsRFC4862(a), RFC4193 |-> IsRFC4193(a), RFC6145 |-> IsRFC6145(a),
    RFC4843 |-> IsRFC4843(a), Local |-> IsLocal(a)]

\* The IPv4 address v carried by each tunnel the code recognises: 6to4
\* (2002:V::), Teredo (2001:0::/32, client bits inverted), NAT64
\* (64:ff9b::/96) and SIIT (::ffff:0:0:0/96).
Tunnels(v) == {
    <<32, 2>> \o v \o Zeros(10),
    <<32, 1, 0, 0, 65, 1, 2, 3, 128, 0, 1, 2>> \o [i \in 1..4 |-> v[i] ^^ 255],
    <<0, 100, 255, 155>> \o Zeros(8) \o v,
    Zeros(8) \o <<255, 255, 0, 0>> \o v}

\* Every IsRFC* test and IsLocal, written over GetByte, masks and memcmp
\* prefixes, holds of the object's address exactly when the address lies in
\* one of the CIDR blocks its RFC reserves.
ClassifiesByPrefix ==
    Classification(ip) = [r \in DOMAIN Ranges |-> \E c \in Ranges[r] : InBlock(ip, c)]

\* GetGroup gives a routable IPv4 address and every tunnelled IPv6 form of
\* it the same group ("use the encapsulated IPv4 address"), so the 6to4,
\* Teredo, NAT64 and SIIT forms of one /16 never count as distinct groups.
TunnelsShareGroup ==
    IsIPv4(ip) /\ IsRoutable(ip) =>
        \A t \in Tunnels(SubSeq(ip, 13, 16)) : GetGroup(t) = GetGroup(ip)

\* An OnionCat address SetSpecial built from a .onion name is routable, of
\* network NET_TOR, and GetReachabilityFrom rates it REACH_PRIVATE from a
\* Tor peer, although its fd87:d87e:eb43 prefix lies in RFC 4193's fc00::/7.
SpecialIsTor ==
    op = "SetSpecial" /\ ret = "true" =>
        /\ GetNetwork(ip) = NET_TOR
        /\ \A p \in Partners : IsTor(p) => GetReachabilityFrom(ip, p) = "REACH_PRIVATE"

=============================================================================
