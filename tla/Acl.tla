-------------------------------- MODULE Acl ---------------------------------
(***************************************************************************)
(* The source allow-list of the KISS/TCP listener (lhkt_ipv4_in_cidr and   *)
(* lhkt_bind_apply) for addresses of Width bits.                           *)
(***************************************************************************)
EXTENDS Integers

CONSTANTS
    Width,          \* 32
    LoopNet,        \* 127, the loopback network ...
    LoopPrefix      \* 8, ... and its prefix length

(* The powers of two up to the width. *)
Pow2[n \in 0..Width] == IF n = 0 THEN 1 ELSE 2 * Pow2[n - 1]

ASSUME WidthAssumption ==
    /\ Width \in Nat \ {0}
    /\ LoopPrefix \in 0..Width
    /\ LoopNet \in 0..(Pow2[LoopPrefix] - 1)

IpAddrs == 0..(Pow2[Width] - 1)

(* addr & mask with prefix one bits in the mask.  The code asks for        *)
(* prefix 0 first, as it cannot shift by the whole width.                  *)
Masked(addr, prefix) == addr - (addr % Pow2[Width - prefix])

(* lhkt_ipv4_in_cidr *)
InCidr(addr, net, prefix) == Masked(addr, prefix) = Masked(net, prefix)

(* The text of a bind is an address (outside IpAddrs: not one) and the     *)
(* number after its '/': Unslashed without '/', NoDigits if none follows.  *)
Unslashed == -1
NoDigits == -2

(* Slip: a '/' without digits reads as zero. *)
GoodBindLenient(addr, prefix) == addr \in IpAddrs /\ prefix \in NoDigits..Width

GoodBind(addr, prefix) == addr \in IpAddrs /\ prefix \in {Unslashed} \cup 0..Width

(* What strtol makes of the number; the prefix is 32 without one. *)
PrefixOf(prefix) ==
    CASE prefix = Unslashed -> Width [] prefix = NoDigits -> 0 [] OTHER -> prefix

(* Slip: the loopback network itself is not counted as within it. *)
ListenOnStrict(net, prefix) ==
    IF net \div Pow2[Width - LoopPrefix] = LoopNet /\ prefix > LoopPrefix
    THEN "loopback" ELSE "any"

(* The listen address derived from the network. *)
ListenOn(net, prefix) ==
    IF net \div Pow2[Width - LoopPrefix] = LoopNet /\ prefix >= LoopPrefix
    THEN "loopback" ELSE "any"

(* lhkt_bind_apply: what a good bind sets. *)
BindApply(addr, prefix) ==
    LET p == PrefixOf(prefix)
        net == Masked(addr, p)
    IN  [net |-> net, prefix |-> p, host |-> ListenOn(net, p)]
=============================================================================
