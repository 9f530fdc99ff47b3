-------------------------------- MODULE Ax25 --------------------------------
(***************************************************************************)
(* The AX.25 codec (ax25.c): frames as the bridge holds them and as they   *)
(* travel over the KISS link.  A call sign is an element of Calls; one the *)
(* wire may carry that is empty or has a character that is neither a       *)
(* letter nor a digit is NoCall.                                           *)
(***************************************************************************)
EXTENDS Integers, Sequences

CONSTANTS
    Calls,          \* call signs of at most six letters and digits
    NoCall,         \* what an address group on the wire may hold instead
    MaxRepeaters,   \* LHKT_AX25_MAX_REPEATERS
    MaxAddrs,       \* LHKT_AX25_MAX_ADDRS
    MaxInfo         \* LHKT_AX25_MAX_PAYLOAD

ASSUME CallsAssumption == NoCall \notin Calls
ASSUME LimitsAssumption ==
    /\ MaxRepeaters \in Nat
    /\ MaxAddrs = MaxRepeaters + 2
    /\ MaxInfo \in Nat

(* ax25_addr_t *)
Addrs == [call : Calls, ssid : 0..15, repeated : BOOLEAN]

(* ax25_frame_t *)
UiFrames(Text) == [dst : Addrs, src : Addrs, path : Seq(Addrs), payload : Seq(Text)]

(* Seven bytes of an address field: bit 7 is the C or the H bit, last the  *)
(* extension bit.                                                          *)
Groups == [call : Calls \cup {NoCall}, ssid : 0..15, bit7 : BOOLEAN, last : BOOLEAN]

(* A frame on the wire: the groups up to the first one that ends the       *)
(* address field (all there are, if none does), then the control field and *)
(* PID, "ui", "other" or "short" if the frame ends before them.            *)
RawFrames(Text) ==
    [addrs : Seq(Groups), control : {"ui", "other", "short"}, info : Seq(Text)]

-----------------------------------------------------------------------------
(* ax25_encode_addr *)
EncodeAddr(a, last, bit7) ==
    [call |-> a.call, ssid |-> a.ssid, bit7 |-> bit7, last |-> last]

(* ax25_decode_addr *)
DecodeAddr(g, is_path) ==
    [call |-> g.call, ssid |-> g.ssid, repeated |-> is_path /\ g.bit7]

(* ax25_encode_ui: the destination has the C bit, the source not, a path   *)
(* address its H bit; the extension bit is on the last of them.            *)
Encodable(f) == Len(f.path) <= MaxRepeaters /\ Len(f.payload) <= MaxInfo

EncodeUi(f) ==
    [addrs |-> <<EncodeAddr(f.dst, FALSE, TRUE), EncodeAddr(f.src, f.path = <<>>, FALSE)>>
               \o [i \in DOMAIN f.path |->
                      EncodeAddr(f.path[i], i = Len(f.path), f.path[i].repeated)],
     control |-> "ui", info |-> f.payload]

(* ax25_decode_ui: at most MaxAddrs groups are read until one ends the     *)
(* address field, each must hold a call sign, and only UI frames go on.    *)
Decodable(r) ==
    LET n == Len(r.addrs)
    IN  /\ n \in 2..MaxAddrs
        /\ \A i \in 1..n : r.addrs[i].call \in Calls /\ (r.addrs[i].last <=> i = n)
        /\ r.control = "ui"
        /\ Len(r.info) <= MaxInfo

DecodeUi(r) ==
    [dst |-> DecodeAddr(r.addrs[1], FALSE), src |-> DecodeAddr(r.addrs[2], FALSE),
     path |-> [i \in 1..(Len(r.addrs) - 2) |-> DecodeAddr(r.addrs[i + 2], TRUE)],
     payload |-> r.info]
=============================================================================
