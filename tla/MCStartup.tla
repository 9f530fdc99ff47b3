----------------------------- MODULE MCStartup ------------------------------
(* Startup for TLC: some binds and, for each key, some values. *)
EXTENDS Startup, TLC

(* Loopback is 01xx.  A single loopback address, the whole network, one    *)
(* that contains it, one outside, everything, and two malformed texts.     *)
MCBindText ==
    ("default" :> <<5, Unslashed>>) @@ ("net" :> <<6, 2>>) @@ ("wide" :> <<5, 1>>)
    @@ ("lan" :> <<11, 3>>) @@ ("all" :> <<7, 0>>)
    @@ ("none" :> <<9, NoDigits>>) @@ ("bad" :> <<16, 3>>)

Values ==
    [bind |-> DOMAIN MCBindText \ {"default"}, kiss_host |-> {"any", "name"},
     number |-> {"high", "over"}, rx_only |-> {"on", "off"}, rx_freq |-> {"", "f2"},
     rf_log |-> {"on"}, rf_log_path |-> {"/path", "path"}, ldro |-> {"auto"}, help |-> {""}]

MCOffered == UNION {{[key |-> k, value |-> v] : v \in Values[k]} : k \in DOMAIN Values}
=============================================================================
