------------------------------ MODULE Startup -------------------------------
(***************************************************************************)
(* From the command line to an accepted client: defaults, configuration    *)
(* file (config.c), options (cli.c), the checks of main, the listener and  *)
(* its allow-list.  A setting is a key and a value; "number" stands for    *)
(* every key that takes a number in a range, "rx_only" for every flag.     *)
(***************************************************************************)
EXTENDS Acl, Sequences, SequencesExt

CONSTANTS
    BindText,       \* texts for bind: their address and number after '/'
    Offered,        \* settings [key, value] in the file and the command line
    MaxLines,       \* bound: lines in the file
    MaxArgs         \* bound: options

VARIABLES
    file,           \* lines of the configuration file
    with_file,      \* a -c option is given
    args,           \* options
    stage,          \* "given", "refused", "exited" or "running"
    cfg,            \* lhkt_config_t, while running
    peer            \* address of the client, or NoPeer

startVars == <<file, with_file, args, stage, cfg, peer>>

NoPeer == -1

GoodBinds == {t \in DOMAIN BindText : GoodBind(BindText[t][1], BindText[t][2])}

(* LHKT_DEFAULT_BIND is an address. *)
ASSUME BindTextAssumption == BindText \in [DOMAIN BindText -> Int \X Int] /\ "default" \in GoodBinds

(* What lhkt_bind_apply makes of a text. *)
BindOf(t) == BindApply(BindText[t][1], BindText[t][2])

(* lhkt_config_defaults *)
Defaults ==
    [bind |-> "default", net |-> BindOf("default").net, prefix |-> BindOf("default").prefix,
     kiss_host |-> BindOf("default").host, number |-> "low", rx_only |-> "off",
     rx_freq |-> "f1", rf_log |-> "off", rf_log_path |-> "", ldro |-> "on"]

-----------------------------------------------------------------------------
(* The values lhkt_config_parse_line takes: copy_string any that fits,     *)
(* parse_long_value those in the range, parse_optional_freq also none.     *)
FileValues ==
    [bind |-> GoodBinds, kiss_host |-> {"loopback", "any", "name"}, number |-> {"low", "high"},
     rx_only |-> {"on", "off"}, rx_freq |-> {"", "f1", "f2"}, rf_log |-> {"on", "off"},
     rf_log_path |-> {"", "/path", "path"}, ldro |-> {"on", "off", "auto"}]

(* The values parse_cli_args takes: a flag only sets, a frequency must be  *)
(* given, a path is absolute, and the radio settings have no option.       *)
CliValues ==
    [bind |-> GoodBinds, kiss_host |-> {"loopback", "any", "name"}, number |-> {"low", "high"},
     rx_only |-> {"on"}, rx_freq |-> {"f1", "f2"}, rf_log |-> {"on", "off"},
     rf_log_path |-> {"/path"}, help |-> {""}]

(* A bind also sets the listen address. *)
Assign(c, s) ==
    IF s.key # "bind" THEN [c EXCEPT ![s.key] = s.value]
    ELSE [c EXCEPT !.bind = s.value, !.net = BindOf(s.value).net,
                   !.prefix = BindOf(s.value).prefix, !.kiss_host = BindOf(s.value).host]

(* Settings are applied one by one; the first bad one ends the program.    *)
(* --help and --version end it as well.                                    *)
Apply(r, s, values) ==
    CASE r.stage # "given" -> r
      [] r.stage = "given" /\ (s.key \notin DOMAIN values \/ s.value \notin values[s.key]) ->
            [r EXCEPT !.stage = "refused"]
      [] r.stage = "given" /\ s.key = "help" /\ s.key \in DOMAIN values ->
            [r EXCEPT !.stage = "exited"]
      [] OTHER -> [r EXCEPT !.cfg = Assign(r.cfg, s)]

(* Slip: the file is read after the options. *)
CliApplyFileLast(lines, options) ==
    LET cli == FoldLeft(LAMBDA r, s : Apply(r, s, CliValues),
                        [stage |-> "given", cfg |-> Defaults], options)
    IN  FoldLeft(LAMBDA r, s : Apply(r, s, FileValues), cli, lines)

(* lhkt_cli_apply: the file first, wherever -c stands, then the options. *)
CliApply(lines, options) ==
    LET loaded == FoldLeft(LAMBDA r, s : Apply(r, s, FileValues),
                           [stage |-> "given", cfg |-> Defaults], lines)
    IN  FoldLeft(LAMBDA r, s : Apply(r, s, CliValues), loaded, options)

-----------------------------------------------------------------------------
StartInit ==
    /\ file = <<>> /\ with_file \in BOOLEAN /\ args = <<>>
    /\ stage = "given" /\ cfg = Defaults /\ peer = NoPeer

AddLine(s) ==
    /\ stage = "given" /\ with_file /\ Len(file) < MaxLines
    /\ args = <<>>
    /\ file' = Append(file, s)
    /\ UNCHANGED <<with_file, args, stage, cfg, peer>>

AddOption(s) ==
    /\ stage = "given" /\ Len(args) < MaxArgs
    /\ args' = Append(args, s)
    /\ UNCHANGED <<file, with_file, stage, cfg, peer>>

(* main: no RF log without a path, and none that cannot be opened, as one  *)
(* with a relative path never can (lhkt_rflog_open); then                  *)
(* lhkt_tcp_server_listen, which needs an address and may fail.  io is     *)
(* whether reading the file, opening the log and listening went well.      *)
Main(io) ==
    LET r == CliApply(file, args)
        bad == \/ ~io
               \/ r.cfg.rf_log = "on" /\ r.cfg.rf_log_path \in {"", "path"}
               \/ r.cfg.kiss_host = "name"
    IN  /\ stage = "given"
        /\ stage' = IF r.stage = "given" THEN IF bad THEN "refused" ELSE "running" ELSE r.stage
        /\ cfg' = r.cfg
        /\ UNCHANGED <<file, with_file, args, peer>>

(* lhkt_tcp_server_accept while no client is attached; one that is not     *)
(* allowed is closed at once.                                              *)
Accept(a) ==
    /\ stage = "running" /\ peer = NoPeer
    /\ cfg.kiss_host = "loopback" => a \div Pow2[Width - LoopPrefix] = LoopNet
    /\ InCidr(a, cfg.net, cfg.prefix)
    /\ peer' = a
    /\ UNCHANGED <<file, with_file, args, stage, cfg>>

Hangup ==
    /\ peer # NoPeer
    /\ peer' = NoPeer
    /\ UNCHANGED <<file, with_file, args, stage, cfg>>

StartNext ==
    \/ \E s \in Offered : AddLine(s) \/ AddOption(s)
    \/ \E io \in BOOLEAN : Main(io)
    \/ \E a \in IpAddrs : Accept(a)
    \/ Hangup

StartSpec == StartInit /\ [][StartNext]_startVars

-----------------------------------------------------------------------------
(* The last value given for a key: in the options, else in the file, else  *)
(* the default.                                                            *)
LastGiven(key) ==
    LET at(ss) == {i \in DOMAIN ss : ss[i].key = key}
    IN  CASE at(args) # {} -> args[Max(at(args))].value
          [] at(args) = {} /\ at(file) # {} -> file[Max(at(file))].value
          [] OTHER -> Defaults[key]

(* The listen address is given by kiss_host, and by a bind, from which it  *)
(* is derived.  The last of both counts, options before the file before    *)
(* the defaults.                                                           *)
HostKeys == {"bind", "kiss_host"}

HostOf(s) == IF s.key = "bind" THEN BindOf(s.value).host ELSE s.value

LastHost ==
    LET at(ss) == {i \in DOMAIN ss : ss[i].key \in HostKeys}
    IN  CASE at(args) # {} -> HostOf(args[Max(at(args))])
          [] at(args) = {} /\ at(file) # {} -> HostOf(file[Max(at(file))])
          [] OTHER -> Defaults.kiss_host

(* Whatever is given in the file and in the options, the program runs with *)
(* the last value of every key, options before the file before the         *)
(* defaults, and no setting disturbs another, with the one exception of    *)
(* the listen address: a bind replaces a kiss_host given before it, and a  *)
(* kiss_host the address derived from a bind given before it.              *)
LastWins ==
    stage = "running" =>
        /\ \A key \in DOMAIN FileValues \ {"kiss_host"} : cfg[key] = LastGiven(key)
        /\ cfg.kiss_host = LastHost

(* An explicit --kiss-host "overrides the address derived from --bind"     *)
(* (usage text and README), in whatever order the two options are given.   *)
HostOverrides ==
    stage = "running" /\ (\E s \in ToSet(args) : s.key = "kiss_host") =>
        cfg.kiss_host = LastGiven("kiss_host")

Bit(a, i) == (a \div Pow2[Width - i]) % 2

(* A client is attached only if its first bits are those of the address    *)
(* in the bind that counts, as many as its prefix says, all without one.   *)
OnlyAllowed ==
    peer # NoPeer =>
        LET b == BindText[LastGiven("bind")]
        IN  \A i \in 1..(IF b[2] < 0 THEN Width ELSE b[2]) : Bit(peer, i) = Bit(b[1], i)

Loopback(a) == \A i \in 1..LoopPrefix : Bit(a, i) = (LoopNet \div Pow2[LoopPrefix - i]) % 2

(* Unless an address is given explicitly, the port is open on loopback     *)
(* only exactly if every address of the allowed network is a loopback      *)
(* address: it is not exposed without need, and no allowed client is       *)
(* locked out.                                                             *)
ExposedIfNeeded ==
    stage = "running" /\ (\A s \in ToSet(file) \cup ToSet(args) : s.key # "kiss_host") =>
        LET allowed == {a \in IpAddrs : InCidr(a, cfg.net, cfg.prefix)}
        IN  cfg.kiss_host = "loopback" <=> \A a \in allowed : Loopback(a)
=============================================================================
