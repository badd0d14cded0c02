---------------------------- MODULE TracerouteOutput ----------------------------
(***************************************************************************)
(* How tools/traceroute.py reads what traceroute prints, and how the hop    *)
(* that comes of it is masked.  A line is the sequence of the items on it:  *)
(*   address  `IP` or `IP (IP)`, as it is printed without a name            *)
(*   name     `hostname (IP)`                                               *)
(*   rtt      `1.234 ms`                                                    *)
(*   star     `*`                                                           *)
(*   noise    an annotation, or what is left of an item cut off             *)
(***************************************************************************)
EXTENDS Naturals, Sequences, FiniteSetsExt, SequencesExt

CONSTANTS
    Addresses,
    Private,        \* those is_ip_blocked says yes to
    NoAddress, Hidden

ASSUME OutputAssumption ==
    /\ Private \subseteq Addresses
    /\ NoAddress \notin Addresses /\ Hidden \notin Addresses /\ NoAddress # Hidden

Items == [kind : {"address", "name"}, of : Addresses]
         \cup [kind : {"rtt", "star", "noise"}, of : {NoAddress}]

Status(item) == IF item.kind = "rtt" THEN "ok" ELSE "timeout"
IsProbe(item) == item.kind \in {"rtt", "star"}
IsWho(item) == item.kind \in {"address", "name"}

\* The numbers of a set, in ascending order.
InOrder ==
    [S \in SUBSET Nat |->
        [k \in 1..Cardinality(S) |-> CHOOSE i \in S : Cardinality({j \in S : j <= i}) = k]]

ProbesAt(items) == InOrder[{i \in DOMAIN items : IsProbe(items[i])}]

\* _parse_probes_from_tokens
Probes(items) == [k \in DOMAIN ProbesAt(items) |-> Status(items[ProbesAt(items)[k]])]

Distinct(seq) ==
    LET firsts == InOrder[{i \in DOMAIN seq : \A j \in 1..(i - 1) : seq[j] # seq[i]}]
    IN  [k \in DOMAIN firsts |-> seq[firsts[k]]]

\* _extract_ip_hostname_map, merged over the segments of a hop: its addresses in
\* the order they are first seen, named or not.
IpList(items) ==
    LET who == InOrder[{i \in DOMAIN items : IsWho(items[i])}]
    IN  Distinct([k \in DOMAIN who |-> items[who[k]].of])

\* The probes, and whose each one is.  An address in parentheses is no address to the
\* walk: only `IP` and `IP (IP)` change who is speaking.
Assigned(items) ==
    LET at == ProbesAt(items)
        speakers(i) == {j \in 1..i : items[j].kind = "address"}
        owner(i) == IF speakers(i) = {} THEN IpList(items)[1] ELSE items[Max(speakers(i))].of
    IN  [k \in DOMAIN at |-> [of |-> owner(at[k]), status |-> Status(items[at[k]])]]

\* _group_probes_by_ip: an address no probe falls to has no path.
Paths ==
    [probes \in Seq([of : Addresses, status : {"ok", "timeout"}]) |->
        LET ips == Distinct([k \in DOMAIN probes |-> probes[k].of])
            mine(ip) == InOrder[{i \in DOMAIN probes : probes[i].of = ip}]
        IN  [k \in DOMAIN ips |->
                [ip |-> ips[k], hostname |-> "asPrinted",
                 probes |-> [n \in DOMAIN mine(ips[k]) |-> probes[mine(ips[k])[n]].status]]]]

\* _parse_hop_group.  A regular hop is one path and multipath FALSE; a hop nothing
\* was read of gets three timeouts whatever was asked for.
Hop(num, items) ==
    LET ips == IpList(items)
        all == Probes(items)
        Regular(ip, hostname, probes) ==
            [hop |-> num, multipath |-> FALSE,
             paths |-> <<[ip |-> ip, hostname |-> hostname, probes |-> probes]>>]
    IN  CASE Len(ips) > 1 -> [hop |-> num, multipath |-> TRUE, paths |-> Paths[Assigned(items)]]
          [] Len(ips) = 1 -> Regular(ips[1], "asPrinted", all)
          [] OTHER -> Regular(NoAddress, "none",
                              IF all = <<>> THEN <<"timeout", "timeout", "timeout">> ELSE all)

\* Mutated form: the name of a masked path stays.
MaskedIp(path) == IF path.ip \in Private THEN [path EXCEPT !.ip = Hidden] ELSE path

\* mask_private_hops: a path, then the hop; all hidden, its paths become one.
MaskedPath(path) ==
    IF path.ip \in Private THEN [path EXCEPT !.ip = Hidden, !.hostname = "none"] ELSE path

HopData == [hop : Nat, multipath : BOOLEAN,
            paths : Seq([ip : Addresses \cup {NoAddress}, hostname : {"asPrinted", "none"},
                         probes : Seq({"ok", "timeout"})])]

Masked ==
    [data \in HopData |->
        LET paths == [k \in DOMAIN data.paths |-> MaskedPath(data.paths[k])]
            merged == [ip |-> Hidden, hostname |-> "none",
                       probes |-> FlattenSeq([k \in DOMAIN paths |-> paths[k].probes])]
        IN  IF data.multipath /\ \A k \in DOMAIN paths : paths[k].ip = Hidden
            THEN [data EXCEPT !.multipath = FALSE, !.paths = <<merged>>]
            ELSE [data EXCEPT !.paths = paths]]

\* The items of each hop, and its number: a line that opens a hop carries the number,
\* a continuation 0, and a continuation before any hop is dropped.
Groups(lines) ==
    LET opens == InOrder[{i \in DOMAIN lines : lines[i].hop > 0}]
        last(k) == IF k = Len(opens) THEN Len(lines) ELSE opens[k + 1] - 1
        itemsOf(k) == FlattenSeq([i \in 1..(last(k) - opens[k] + 1) |-> lines[opens[k] + i - 1].items])
    IN  [k \in DOMAIN opens |-> [hop |-> lines[opens[k]].hop, items |-> itemsOf(k)]]

\* _parse_output, over all the lines at once.
ParseOutput(lines) == [k \in DOMAIN Groups(lines) |-> Hop(Groups(lines)[k].hop, Groups(lines)[k].items)]
=============================================================================
