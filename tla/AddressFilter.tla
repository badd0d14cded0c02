----------------------------- MODULE AddressFilter -----------------------------
(***************************************************************************)
(* security/address_filter.py: which address a tool may be run against.  A  *)
(* zone gives what each lookup of each name meets; a name is looked up once *)
(* at most, so a zone that changes while it is walked is a zone as well.    *)
(***************************************************************************)
EXTENDS Naturals, Sequences, SequencesExt

CONSTANTS
    Addresses,
    Private,        \* those is_ip_blocked says yes to
    Names,
    NoAddress,      \* no target: the run is refused
    MaxCnames       \* CNAME_MAX_HOPS

\* An answer is its addresses, none also when the lookup fails, and nx, no such domain.
NoName == "none"

\* _check_ips: one blocked address condemns them all.
Checked(ips) == IF ToSet(ips) \cap Private = {} THEN ips ELSE <<>>

\* _resolve_hostname_inner: A, then AAAA, then the alias, as long as it is new and
\* neither ended the walk: by an address, or by no such domain; any other failure is
\* passed over.
Walk(zone, name) ==
    LET alias[k \in 0..MaxCnames] ==
            IF k = 0 THEN name ELSE IF alias[k - 1] = NoName THEN NoName ELSE zone[alias[k - 1]].cname
        node(k) == zone[alias[k]]
        found(k) == IF node(k).a.ips # <<>> THEN node(k).a.ips ELSE node(k).aaaa.ips
        passed(k) == ~node(k).a.nx /\ ~node(k).aaaa.nx /\ found(k) = <<>>
        reached == {k \in 0..(MaxCnames - 1) :
                       /\ alias[k] \in Names
                       /\ \A j \in 0..(k - 1) : passed(j) /\ alias[j] # alias[k]}
        answers == {k \in reached : ~node(k).a.nx /\ found(k) # <<>>}
    IN  IF answers = {} THEN <<>> ELSE Checked(found(CHOOSE k \in answers : TRUE))

\* Mutated form: an address is not looked at.
FilterNames(zone, asked) ==
    IF asked \in Addresses THEN asked
    ELSE IF Walk(zone, asked) = <<>> THEN NoAddress ELSE Head(Walk(zone, asked))

\* filter_target: an address as it stands, a name by its first address, when none of
\* the addresses is blocked.
FilterTarget(zone, asked) ==
    LET ips == IF asked \in Addresses THEN <<asked>> ELSE Walk(zone, asked)
    IN  IF Checked(ips) = <<>> THEN NoAddress ELSE Head(ips)
=============================================================================
