--------------------------- MODULE MCTracerouteStream ---------------------------
EXTENDS TracerouteStream

CONSTANTS t, r, p, name1, name2

A(ip) == [kind |-> "address", of |-> ip]
N(ip) == [kind |-> "name", of |-> ip]
Rtt == [kind |-> "rtt", of |-> NoAddress]
Star == [kind |-> "star", of |-> NoAddress]

\* Full hops, halves of hops, and hops two routers answer.
MCLines == {
    <<N(p), Rtt, Star>>, <<Star, Star>>, <<A(p), Rtt, A(t), Rtt>>, <<N(r), Rtt, N(t), Rtt>>,
    <<A(p), Rtt>>, <<A(t), Rtt>>, <<Star>>}

\* Every zone of two names: an address, none, a private one among two, a failure.
Found(ips) == [ips |-> ips, nx |-> FALSE]
None == Found(<<>>)
Nx == [ips |-> <<>>, nx |-> TRUE]

MCZones ==
    [Names -> [a : {Nx, None, Found(<<t>>), Found(<<t, p>>)}, aaaa : {Nx, None, Found(<<p>>), Found(<<t>>)},
               cname : Names \cup {"none"}]]
=============================================================================
