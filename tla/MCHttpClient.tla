---------------------------- MODULE MCHttpClient ----------------------------
(* An instance of HttpClient: the program's first two connections, beside one *)
(* stranger, whose picture may take the last descriptor.                     *)
EXTENDS HttpClientInv

CONSTANTS m1, m2, s1

TheClients   == {m1, m2, s1}
TheProgram   == <<m1, m2>>
SomeWishes   == {Request(Get, Jpeg \o <<"?", "query">>)}
SomeRequests == SomeWishes \union {Asks(n) : n \in 0 .. 2}
=============================================================================
