---------------------------- MODULE MCHttpServer ----------------------------
(* Instances of HttpServer: one client with any request in any segments; three *)
(* clients with two requests, one for the picture, that may pause where the   *)
(* rest of the request is as long as its request line.                       *)
EXTENDS HttpServerQueue, TLC

Alike == Permutations(Clients)

AllRequests ==
    {Request(Get, u) : u \in {Root, Home, Hello, SetParams, Reboot, Jpeg, Missing,
                              Hello \o <<"?", "query">>}}
    \union {Request(Post, Home)}
AnyPiece == 1 .. BufSize

FewRequests == {Request(Get, Root), Request(Get, Jpeg)}
FewPieces   == {4}
=============================================================================
