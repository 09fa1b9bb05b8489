-------------------------- MODULE MCCloseProtocol --------------------------
(***************************************************************************)
(* Small instances of the close protocol: pairs of clients.                *)
(***************************************************************************)
EXTENDS CloseProtocol, TLC

CONSTANTS c1, c2

Pair(a, b) == c1 :> a @@ c2 :> b

AllPairs == {Pair("sync", "async"), Pair("pipelined", "refresh"), Pair("pipelined", "query"),
             Pair("async", "query"), Pair("sync", "refresh")}

RefreshAlone == {Pair("refresh", "query")}
=============================================================================
