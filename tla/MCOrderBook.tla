----------------------------- MODULE MCOrderBook ------------------------------
(* Small instances of OrderBook for TLC. *)
EXTENDS OrderBook, TLC

Kind(tif, post, reduce) == [tif |-> tif, postOnly |-> post, reduceOnly |-> reduce]

Gtc == Kind("GTC", FALSE, FALSE)
Fok == Kind("FOK", FALSE, FALSE)

GtcKinds == {Gtc}
AllKinds == {Gtc, Fok, Kind("IOC", FALSE, FALSE), Kind("GTC", FALSE, TRUE),
             Kind("GTC", TRUE, FALSE), Kind("PostOnly", FALSE, FALSE)}

\* Traders are interchangeable: nothing but equality is asked of them.
TraderSymmetry == Permutations(Traders)
===============================================================================
