------------------------------- MODULE MCShop -------------------------------
(* Shop for TLC: two interactions over a small database.                    *)
EXTENDS Shop

Start(kind, code, n) ==
    [kind |-> kind, user |-> "u", code |-> code, new |-> "c3", type |-> "script",
     n |-> n]

\* from one item to two and a half
Wanted == {Start("buy", "c1", n) : n \in {2, 3, 4, 5}} \cup {Start("send", "c1", 4)}

Scripts == {Start(k, "c2", 2) : k \in {"buy", "send"}}

Admin ==
    {Start(k, "c1", 1) : k \in {"checkstock", "addstock", "removeproduct",
                               "changetype", "changecode", "setprice"}}
    \cup {Start(k, "c3", 1) : k \in {"addproduct", "credit", "removebalance"}}

AllRequests == Wanted \cup Scripts \cup Admin

Products == {[id |-> 1, code |-> "c1", type |-> "yes"],
             [id |-> 2, code |-> "c2", type |-> "script"]}

Prices == {[id |-> 1, code |-> "c1", price |-> 1], [id |-> 2, code |-> "c2", price |-> 3]}

Stock == [i1 |-> "c1", i2 |-> "c1", i3 |-> "c2", i4 |-> "unused", i5 |-> "unused"]

OneUser == {"u"}
ThreeCodes == {"c1", "c2", "c3"}
FiveItems == {"i1", "i2", "i3", "i4", "i5"}
Four == 1 .. 4
Wallets == [u |-> 5]
=============================================================================
