----------------------------- MODULE ShopProofs -----------------------------
(***************************************************************************)
(* Stock is handed out once and never loses its trace, the books of every   *)
(* account balance, and who paid is served, for any number of interactions, *)
(* buyers, products and items.                                             *)
(*                                                                         *)
(* The type a call read decides whether it deletes what it sends, so it may *)
(* not change while the call holds items: a call that can still read the    *)
(* type has empty hands (EmptyHands).  /checkstock alone puts items back    *)
(* (Lonely), one at a time (OneInHand), and the loops count down from at    *)
(* least one (TurnsLeft).  Every step leaves at most one more item without  *)
(* a trace, and then counts a failure (TraceKept).                          *)
(*                                                                         *)
(* ServiceInv, on top of it, says which kind of call can be where and what  *)
(* it has paid (StagesInv), that a wallet which was read had been given and *)
(* not removed (FundInv) and covers the charge (AffordInv), and that a      *)
(* purchase nobody interfered with finds in stock what it has yet to take   *)
(* (PlentyInv).  A sum over calls is the cardinality of its set of coins:   *)
(* one more call adds one finite set disjoint from the others (CoinsAdd).   *)
(***************************************************************************)
EXTENDS Shop, FiniteSetTheorems, TLAPS

EmptyHands ==
    \A c \in Calls :
        at[c] \in {"idle", "maintenance", "list", "wallet", "price", "count", "recheck"}
            => got[c] = {}

Lonely ==
    \A c \in Calls :
        /\ at[c] = "putback" => req[c].kind = "checkstock"
        /\ at[c] = "writeprice" => req[c].kind = "changecode"

Looping(c) ==
    \/ at[c] \in {"recheck", "charge", "reply", "take", "putback"}
    \/ at[c] = "number" /\ req[c].kind = "buy"
    \/ at[c] = "writestock" /\ req[c].kind = "addstock"

TurnsLeft == \A c \in Calls : Looping(c) => left[c] # 0

OneInHand ==
    \A c \in Calls : req[c].kind = "checkstock" =>
        \/ got[c] = {}
        \/ at[c] \in {"putback", "crashed"} /\ \E i \in Items : got[c] = {i}

IInv ==
    /\ TypeOK /\ EmptyHands /\ Lonely /\ TurnsLeft /\ OneInHand
    /\ NeverSoldTwice /\ Traced

\* Half an item is a turn, too: no loop starts with none.
LEMMA TurnsPositive == ASSUME NEW n \in Nat \ {0} PROVE Turns(n) \in Nat \ {0}
BY DEF Turns

\* the number of items of a product is a number, and not 0 if there are any
LEMMA StockCounted ==
    ASSUME TypeOK, NEW code
    PROVE  /\ Cardinality(InStock(code)) \in Nat
           /\ InStock(code) # {} => Cardinality(InStock(code)) # 0
<1>1. IsFiniteSet(InStock(code))
  BY ShopAssumption, FS_Subset DEF InStock
<1>. QED BY <1>1, FS_CardinalityType, FS_EmptySet

\* The database and the calls before the first interaction.
LEMMA InitIInv == Init => IInv
<1>. SUFFICES ASSUME Init PROVE IInv OBVIOUS
<1>0. (CHOOSE r \in Requests : TRUE) \in Request
  BY ShopAssumption
<1>1. TypeOK
  BY <1>0, ShopAssumption DEF Init, TypeOK, Types, Steps, Places
<1>2. EmptyHands /\ Lonely /\ TurnsLeft /\ OneInHand
  BY DEF Init, EmptyHands, Lonely, TurnsLeft, Looping, OneInHand
<1>3. NeverSoldTwice
  BY DEF Init, NeverSoldTwice
<1>4. Traced
  <2>1. Untraced = {}
    BY ShopAssumption DEF Init, Untraced
  <2>2. Cardinality(Untraced) = 0 /\ faults = 0
    BY <2>1, FS_EmptySet DEF Init
  <2>. QED BY <2>2 DEF Traced
<1>. QED BY <1>1, <1>2, <1>3, <1>4 DEF IInv

-----------------------------------------------------------------------------
(* The shape of the state.                                                 *)

\* A booking leaves accounts what they are.
LEMMA BookedTyped ==
    ASSUME TypeOK, NEW c \in Calls, Booked(c)
    PROVE  /\ balance' \in [Users -> Int] /\ deposit' \in [Users -> Nat]
           /\ paid' = [paid EXCEPT ![c] = TRUE] /\ paid' \in [Calls -> BOOLEAN]
<1>1. req[c].user \in Users /\ req[c].n \in Nat /\ cost[c] \in Nat
  BY DEF TypeOK, Request
<1>2. balance' \in [Users -> Int] /\ deposit' \in [Users -> Nat]
  BY <1>1 DEF Booked, TypeOK
<1>3. paid' = [paid EXCEPT ![c] = TRUE]
  BY DEF Booked
<1>4. paid' \in [Calls -> BOOLEAN]
  BY <1>3 DEF TypeOK
<1>. QED BY <1>2, <1>3, <1>4

\* Every step keeps the shape; the countdowns of the loops stop at 0.
LEMMA TypeStep ==
    ASSUME TypeOK, Lonely, TurnsLeft, [Next]_vars
    PROVE  TypeOK'
<1>1. CASE UNCHANGED vars
  BY <1>1 DEF vars, data, books, call, TypeOK, Steps, Final, Types, Lonely,
    TurnsLeft, Looping, Request, Product, PriceDoc, Places
<1>2. ASSUME NEW c \in Calls, NEW r \in Requests, Ask(c, r) PROVE TypeOK'
  BY <1>2, ShopAssumption DEF Ask, Goto, data, books, TypeOK, Steps, Final, Types,
    Lonely, TurnsLeft, Looping, Request, Product, PriceDoc, Places
<1>3. ASSUME NEW c \in Calls, CheckMaintenance(c) PROVE TypeOK'
  BY <1>3 DEF CheckMaintenance, Goto, data, books, TypeOK, Steps, Final, Types,
    Lonely, TurnsLeft, Looping, Request, Product, PriceDoc, Places
<1>4. ASSUME NEW c \in Calls, FindProduct(c) PROVE TypeOK'
  BY <1>4 DEF FindProduct, Goto, data, books, AfterList, Found, TypeOK, Steps,
    Final, Types, Lonely, TurnsLeft, Looping, Request, Product, PriceDoc, Places
<1>5. ASSUME NEW c \in Calls, FindNoProduct(c) PROVE TypeOK'
  BY <1>5 DEF FindNoProduct, Goto, data, books, Found, TypeOK, Steps, Final,
    Types, Lonely, TurnsLeft, Looping, Request, Product, PriceDoc, Places
<1>6. ASSUME NEW c \in Calls, CodeTaken(c) PROVE TypeOK'
  BY <1>6 DEF CodeTaken, Goto, data, books, Found, TypeOK, Steps, Final, Types,
    Lonely, TurnsLeft, Looping, Request, Product, PriceDoc, Places
<1>7. ASSUME NEW c \in Calls, FindWallet(c) PROVE TypeOK'
  BY <1>7 DEF FindWallet, Goto, data, books, TypeOK, Steps, Final, Types, Lonely,
    TurnsLeft, Looping, Request, Product, PriceDoc, Places
<1>8. ASSUME NEW c \in Calls, FindPrice(c) PROVE TypeOK'
  BY <1>8 DEF FindPrice, Goto, data, books, Found, TypeOK, Steps, Final, Types,
    Lonely, TurnsLeft, Looping, Request, Product, PriceDoc, Places
<1>9. ASSUME NEW c \in Calls, FindNoPrice(c) PROVE TypeOK'
  BY <1>9 DEF FindNoPrice, Goto, data, books, Found, TypeOK, Steps, Final, Types,
    Lonely, TurnsLeft, Looping, Request, Product, PriceDoc, Places
<1>10. ASSUME NEW c \in Calls, CountStock(c) PROVE TypeOK'
  <2>1. req[c].n \in Nat \ {0} /\ req[c] \in Request
    BY DEF TypeOK, Request
  <2>2. left' \in [Calls -> Nat]
    BY <1>10, <2>1, StockCounted, TurnsPositive DEF CountStock, TypeOK
  <2>3. at' \in [Calls -> Steps]
    BY <1>10 DEF CountStock, Goto, TypeOK, Steps
  <2>. QED BY <1>10, <2>2, <2>3 DEF CountStock, data, books, TypeOK
<1>11. ASSUME NEW c \in Calls, Refuse(c) PROVE TypeOK'
  BY <1>11 DEF Refuse, Goto, data, books, TypeOK, Steps, Final, Types, Lonely,
    TurnsLeft, Looping, Request, Product, PriceDoc, Places
<1>12. ASSUME NEW c \in Calls, Recheck(c) PROVE TypeOK'
  BY <1>12 DEF Recheck, Goto, data, books, Found, TypeOK, Steps, Final, Types,
    Lonely, TurnsLeft, Looping, Request, Product, PriceDoc, Places
<1>13. ASSUME NEW c \in Calls, NextNumber(c) PROVE TypeOK'
  BY <1>13 DEF NextNumber, Goto, data, books, TypeOK, Steps, Final, Types, Lonely,
    TurnsLeft, Looping, Request, Product, PriceDoc, Places
<1>14. ASSUME NEW c \in Calls, Charge(c) PROVE TypeOK'
  <2>1. at' \in [Calls -> Steps]
    BY <1>14 DEF Charge, Goto, TypeOK, Steps, Final
  <2>2. Booked(c)
    BY <1>14 DEF Charge
  <2>. QED BY <1>14, <2>1, <2>2, BookedTyped DEF Charge, data, TypeOK
<1>15. ASSUME NEW c \in Calls, Reply(c) PROVE TypeOK'
  BY <1>15 DEF Reply, Goto, data, books, TypeOK, Steps, Final, Types, Lonely,
    TurnsLeft, Looping, Request, Product, PriceDoc, Places
<1>16. ASSUME NEW c \in Calls, Take(c) PROVE TypeOK'
  <2>1. left[c] \in Nat \ {0}
    BY <1>16 DEF Take, TypeOK, TurnsLeft, Looping
  <2>2. left' \in [Calls -> Nat]
    BY <1>16, <2>1 DEF Take, TypeOK
  <2>3. shop' \in [Items -> Places] /\ got' \in [Calls -> SUBSET Items]
    BY <1>16 DEF Take, InStock, TypeOK, Places
  <2>4. at' \in [Calls -> Steps]
    BY <1>16 DEF Take, Goto, TypeOK, Steps
  <2>. QED BY <1>16, <2>2, <2>3, <2>4 DEF Take, books, TypeOK
<1>17. ASSUME NEW c \in Calls, TakeScript(c) PROVE TypeOK'
  BY <1>17 DEF TakeScript, Goto, data, books, InStock, TypeOK, Steps, Final,
    Types, Lonely, TurnsLeft, Looping, Request, Product, PriceDoc, Places
<1>18. ASSUME NEW c \in Calls, FindNothing(c) PROVE TypeOK'
  BY <1>18 DEF FindNothing, Goto, data, books, WhenOut, InStock, TypeOK, Steps,
    Final, Types, Lonely, TurnsLeft, Looping, Request, Product, PriceDoc, Places
<1>19. ASSUME NEW c \in Calls, PutBack(c) PROVE TypeOK'
  <2>1. left[c] \in Nat \ {0}
    BY <1>19 DEF PutBack, TypeOK, TurnsLeft, Looping
  <2>2. left' \in [Calls -> Nat]
    BY <1>19, <2>1 DEF PutBack, TypeOK
  <2>3. shop' \in [Items -> Places]
    BY <1>19 DEF PutBack, TypeOK, Request, Places
  <2>4. at' \in [Calls -> Steps]
    BY <1>19 DEF PutBack, Goto, TypeOK, Steps, Final
  <2>. QED BY <1>19, <2>2, <2>3, <2>4 DEF PutBack, books, TypeOK
<1>20. ASSUME NEW c \in Calls, Deliver(c) PROVE TypeOK'
  BY <1>20 DEF Deliver, Goto, data, books, TypeOK, Steps, Final, Types, Lonely,
    TurnsLeft, Looping, Request, Product, PriceDoc, Places
<1>21. ASSUME NEW c \in Calls, FollowUp(c) PROVE TypeOK'
  BY <1>21 DEF FollowUp, Goto, data, books, TypeOK, Steps, Final, Types, Lonely,
    TurnsLeft, Looping, Request, Product, PriceDoc, Places
<1>22. ASSUME NEW c \in Calls, Testimonial(c) PROVE TypeOK'
  BY <1>22 DEF Testimonial, Goto, data, books, TypeOK, Steps, Final, Types,
    Lonely, TurnsLeft, Looping, Request, Product, PriceDoc, Places
<1>23. ASSUME NEW c \in Calls, Apologise(c) PROVE TypeOK'
  BY <1>23 DEF Apologise, Goto, data, books, TypeOK, Steps, Final, Types, Lonely,
    TurnsLeft, Looping, Request, Product, PriceDoc, Places
<1>24. ASSUME NEW c \in Calls, AddProduct(c) PROVE TypeOK'
  BY <1>24 DEF AddProduct, Goto, data, books, TypeOK, Steps, Final, Types, Lonely,
    TurnsLeft, Looping, Request, Product, PriceDoc, Places
<1>25. ASSUME NEW c \in Calls, RemoveProduct(c) PROVE TypeOK'
  BY <1>25 DEF RemoveProduct, Goto, data, books, Found, TypeOK, Steps, Final,
    Types, Lonely, TurnsLeft, Looping, Request, Product, PriceDoc, Places
<1>26. ASSUME NEW c \in Calls, ChangeType(c) PROVE TypeOK'
  BY <1>26 DEF ChangeType, Goto, data, books, Found, TypeOK, Steps, Final, Types,
    Lonely, TurnsLeft, Looping, Request, Product, PriceDoc, Places
<1>27. ASSUME NEW c \in Calls, SetPrice(c) PROVE TypeOK'
  BY <1>27 DEF SetPrice, Goto, data, books, Found, TypeOK, Steps, Final, Types,
    Lonely, TurnsLeft, Looping, Request, Product, PriceDoc, Places
<1>28. ASSUME NEW c \in Calls, ChangeCode(c) PROVE TypeOK'
  BY <1>28 DEF ChangeCode, Goto, data, books, Found, TypeOK, Steps, Final, Types,
    Lonely, TurnsLeft, Looping, Request, Product, PriceDoc, Places
<1>29. ASSUME NEW c \in Calls, ChangePriceCode(c) PROVE TypeOK'
  BY <1>29 DEF ChangePriceCode, Goto, data, books, Found, TypeOK, Steps, Final,
    Types, Lonely, TurnsLeft, Looping, Request, Product, PriceDoc, Places
<1>30. ASSUME NEW c \in Calls, ChangeStockCode(c) PROVE TypeOK'
  BY <1>30 DEF ChangeStockCode, Goto, data, books, InStock, TypeOK, Steps, Final,
    Types, Lonely, TurnsLeft, Looping, Request, Product, PriceDoc, Places
<1>31. ASSUME NEW c \in Calls, WriteNothing(c) PROVE TypeOK'
  BY <1>31 DEF WriteNothing, Goto, data, books, AfterWrite, Found, InStock,
    TypeOK, Steps, Final, Types, Lonely, TurnsLeft, Looping, Request, Product,
    PriceDoc, Places
<1>32. ASSUME NEW c \in Calls, AddStock(c) PROVE TypeOK'
  <2>1. left[c] \in Nat \ {0}
    BY <1>32 DEF AddStock, TypeOK, TurnsLeft, Looping
  <2>2. left' \in [Calls -> Nat]
    BY <1>32, <2>1 DEF AddStock, TypeOK
  <2>3. shop' \in [Items -> Places]
    BY <1>32 DEF AddStock, InStock, TypeOK, Request, Places
  <2>4. at' \in [Calls -> Steps]
    BY <1>32 DEF AddStock, Goto, TypeOK, Steps, Final
  <2>. QED BY <1>32, <2>2, <2>3, <2>4 DEF AddStock, books, TypeOK
<1>33. ASSUME NEW c \in Calls, Credit(c) PROVE TypeOK'
  <2>1. at' \in [Calls -> Steps]
    BY <1>33 DEF Credit, Goto, TypeOK, Steps, Final
  <2>2. Booked(c)
    BY <1>33 DEF Credit
  <2>. QED BY <1>33, <2>1, <2>2, BookedTyped DEF Credit, data, TypeOK
<1>34. ASSUME NEW c \in Calls, RemoveBalance(c) PROVE TypeOK'
  <2>1. at' \in [Calls -> Steps]
    BY <1>34 DEF RemoveBalance, Goto, TypeOK, Steps, Final
  <2>2. Booked(c)
    BY <1>34 DEF RemoveBalance
  <2>. QED BY <1>34, <2>1, <2>2, BookedTyped DEF RemoveBalance, data, TypeOK
<1>35. ASSUME NEW c \in Calls, ReadFails(c) PROVE TypeOK'
  BY <1>35, ShopAssumption DEF ReadFails, Goto, data, books, WhenUnread, Fault,
    TypeOK, Steps, Final, Types, Lonely, TurnsLeft, Looping, Request, Product,
    PriceDoc, Places
<1>36. ASSUME NEW c \in Calls, NumberFails(c) PROVE TypeOK'
  BY <1>36, ShopAssumption DEF NumberFails, Goto, data, books, Fault, TypeOK,
    Steps, Final, Types, Lonely, TurnsLeft, Looping, Request, Product, PriceDoc,
    Places
<1>37. ASSUME NEW c \in Calls, ChargeFails(c) PROVE TypeOK'
  <2>1. /\ balance' \in [Users -> Int] /\ deposit' \in [Users -> Nat]
        /\ paid' \in [Calls -> BOOLEAN]
    <3>1. CASE Booked(c)
      BY <3>1, BookedTyped
    <3>2. CASE UNCHANGED <<books, paid>>
      BY <3>2 DEF books, TypeOK
    <3>. QED BY <1>37, <3>1, <3>2 DEF ChargeFails
  <2>2. faults' \in 0 .. MaxFaults
    BY <1>37, ShopAssumption DEF ChargeFails, Fault, TypeOK
  <2>3. at' \in [Calls -> Steps]
    BY <1>37 DEF ChargeFails, Goto, TypeOK, Steps, Final
  <2>. QED BY <1>37, <2>1, <2>2, <2>3 DEF ChargeFails, data, TypeOK
<1>38. ASSUME NEW c \in Calls, TakeFails(c) PROVE TypeOK'
  <2>1. shop' \in [Items -> Places]
    BY <1>38 DEF TakeFails, TypeOK, Places
  <2>2. faults' \in 0 .. MaxFaults
    BY <1>38, ShopAssumption DEF TakeFails, Fault, TypeOK
  <2>3. at' \in [Calls -> Steps]
    BY <1>38 DEF TakeFails, WhenOut, Goto, TypeOK, Steps, Final
  <2>. QED BY <1>38, <2>1, <2>2, <2>3 DEF TakeFails, books, TypeOK
<1>39. ASSUME NEW c \in Calls, PutBackFails(c) PROVE TypeOK'
  <2>1. left[c] \in Nat \ {0}
    BY <1>39 DEF PutBackFails, TypeOK, TurnsLeft, Looping
  <2>2. left' \in [Calls -> Nat]
    BY <1>39, <2>1 DEF PutBackFails, TypeOK
  <2>3. faults' \in 0 .. MaxFaults
    BY <1>39, ShopAssumption DEF PutBackFails, Fault, TypeOK
  <2>4. at' \in [Calls -> Steps]
    BY <1>39 DEF PutBackFails, Goto, TypeOK, Steps, Final
  <2>. QED BY <1>39, <2>2, <2>3, <2>4 DEF PutBackFails, data, books, TypeOK
<1>40. ASSUME NEW c \in Calls, WriteFails(c) PROVE TypeOK'
  <2>1. left' \in [Calls -> Nat]
    BY <1>40 DEF WriteFails, TypeOK, TurnsLeft, Looping
  <2>2. faults' \in 0 .. MaxFaults
    BY <1>40, ShopAssumption DEF WriteFails, Fault, TypeOK
  <2>3. at' \in [Calls -> Steps]
    BY <1>40 DEF WriteFails, AfterWrite, Goto, TypeOK, Steps, Final
  <2>. QED BY <1>40, <2>1, <2>2, <2>3 DEF WriteFails, data, books, TypeOK
<1>41. ASSUME NEW c \in Calls, DiscordFails(c) PROVE TypeOK'
  BY <1>41, ShopAssumption DEF DiscordFails, Goto, data, books, Fault, TypeOK,
    Steps, Final, Types, Lonely, TurnsLeft, Looping, Request, Product, PriceDoc,
    Places
<1>42. CASE Crash
  BY <1>42, ShopAssumption DEF Crash, Fault, data, books, Running, Final, TypeOK,
    Steps, Final, Types, Lonely, TurnsLeft, Looping, Request, Product, PriceDoc,
    Places
<1>. QED BY <1>1, <1>2, <1>3, <1>4, <1>5, <1>6, <1>7, <1>8, <1>9, <1>10, <1>11,
  <1>12, <1>13, <1>14, <1>15, <1>16, <1>17, <1>18, <1>19, <1>20, <1>21, <1>22,
  <1>23, <1>24, <1>25, <1>26, <1>27, <1>28, <1>29, <1>30, <1>31, <1>32, <1>33,
  <1>34, <1>35, <1>36, <1>37, <1>38, <1>39, <1>40, <1>41, <1>42 DEF Next, Step,
  Fails

\* A step that succeeds counts no fault.
LEMMA StepsCountNone ==
    ASSUME NEW c \in Calls, (\E r \in Requests : Ask(c, r)) \/ Step(c)
    PROVE  faults' = faults
BY DEF Ask, Step, CheckMaintenance, FindProduct, FindNoProduct, CodeTaken,
    FindWallet, FindPrice, FindNoPrice, CountStock, Refuse, Recheck, NextNumber,
    Charge, Reply, Take, TakeScript, FindNothing, PutBack, Deliver, FollowUp,
    Testimonial, Apologise, AddProduct, RemoveProduct, ChangeType, SetPrice,
    ChangeCode, ChangePriceCode, ChangeStockCode, WriteNothing, AddStock, Credit,
    RemoveBalance

\* Only a failure or a crash counts a fault, and it counts one.
LEMMA FaultsStep ==
    ASSUME [Next]_vars
    PROVE  /\ faults' \in {faults, faults + 1}
           /\ \/ faults' = faults
              \/ Fault /\ (Crash \/ \E c \in Calls : Fails(c))
<1>1. ASSUME NEW c \in Calls, (\E r \in Requests : Ask(c, r)) \/ Step(c)
      PROVE  faults' = faults
  BY <1>1, StepsCountNone
<1>2. ASSUME NEW c \in Calls, Fails(c) PROVE Fault
  BY <1>2 DEF Fails, ReadFails, NumberFails, ChargeFails, TakeFails, PutBackFails,
    WriteFails, DiscordFails
<1>3. Crash => Fault
  BY DEF Crash
<1>. QED BY <1>1, <1>2, <1>3 DEF Next, vars, Fault

-----------------------------------------------------------------------------
(* Hands and loops.                                                        *)

\* No call gets back to its first reads, no other kind gets to /checkstock's save.
LEMMA HandsStep ==
    ASSUME TypeOK, EmptyHands, Lonely, [Next]_vars
    PROVE  EmptyHands' /\ Lonely'
<1>1. CASE UNCHANGED vars \/ Crash
  BY <1>1 DEF vars, call, Crash, Running, Final, TypeOK, EmptyHands, Lonely, Final
<1>2. ASSUME NEW c \in Calls, NEW r \in Requests, Ask(c, r) PROVE EmptyHands' /\
  Lonely'
  BY <1>2, ShopAssumption DEF Ask, Goto, TypeOK, EmptyHands, Lonely, Final
<1>3. ASSUME NEW c \in Calls,
      \/ CheckMaintenance(c) \/ FindProduct(c) \/ FindNoProduct(c)
      \/ CodeTaken(c) \/ FindWallet(c) \/ FindPrice(c)
      \/ FindNoPrice(c) \/ Refuse(c) \/ Recheck(c)
      \/ CountStock(c)
     PROVE  EmptyHands' /\ Lonely'
  BY <1>3 DEF Goto, CheckMaintenance, FindProduct, AfterList, Found,
    FindNoProduct, CodeTaken, FindWallet, FindPrice, FindNoPrice, Refuse, Recheck,
    CountStock, InStock, TypeOK, EmptyHands, Lonely, Final
<1>4. ASSUME NEW c \in Calls,
      \/ NextNumber(c) \/ Charge(c) \/ Reply(c)
      \/ FindNothing(c)
     PROVE  EmptyHands' /\ Lonely'
  BY <1>4 DEF Goto, NextNumber, Charge, Reply, FindNothing, WhenOut, InStock,
    TypeOK, EmptyHands, Lonely, Final
<1>5. ASSUME NEW c \in Calls,
      \/ Take(c) \/ TakeScript(c) \/ PutBack(c)
     PROVE  EmptyHands' /\ Lonely'
  BY <1>5 DEF Goto, Take, InStock, TakeScript, PutBack, TypeOK, EmptyHands,
    Lonely, Final
<1>6. ASSUME NEW c \in Calls,
      \/ Deliver(c) \/ FollowUp(c) \/ Testimonial(c)
      \/ Apologise(c)
     PROVE  EmptyHands' /\ Lonely'
  BY <1>6 DEF Goto, Deliver, FollowUp, Testimonial, Apologise, TypeOK, EmptyHands,
    Lonely, Final
<1>7. ASSUME NEW c \in Calls,
      \/ AddProduct(c) \/ RemoveProduct(c) \/ ChangeType(c)
      \/ SetPrice(c) \/ ChangeCode(c) \/ ChangePriceCode(c)
      \/ ChangeStockCode(c) \/ WriteNothing(c) \/ AddStock(c)
      \/ Credit(c) \/ RemoveBalance(c)
     PROVE  EmptyHands' /\ Lonely'
  BY <1>7 DEF Goto, AddProduct, RemoveProduct, Found, ChangeType, SetPrice,
    ChangeCode, ChangePriceCode, ChangeStockCode, InStock, WriteNothing,
    AfterWrite, AddStock, Credit, RemoveBalance, TypeOK, EmptyHands, Lonely, Final
<1>8. ASSUME NEW c \in Calls,
      \/ ReadFails(c) \/ NumberFails(c) \/ ChargeFails(c)
      \/ TakeFails(c)
     PROVE  EmptyHands' /\ Lonely'
  BY <1>8 DEF Goto, ReadFails, WhenUnread, NumberFails, ChargeFails, TakeFails,
    WhenOut, TypeOK, EmptyHands, Lonely, Final
<1>9. ASSUME NEW c \in Calls,
      \/ PutBackFails(c) \/ WriteFails(c) \/ DiscordFails(c)
     PROVE  EmptyHands' /\ Lonely'
  BY <1>9 DEF Goto, PutBackFails, WriteFails, AfterWrite, DiscordFails, TypeOK,
    EmptyHands, Lonely, Final
<1>. QED BY <1>1, <1>2, <1>3, <1>4, <1>5, <1>6, <1>7, <1>8, <1>9 DEF Next, Step,
  Fails

\* A loop is entered with turns to run and left with none.
LEMMA TurnsStep ==
    ASSUME TypeOK, Lonely, TurnsLeft, [Next]_vars
    PROVE  TurnsLeft'
<1>1. CASE UNCHANGED vars \/ Crash
  BY <1>1 DEF vars, call, Crash, Running, Final, TypeOK, Lonely, TurnsLeft,
    Looping, Request, Final
<1>2. ASSUME NEW c \in Calls, NEW r \in Requests, Ask(c, r) PROVE TurnsLeft'
  BY <1>2, ShopAssumption DEF Ask, Goto, TypeOK, Lonely, TurnsLeft, Looping,
    Request, Final
<1>3. ASSUME NEW c \in Calls, CountStock(c) PROVE TurnsLeft'
  <2>1. req[c].n \in Nat \ {0}
    BY DEF TypeOK, Request
  <2>2. left'[c] # 0
    BY <1>3, <2>1, StockCounted, TurnsPositive DEF CountStock, Accepted, Enough,
      TypeOK
  <2>. QED BY <1>3, <2>2 DEF CountStock, Goto, TypeOK, TurnsLeft, Looping
<1>4. ASSUME NEW c \in Calls,
      \/ CheckMaintenance(c) \/ FindProduct(c) \/ FindNoProduct(c)
      \/ CodeTaken(c) \/ FindWallet(c) \/ FindPrice(c)
      \/ FindNoPrice(c) \/ Refuse(c) \/ Recheck(c)
     PROVE  TurnsLeft'
  BY <1>4 DEF Goto, CheckMaintenance, FindProduct, AfterList, Found,
    FindNoProduct, CodeTaken, FindWallet, FindPrice, FindNoPrice, Refuse, Recheck,
    TypeOK, Lonely, TurnsLeft, Looping, Request, Final
<1>5. ASSUME NEW c \in Calls,
      \/ NextNumber(c) \/ Charge(c) \/ Reply(c)
      \/ FindNothing(c)
     PROVE  TurnsLeft'
  BY <1>5 DEF Goto, NextNumber, Charge, Reply, FindNothing, WhenOut, InStock,
    TypeOK, Lonely, TurnsLeft, Looping, Request, Final
<1>6. ASSUME NEW c \in Calls,
      \/ Take(c) \/ TakeScript(c) \/ PutBack(c)
     PROVE  TurnsLeft'
  BY <1>6 DEF Goto, Take, InStock, TakeScript, PutBack, TypeOK, Lonely, TurnsLeft,
    Looping, Request, Final
<1>7. ASSUME NEW c \in Calls,
      \/ Deliver(c) \/ FollowUp(c) \/ Testimonial(c)
      \/ Apologise(c)
     PROVE  TurnsLeft'
  BY <1>7 DEF Goto, Deliver, FollowUp, Testimonial, Apologise, TypeOK, Lonely,
    TurnsLeft, Looping, Request, Final
<1>8. ASSUME NEW c \in Calls,
      \/ AddProduct(c) \/ RemoveProduct(c) \/ ChangeType(c)
      \/ SetPrice(c) \/ ChangeCode(c) \/ ChangePriceCode(c)
      \/ ChangeStockCode(c) \/ WriteNothing(c) \/ AddStock(c)
      \/ Credit(c) \/ RemoveBalance(c)
     PROVE  TurnsLeft'
  BY <1>8 DEF Goto, AddProduct, RemoveProduct, Found, ChangeType, SetPrice,
    ChangeCode, ChangePriceCode, ChangeStockCode, InStock, WriteNothing,
    AfterWrite, AddStock, Credit, RemoveBalance, TypeOK, Lonely, TurnsLeft,
    Looping, Request, Final
<1>9. ASSUME NEW c \in Calls,
      \/ ReadFails(c) \/ NumberFails(c) \/ ChargeFails(c)
      \/ TakeFails(c)
     PROVE  TurnsLeft'
  BY <1>9 DEF Goto, ReadFails, WhenUnread, NumberFails, ChargeFails, TakeFails,
    WhenOut, TypeOK, Lonely, TurnsLeft, Looping, Request, Final
<1>10. ASSUME NEW c \in Calls,
      \/ PutBackFails(c) \/ WriteFails(c) \/ DiscordFails(c)
     PROVE  TurnsLeft'
  BY <1>10 DEF Goto, PutBackFails, WriteFails, AfterWrite, DiscordFails, TypeOK,
    Lonely, TurnsLeft, Looping, Request, Final
<1>. QED BY <1>1, <1>2, <1>3, <1>4, <1>5, <1>6, <1>7, <1>8, <1>9, <1>10 DEF Next,
  Step, Fails

-----------------------------------------------------------------------------
(* Stock.                                                                  *)

\* the steps that touch stock, hands or the type a call read
Handling(c) ==
    \/ FindProduct(c) \/ Recheck(c) \/ Take(c) \/ TakeScript(c) \/ PutBack(c)
    \/ PutBackFails(c) \/ TakeFails(c) \/ AddStock(c) \/ ChangeStockCode(c)

\* The remaining steps leave stock, hands and types alone.
LEMMA OthersKeepHands ==
    ASSUME NEW c \in Calls, Step(c) \/ Fails(c), ~Handling(c)
    PROVE  UNCHANGED <<req, type, shop, got>>
BY DEF Step, Fails, Handling, data, CheckMaintenance, FindNoProduct, CodeTaken,
  FindWallet, FindPrice, FindNoPrice, CountStock, Refuse, NextNumber, Charge, Reply,
  FindNothing, Deliver, FollowUp, Testimonial, Apologise, AddProduct, RemoveProduct,
  ChangeType, SetPrice, ChangeCode, ChangePriceCode, WriteNothing, Credit,
  RemoveBalance, ReadFails, NumberFails, ChargeFails, WriteFails, DiscordFails

\* findOneAndDelete gives an item to one call, PutBack gives it back for good.
LEMMA SoldStep ==
    ASSUME TypeOK, EmptyHands, Lonely, NeverSoldTwice, [Next]_vars
    PROVE  NeverSoldTwice'
<1>1. CASE UNCHANGED vars \/ Crash
  BY <1>1 DEF vars, call, Crash, data, TypeOK, EmptyHands, Lonely, NeverSoldTwice,
    Exclusive, Request
<1>2. ASSUME NEW c \in Calls, NEW r \in Requests, Ask(c, r) PROVE NeverSoldTwice'
  BY <1>2, ShopAssumption DEF Ask, data, TypeOK, EmptyHands, Lonely,
    NeverSoldTwice, Exclusive, Request
<1>3. ASSUME NEW c \in Calls, Step(c) \/ Fails(c), ~Handling(c) PROVE
  NeverSoldTwice'
  BY <1>3, OthersKeepHands DEF TypeOK, EmptyHands, Lonely, NeverSoldTwice,
    Exclusive, Request
<1>4. ASSUME NEW c \in Calls, FindProduct(c) PROVE NeverSoldTwice'
  BY <1>4 DEF FindProduct, data, AfterList, Found, TypeOK, EmptyHands, Lonely,
    NeverSoldTwice, Exclusive, Request
<1>5. ASSUME NEW c \in Calls, Recheck(c) PROVE NeverSoldTwice'
  BY <1>5 DEF Recheck, data, Found, TypeOK, EmptyHands, Lonely, NeverSoldTwice,
    Exclusive, Request
<1>6. ASSUME NEW c \in Calls, Take(c) PROVE NeverSoldTwice'
  <2>1. req[c].code \in Codes /\ req[c].new \in Codes
    BY DEF TypeOK, Request
  <2>2. req[c].code \notin {"unused", "out"} /\ req[c].new \notin {"unused", "out"}
    BY <2>1, ShopAssumption
  <2>. QED BY <1>6, <2>2 DEF Take, data, InStock, TypeOK, EmptyHands, Lonely,
    NeverSoldTwice, Exclusive, Request
<1>7. ASSUME NEW c \in Calls, TakeScript(c) PROVE NeverSoldTwice'
  BY <1>7 DEF TakeScript, data, InStock, TypeOK, EmptyHands, Lonely,
    NeverSoldTwice, Exclusive, Request
<1>8. ASSUME NEW c \in Calls, PutBack(c) PROVE NeverSoldTwice'
  <2>1. req[c].code \in Codes /\ req[c].new \in Codes
    BY DEF TypeOK, Request
  <2>2. req[c].code \notin {"unused", "out"} /\ req[c].new \notin {"unused", "out"}
    BY <2>1, ShopAssumption
  <2>. QED BY <1>8, <2>2 DEF PutBack, data, TypeOK, EmptyHands, Lonely,
    NeverSoldTwice, Exclusive, Request
<1>9. ASSUME NEW c \in Calls, PutBackFails(c) PROVE NeverSoldTwice'
  BY <1>9 DEF PutBackFails, data, TypeOK, EmptyHands, Lonely, NeverSoldTwice,
    Exclusive, Request
<1>10. ASSUME NEW c \in Calls, AddStock(c) PROVE NeverSoldTwice'
  <2>1. req[c].code \in Codes /\ req[c].new \in Codes
    BY DEF TypeOK, Request
  <2>2. req[c].code \notin {"unused", "out"} /\ req[c].new \notin {"unused", "out"}
    BY <2>1, ShopAssumption
  <2>. QED BY <1>10, <2>2 DEF AddStock, data, InStock, TypeOK, EmptyHands, Lonely,
    NeverSoldTwice, Exclusive, Request
<1>11. ASSUME NEW c \in Calls, ChangeStockCode(c) PROVE NeverSoldTwice'
  <2>1. req[c].code \in Codes /\ req[c].new \in Codes
    BY DEF TypeOK, Request
  <2>2. req[c].code \notin {"unused", "out"} /\ req[c].new \notin {"unused", "out"}
    BY <2>1, ShopAssumption
  <2>. QED BY <1>11, <2>2 DEF ChangeStockCode, data, InStock, TypeOK, EmptyHands,
    Lonely, NeverSoldTwice, Exclusive, Request
<1>12. ASSUME NEW c \in Calls, TakeFails(c) PROVE NeverSoldTwice'
  <2>1. UNCHANGED <<req, type, got>> /\ \A i \in Items : shop[i] = "out" => shop'[i] = "out"
    BY <1>12 DEF TakeFails, TypeOK
  <2>2. \A d \in Calls : got[d] \subseteq Items
    BY DEF TypeOK
  <2>. QED BY <2>1, <2>2 DEF NeverSoldTwice, Exclusive
<1>. QED BY <1>1, <1>2, <1>3, <1>4, <1>5, <1>6, <1>7, <1>8, <1>9, <1>10, <1>11, <1>12
  DEF Next, Handling

\* /checkstock has the item it deleted, and no other, until it has tried to save it.
LEMMA OneInHandStep ==
    ASSUME TypeOK, EmptyHands, Lonely, OneInHand, [Next]_vars
    PROVE  OneInHand'
<1>. USE DEF TypeOK, OneInHand
<1>1. CASE UNCHANGED vars \/ Crash
  BY <1>1 DEF vars, call, Crash, Running, Final
<1>2. ASSUME NEW c \in Calls, NEW r \in Requests, Ask(c, r) PROVE OneInHand'
  BY <1>2, ShopAssumption DEF Ask, Goto, EmptyHands
<1>3. ASSUME NEW c \in Calls, UNCHANGED <<req, got>>, at[c] \notin {"putback", "crashed"},
             \E stage : at' = [at EXCEPT ![c] = stage]
      PROVE  OneInHand'
  BY <1>3
<1>4. ASSUME NEW c \in Calls,
      \/ CheckMaintenance(c) \/ FindProduct(c) \/ FindNoProduct(c) \/ CodeTaken(c)
      \/ FindWallet(c) \/ FindPrice(c) \/ FindNoPrice(c) \/ Refuse(c) \/ Recheck(c)
      \/ CountStock(c) \/ NextNumber(c) \/ Charge(c) \/ Reply(c) \/ FindNothing(c)
      PROVE  OneInHand'
  <2>1. UNCHANGED <<req, got>> /\ at[c] \notin {"putback", "crashed"}
    BY <1>4 DEF CheckMaintenance, FindProduct, FindNoProduct, CodeTaken, FindWallet,
      FindPrice, FindNoPrice, Refuse, Recheck, CountStock, NextNumber, Charge, Reply,
      FindNothing
  <2>2. \E stage : at' = [at EXCEPT ![c] = stage]
    BY <1>4, Zenon DEF CheckMaintenance, FindProduct, FindNoProduct, CodeTaken,
      FindWallet, FindPrice, FindNoPrice, Refuse, Recheck, CountStock, NextNumber,
      Charge, Reply, FindNothing, Goto
  <2>. QED BY <1>3, <2>1, <2>2
<1>5. ASSUME NEW c \in Calls,
      \/ Deliver(c) \/ FollowUp(c) \/ Testimonial(c) \/ Apologise(c) \/ AddProduct(c)
      \/ RemoveProduct(c) \/ ChangeType(c) \/ SetPrice(c) \/ ChangeCode(c)
      \/ ChangePriceCode(c) \/ ChangeStockCode(c) \/ WriteNothing(c) \/ AddStock(c)
      \/ Credit(c) \/ RemoveBalance(c)
      PROVE  OneInHand'
  <2>1. UNCHANGED <<req, got>> /\ at[c] \notin {"putback", "crashed"}
    BY <1>5 DEF Deliver, FollowUp, Testimonial, Apologise, AddProduct, RemoveProduct,
      ChangeType, SetPrice, ChangeCode, ChangePriceCode, ChangeStockCode, WriteNothing,
      AddStock, Credit, RemoveBalance
  <2>2. \E stage : at' = [at EXCEPT ![c] = stage]
    BY <1>5, Zenon DEF Deliver, FollowUp, Testimonial, Apologise, AddProduct,
      RemoveProduct, ChangeType, SetPrice, ChangeCode, ChangePriceCode, ChangeStockCode,
      WriteNothing, AddStock, Credit, RemoveBalance, Goto
  <2>. QED BY <1>3, <2>1, <2>2
<1>6. ASSUME NEW c \in Calls,
      \/ ReadFails(c) \/ NumberFails(c) \/ ChargeFails(c) \/ TakeFails(c)
      \/ WriteFails(c) \/ DiscordFails(c)
      PROVE  OneInHand'
  <2>1. UNCHANGED <<req, got>> /\ at[c] \notin {"putback", "crashed"}
    BY <1>6 DEF ReadFails, NumberFails, ChargeFails, TakeFails, WriteFails, DiscordFails
  <2>2. \E stage : at' = [at EXCEPT ![c] = stage]
    BY <1>6, Zenon DEF ReadFails, NumberFails, ChargeFails, TakeFails, WriteFails,
      DiscordFails, Goto
  <2>. QED BY <1>3, <2>1, <2>2
<1>7. ASSUME NEW c \in Calls, Take(c) PROVE OneInHand'
  <2>1. PICK i \in Items : got' = [got EXCEPT ![c] = @ \cup {i}]
    BY <1>7 DEF Take, InStock
  <2>2. at[c] = "take" /\ req' = req /\ \A d \in Calls \ {c} : at'[d] = at[d]
    BY <1>7 DEF Take, Goto
  <2>3. ASSUME req[c].kind = "checkstock" PROVE got'[c] = {i} /\ at'[c] = "putback"
    BY <1>7, <2>1, <2>2, <2>3 DEF Take, Goto
  <2>. QED BY <2>1, <2>2, <2>3
<1>8. ASSUME NEW c \in Calls, TakeScript(c) \/ PutBack(c) \/ PutBackFails(c)
      PROVE  OneInHand'
  <2>1. /\ req' = req /\ (req[c].kind = "checkstock" => got'[c] = {})
        /\ \A d \in Calls \ {c} : at'[d] = at[d] /\ got'[d] = got[d]
    BY <1>8 DEF TakeScript, PutBack, PutBackFails, Goto
  <2>. QED BY <2>1
<1>. QED BY <1>1, <1>2, <1>4, <1>5, <1>6, <1>7, <1>8 DEF Next, Step, Fails

\* No step leaves an item without a trace, but a failed deletion or save, which
\* leaves one and is counted.
LEMMA TraceKept ==
    ASSUME TypeOK, EmptyHands, Lonely, OneInHand, [Next]_vars
    PROVE  \/ Untraced' \subseteq Untraced /\ faults' \in {faults, faults + 1}
           \/ faults' = faults + 1 /\ \E i \in Items : Untraced' \subseteq Untraced \cup {i}
<1>. DEFINE Kept == Untraced' \subseteq Untraced
<1>f. faults' \in {faults, faults + 1}
  BY FaultsStep
<1>1. ASSUME UNCHANGED <<req, type, shop, got>> PROVE Kept
  BY <1>1 DEF Untraced, Exclusive
<1>2. CASE UNCHANGED vars \/ Crash
  BY <1>1, <1>2, <1>f DEF vars, call, data, Crash
<1>3. ASSUME NEW c \in Calls, NEW r \in Requests, Ask(c, r) PROVE Kept
  <2>1. got[c] = {} /\ UNCHANGED <<type, shop, got>>
        /\ \A d \in Calls \ {c} : req'[d] = req[d]
    BY <1>3 DEF Ask, data, EmptyHands, TypeOK
  <2>. QED BY <2>1 DEF Untraced, Exclusive
<1>4. ASSUME NEW c \in Calls, Step(c) \/ Fails(c), ~Handling(c) PROVE Kept
  BY <1>1, <1>4, OthersKeepHands
<1>5. ASSUME NEW c \in Calls, FindProduct(c) \/ Recheck(c) PROVE Kept
  <2>1. got[c] = {} /\ UNCHANGED <<req, shop, got>>
        /\ \A d \in Calls \ {c} : type'[d] = type[d]
    BY <1>5 DEF FindProduct, Recheck, data, EmptyHands, TypeOK
  <2>. QED BY <2>1 DEF Untraced, Exclusive
<1>6. ASSUME NEW c \in Calls, Take(c) PROVE Kept
  <2>1. PICK i \in Items : /\ shop' = [shop EXCEPT ![i] = "out"]
                           /\ got' = [got EXCEPT ![c] = @ \cup {i}]
    BY <1>6 DEF Take, InStock
  <2>2. UNCHANGED <<req, type>> /\ Exclusive(c)
    BY <1>6 DEF Take, Exclusive
  <2>. QED BY <2>1, <2>2 DEF Untraced, Exclusive, TypeOK
<1>7. ASSUME NEW c \in Calls, TakeScript(c) PROVE Kept
  <2>1. UNCHANGED <<req, type, shop>> /\ ~Exclusive(c)
        /\ \A d \in Calls \ {c} : got'[d] = got[d]
    BY <1>7 DEF TakeScript, data, Exclusive, TypeOK
  <2>. QED BY <2>1 DEF Untraced, Exclusive
<1>8. ASSUME NEW c \in Calls, PutBack(c) PROVE Kept
  <2>1. req[c].code # "out"
    <3>1. req[c].code \in Codes
      BY DEF TypeOK, Request
    <3>. QED BY <3>1, ShopAssumption
  <2>2. /\ shop' = [i \in Items |-> IF i \in got[c] THEN req[c].code ELSE shop[i]]
        /\ UNCHANGED <<req, type>> /\ \A d \in Calls \ {c} : got'[d] = got[d]
    BY <1>8 DEF PutBack, TypeOK
  <2>. QED BY <2>1, <2>2 DEF Untraced, Exclusive
<1>9. ASSUME NEW c \in Calls, AddStock(c) \/ ChangeStockCode(c) PROVE Kept
  <2>1. req[c].code # "out" /\ req[c].new # "out"
    <3>1. req[c].code \in Codes /\ req[c].new \in Codes
      BY DEF TypeOK, Request
    <3>. QED BY <3>1, ShopAssumption
  <2>2. UNCHANGED <<req, type, got>>
        /\ \A i \in Items : shop'[i] = "out" => shop[i] = "out"
    BY <1>9, <2>1 DEF AddStock, ChangeStockCode, TypeOK
  <2>. QED BY <2>2 DEF Untraced, Exclusive
<1>10. ASSUME NEW c \in Calls, TakeFails(c)
       PROVE  Kept \/ (faults' = faults + 1
                       /\ \E i \in Items : Untraced' \subseteq Untraced \cup {i})
  <2>1. UNCHANGED <<req, type, got>> /\ faults' = faults + 1
    BY <1>10 DEF TakeFails, Fault
  <2>2. CASE shop' = shop
    BY <1>1, <2>1, <2>2
  <2>3. ASSUME NEW i \in Items, shop' = [shop EXCEPT ![i] = "out"]
        PROVE  Untraced' \subseteq Untraced \cup {i}
    BY <2>1, <2>3 DEF Untraced, Exclusive, TypeOK
  <2>. QED BY <1>10, <2>1, <2>2, <2>3 DEF TakeFails, InStock
<1>11. ASSUME NEW c \in Calls, PutBackFails(c)
       PROVE  Kept \/ (faults' = faults + 1
                       /\ \E i \in Items : Untraced' \subseteq Untraced \cup {i})
  <2>1. UNCHANGED <<req, type, shop>> /\ faults' = faults + 1
        /\ \A d \in Calls \ {c} : got'[d] = got[d]
    BY <1>11 DEF PutBackFails, data, Fault, TypeOK
  <2>2. req[c].kind = "checkstock"
    BY <1>11 DEF PutBackFails, Lonely
  <2>3. CASE got[c] = {}
    BY <2>1, <2>3 DEF Untraced, Exclusive
  <2>4. ASSUME NEW i \in Items, got[c] = {i}
        PROVE  Untraced' \subseteq Untraced \cup {i}
    BY <2>1, <2>4 DEF Untraced, Exclusive
  <2>. QED BY <2>1, <2>2, <2>3, <2>4 DEF OneInHand
<1>. QED BY <1>f, <1>2, <1>3, <1>4, <1>5, <1>6, <1>7, <1>8, <1>9, <1>10, <1>11
  DEF Next, Handling

\* The items without a trace are no more than the failures.
LEMMA TracedStep ==
    ASSUME TypeOK, EmptyHands, Lonely, OneInHand, Traced, [Next]_vars
    PROVE  Traced'
<1>1. IsFiniteSet(Untraced) /\ Cardinality(Untraced) \in Nat /\ faults \in Nat
  <2>1. Untraced \subseteq Items
    BY DEF Untraced
  <2>. QED BY <2>1, ShopAssumption, FS_Subset, FS_CardinalityType DEF TypeOK
<1>2. CASE Untraced' \subseteq Untraced /\ faults' \in {faults, faults + 1}
  <2>1. Cardinality(Untraced') <= Cardinality(Untraced) /\ Cardinality(Untraced') \in Nat
    BY <1>1, <1>2, FS_Subset, FS_CardinalityType
  <2>2. Cardinality(Untraced)' = Cardinality(Untraced')
    OBVIOUS
  <2>. QED BY <1>1, <1>2, <2>1, <2>2 DEF Traced
<1>3. ASSUME NEW i \in Items, Untraced' \subseteq Untraced \cup {i}, faults' = faults + 1
      PROVE  Traced'
  <2>1. /\ IsFiniteSet(Untraced \cup {i})
        /\ Cardinality(Untraced \cup {i}) <= Cardinality(Untraced) + 1
        /\ Cardinality(Untraced \cup {i}) \in Nat
    BY <1>1, FS_AddElement, FS_CardinalityType
  <2>2. Cardinality(Untraced') <= Cardinality(Untraced \cup {i})
        /\ Cardinality(Untraced') \in Nat
    BY <1>3, <2>1, FS_Subset, FS_CardinalityType
  <2>. QED BY <1>1, <1>3, <2>1, <2>2 DEF Traced
<1>. QED BY <1>2, <1>3, TraceKept

-----------------------------------------------------------------------------
\* Everything the theorems below need is inductive.
THEOREM Invariance == Spec => []IInv
<1>1. Init => IInv
  BY InitIInv
<1>2. IInv /\ [Next]_vars => IInv'
  <2>. SUFFICES ASSUME IInv, [Next]_vars PROVE IInv' OBVIOUS
  <2>1. TypeOK'
    BY TypeStep DEF IInv
  <2>2. EmptyHands' /\ Lonely'
    BY HandsStep DEF IInv
  <2>3. TurnsLeft'
    BY TurnsStep DEF IInv
  <2>4. NeverSoldTwice'
    BY SoldStep DEF IInv
  <2>5. Traced'
    BY TracedStep DEF IInv
  <2>6. OneInHand'
    BY OneInHandStep DEF IInv
  <2>. QED BY <2>1, <2>2, <2>3, <2>4, <2>5, <2>6 DEF IInv
<1>. QED BY <1>1, <1>2, PTL DEF Spec

\* The collections, the accounts and the calls keep their shape.
THEOREM TypeCorrect == Spec => []TypeOK
<1>. IInv => TypeOK
  BY DEF IInv
<1>. QED BY Invariance, PTL

\* What one call took out of stock no other call has (findOneAndDelete).
THEOREM StockSoldOnce == Spec => []NeverSoldTwice
<1>. IInv => NeverSoldTwice
  BY DEF IInv
<1>. QED BY Invariance, PTL

\* No item leaves the collection without a call to answer for it, but for one
\* for each request that failed.
THEOREM StockTraced == Spec => []Traced
<1>. IInv => Traced
  BY DEF IInv
<1>. QED BY Invariance, PTL

-----------------------------------------------------------------------------
(* Stages: which kind of call can be where, what it holds and has paid.    *)

Handing == {"buy", "send", "checkstock"}

\* A handler passes by the awaits of its own command only.
StageInv ==
    \A c \in Calls :
        /\ at[c] \in {"maintenance", "recheck"} => req[c].kind = "send"
        /\ at[c] \in {"charge", "apology"} => req[c].kind = "buy"
        /\ at[c] = "wallet" => req[c].kind \in Money \cup {"buy"}
        /\ at[c] \in {"price", "number", "deliver", "follow", "testimonial"} =>
               req[c].kind \in {"buy", "send"}
        /\ at[c] \in {"count", "take"} => req[c].kind \in Handing
        /\ at[c] = "list" => req[c].kind \notin Money
        /\ at[c] = "reply" => req[c].kind \in Handing \cup {"addstock"}
        /\ at[c] = "write" => req[c].kind \notin Handing \cup {"addstock"}
        /\ at[c] = "writestock" => req[c].kind \in {"changecode", "addstock"}

\* Only the three loops hold items, /checkstock only from one delete to the
\* save that follows it.
HeldInv ==
    \A c \in Calls : got[c] # {} =>
        \/ req[c].kind \in {"buy", "send"}
        \/ req[c].kind = "checkstock" /\ at[c] \in {"putback", "crashed"}

\* An account is changed by purchases past their charge and by the money
\* commands, which end with it.
PaidInv ==
    \A c \in Calls : paid[c] =>
        \/ /\ req[c].kind = "buy"
           /\ at[c] \in {"reply", "take", "deliver", "follow", "testimonial",
                         "apology"} \cup Final
        \/ req[c].kind \in Money /\ at[c] \in Final

\* A call that will end as done without a further message has sent its file.
SentInv ==
    \A c \in Calls :
        /\ at[c] = "testimonial" => "owner" \in to[c]
        /\ at[c] = "number" /\ req[c].kind = "send" => "owner" \in to[c]

StagesInv == StageInv /\ HeldInv /\ PaidInv

\* Each handler goes through its own awaits in their order.
LEMMA StageStep ==
    ASSUME TypeOK, Lonely, StageInv, [Next]_vars
    PROVE  StageInv'
<1>. USE DEF TypeOK, Lonely, StageInv, Money, Handing, Request, Kinds
<1>1. CASE UNCHANGED vars \/ Crash
  BY <1>1 DEF vars, call, Crash, Running
<1>2. ASSUME NEW c \in Calls, NEW r \in Requests, Ask(c, r) PROVE StageInv'
  BY <1>2, ShopAssumption DEF Ask, Goto
<1>3. ASSUME NEW c \in Calls,
      \/ CheckMaintenance(c) \/ FindProduct(c) \/ FindNoProduct(c)
      \/ CodeTaken(c) \/ FindWallet(c) \/ FindPrice(c)
     PROVE  StageInv'
  BY <1>3 DEF Goto, CheckMaintenance, FindProduct, AfterList, FindNoProduct,
    CodeTaken, FindWallet, FindPrice
<1>4. ASSUME NEW c \in Calls,
      \/ FindNoPrice(c) \/ Refuse(c) \/ Recheck(c) \/ CountStock(c)
     PROVE  StageInv'
  BY <1>4 DEF Goto, FindNoPrice, Refuse, Recheck, CountStock
<1>5. ASSUME NEW c \in Calls,
      \/ NextNumber(c) \/ Charge(c) \/ Reply(c) \/ FindNothing(c)
      \/ Take(c) \/ TakeScript(c) \/ PutBack(c)
     PROVE  StageInv'
  BY <1>5 DEF Goto, NextNumber, Charge, Reply, FindNothing, WhenOut, Take,
    TakeScript, PutBack
<1>6. ASSUME NEW c \in Calls,
      \/ Deliver(c) \/ FollowUp(c) \/ Testimonial(c) \/ Apologise(c)
     PROVE  StageInv'
  BY <1>6 DEF Goto, Deliver, FollowUp, Testimonial, Apologise
<1>7. ASSUME NEW c \in Calls,
      \/ AddProduct(c) \/ RemoveProduct(c) \/ ChangeType(c)
      \/ SetPrice(c) \/ ChangeCode(c) \/ ChangePriceCode(c)
      \/ ChangeStockCode(c) \/ WriteNothing(c) \/ AddStock(c)
      \/ Credit(c) \/ RemoveBalance(c)
     PROVE  StageInv'
  BY <1>7 DEF Goto, AddProduct, RemoveProduct, ChangeType, SetPrice,
    ChangeCode, ChangePriceCode, ChangeStockCode, WriteNothing, AfterWrite,
    AddStock, Credit, RemoveBalance
<1>8. ASSUME NEW c \in Calls,
      \/ ReadFails(c) \/ NumberFails(c) \/ ChargeFails(c) \/ TakeFails(c)
     PROVE  StageInv'
  BY <1>8 DEF Goto, ReadFails, WhenUnread, NumberFails, ChargeFails, TakeFails,
    WhenOut
<1>9. ASSUME NEW c \in Calls,
      \/ PutBackFails(c) \/ WriteFails(c) \/ DiscordFails(c)
     PROVE  StageInv'
  BY <1>9 DEF Goto, PutBackFails, WriteFails, AfterWrite, DiscordFails
<1>. QED BY <1>1, <1>2, <1>3, <1>4, <1>5, <1>6, <1>7, <1>8, <1>9 DEF Next, Step,
  Fails

\* Hands are filled and emptied by the loops of Handing alone.
LEMMA HeldStep ==
    ASSUME TypeOK, EmptyHands, Lonely, StageInv, HeldInv, [Next]_vars
    PROVE  HeldInv'
<1>. USE DEF TypeOK, EmptyHands, Lonely, StageInv, HeldInv, Handing, Money,
  Request, Kinds, Final
<1>1. CASE UNCHANGED vars \/ Crash
  BY <1>1 DEF vars, call, data, books, Crash, Running
<1>2. ASSUME NEW c \in Calls, NEW r \in Requests, Ask(c, r) PROVE HeldInv'
  BY <1>2, ShopAssumption DEF Ask, Goto, data, books
<1>3. ASSUME NEW c \in Calls,
      \/ CheckMaintenance(c) \/ FindProduct(c) \/ FindNoProduct(c)
      \/ CodeTaken(c) \/ FindWallet(c) \/ FindPrice(c)
     PROVE  HeldInv'
  <2>1. CASE CheckMaintenance(c) \/ FindProduct(c)
    BY <2>1 DEF Goto, data, books, CheckMaintenance, FindProduct, AfterList
  <2>2. CASE FindNoProduct(c) \/ CodeTaken(c)
    BY <2>2 DEF Goto, data, books, FindNoProduct, CodeTaken, AfterList
  <2>3. CASE FindWallet(c) \/ FindPrice(c)
    BY <2>3 DEF Goto, data, books, FindWallet, FindPrice
  <2>. QED BY <1>3, <2>1, <2>2, <2>3
<1>4. ASSUME NEW c \in Calls,
      \/ FindNoPrice(c) \/ Refuse(c) \/ Recheck(c) \/ CountStock(c)
     PROVE  HeldInv'
  BY <1>4 DEF Goto, data, books, FindNoPrice, Refuse, Recheck, CountStock
<1>5. ASSUME NEW c \in Calls,
      \/ NextNumber(c) \/ Charge(c) \/ Reply(c) \/ FindNothing(c) \/ Take(c)
      \/ TakeScript(c) \/ PutBack(c)
     PROVE  HeldInv'
  <2>1. CASE NextNumber(c) \/ Charge(c) \/ Reply(c) \/ FindNothing(c)
    <3>1. UNCHANGED <<req, got>> /\ at[c] \notin {"putback", "crashed"}
          /\ \A d \in Calls \ {c} : at'[d] = at[d]
      <4>1. CASE NextNumber(c) \/ Charge(c)
        BY <4>1 DEF Goto, NextNumber, Charge
      <4>2. CASE Reply(c) \/ FindNothing(c)
        BY <4>2 DEF Goto, Reply, FindNothing
      <4>. QED BY <2>1, <4>1, <4>2
    <3>. QED BY <3>1
  <2>2. CASE Take(c)
    BY <2>2 DEF Goto, Take
  <2>3. CASE TakeScript(c) \/ PutBack(c)
    BY <2>3 DEF Goto, data, TakeScript, PutBack
  <2>. QED BY <1>5, <2>1, <2>2, <2>3
<1>6. ASSUME NEW c \in Calls,
      \/ Deliver(c) \/ FollowUp(c) \/ Testimonial(c) \/ Apologise(c)
     PROVE  HeldInv'
  BY <1>6 DEF Goto, data, books, Deliver, FollowUp, Testimonial, Apologise
<1>7. ASSUME NEW c \in Calls,
      \/ AddProduct(c) \/ RemoveProduct(c) \/ ChangeType(c) \/ SetPrice(c)
      \/ ChangeCode(c) \/ ChangePriceCode(c) \/ ChangeStockCode(c)
      \/ WriteNothing(c) \/ AddStock(c) \/ Credit(c) \/ RemoveBalance(c)
     PROVE  HeldInv'
  BY <1>7 DEF Goto, data, books, AddProduct, RemoveProduct, ChangeType,
    SetPrice, ChangeCode, ChangePriceCode, ChangeStockCode, WriteNothing,
    AddStock, Credit, RemoveBalance, AfterWrite
<1>8. ASSUME NEW c \in Calls,
      \/ ReadFails(c) \/ NumberFails(c) \/ ChargeFails(c) \/ TakeFails(c)
     PROVE  HeldInv'
  BY <1>8 DEF Goto, data, books, ReadFails, NumberFails, ChargeFails, TakeFails,
    WhenUnread, WhenOut
<1>9. ASSUME NEW c \in Calls,
      \/ PutBackFails(c) \/ WriteFails(c) \/ DiscordFails(c)
     PROVE  HeldInv'
  BY <1>9 DEF Goto, data, books, PutBackFails, WriteFails, DiscordFails,
    AfterWrite
<1>. QED BY <1>1, <1>2, <1>3, <1>4, <1>5, <1>6, <1>7, <1>8, <1>9 DEF Next, Step,
  Fails

\* Only a purchase at its charge and a money command at its write pay.
LEMMA PaidStep ==
    ASSUME TypeOK, StageInv, PaidInv, [Next]_vars
    PROVE  PaidInv'
<1>. USE DEF TypeOK, StageInv, PaidInv, Handing, Money, Request, Kinds, Final
<1>1. CASE UNCHANGED vars \/ Crash
  BY <1>1 DEF vars, call, data, books, Crash, Running
<1>2. ASSUME NEW c \in Calls, NEW r \in Requests, Ask(c, r) PROVE PaidInv'
  BY <1>2, ShopAssumption DEF Ask, Goto, data, books
<1>3. ASSUME NEW c \in Calls,
      \/ CheckMaintenance(c) \/ FindProduct(c) \/ FindNoProduct(c)
      \/ CodeTaken(c) \/ FindWallet(c) \/ FindPrice(c)
     PROVE  PaidInv'
  <2>1. CASE CheckMaintenance(c) \/ FindProduct(c)
    BY <2>1 DEF Goto, data, books, CheckMaintenance, FindProduct, AfterList
  <2>2. CASE FindNoProduct(c) \/ CodeTaken(c)
    BY <2>2 DEF Goto, data, books, FindNoProduct, CodeTaken, AfterList
  <2>3. CASE FindWallet(c) \/ FindPrice(c)
    BY <2>3 DEF Goto, data, books, FindWallet, FindPrice
  <2>. QED BY <1>3, <2>1, <2>2, <2>3
<1>4. ASSUME NEW c \in Calls,
      \/ FindNoPrice(c) \/ Refuse(c) \/ Recheck(c) \/ CountStock(c)
     PROVE  PaidInv'
  <2>1. CASE FindNoPrice(c) \/ Refuse(c)
    BY <2>1 DEF Goto, data, books, FindNoPrice, Refuse
  <2>2. CASE Recheck(c) \/ CountStock(c)
    BY <2>2 DEF Goto, data, books, Recheck, CountStock
  <2>. QED BY <1>4, <2>1, <2>2
<1>5. ASSUME NEW c \in Calls,
      \/ NextNumber(c) \/ Charge(c) \/ Reply(c) \/ FindNothing(c) \/ Take(c)
      \/ TakeScript(c) \/ PutBack(c)
     PROVE  PaidInv'
  <2>1. CASE NextNumber(c) \/ Charge(c) \/ Reply(c)
    <3>1. CASE NextNumber(c)
      BY <3>1 DEF Goto, data, books, NextNumber
    <3>2. CASE Charge(c)
      BY <3>2 DEF Goto, data, books, Charge, Booked, WhenOut
    <3>3. CASE Reply(c)
      BY <3>3 DEF Goto, data, books, Reply
    <3>. QED BY <2>1, <3>1, <3>2, <3>3
  <2>2. CASE FindNothing(c) \/ Take(c)
    BY <2>2 DEF Goto, data, books, FindNothing, Take, WhenOut
  <2>3. CASE TakeScript(c) \/ PutBack(c)
    BY <2>3 DEF Goto, data, books, TakeScript, PutBack, WhenOut
  <2>. QED BY <1>5, <2>1, <2>2, <2>3
<1>6. ASSUME NEW c \in Calls,
      \/ Deliver(c) \/ FollowUp(c) \/ Testimonial(c) \/ Apologise(c)
     PROVE  PaidInv'
  BY <1>6 DEF Goto, data, books, Deliver, FollowUp, Testimonial, Apologise
<1>7. ASSUME NEW c \in Calls,
      \/ AddProduct(c) \/ RemoveProduct(c) \/ ChangeType(c) \/ SetPrice(c)
      \/ ChangeCode(c) \/ ChangePriceCode(c) \/ ChangeStockCode(c)
      \/ WriteNothing(c) \/ AddStock(c) \/ Credit(c) \/ RemoveBalance(c)
     PROVE  PaidInv'
  <2>1. ASSUME NEW stage, at' = [at EXCEPT ![c] = stage], UNCHANGED <<req, paid>>,
               at[c] \in {"write", "writeprice", "writestock"}
        PROVE  PaidInv'
    BY <2>1
  <2>2. CASE AddProduct(c) \/ RemoveProduct(c) \/ ChangeType(c) \/ SetPrice(c)
    BY <2>1, <2>2, Zenon DEF Goto, data, books, AddProduct, RemoveProduct, ChangeType,
      SetPrice
  <2>3. CASE \/ ChangeCode(c) \/ ChangePriceCode(c) \/ ChangeStockCode(c)
             \/ WriteNothing(c) \/ AddStock(c)
    BY <2>1, <2>3, Zenon DEF Goto, data, books, ChangeCode, ChangePriceCode,
      ChangeStockCode, WriteNothing, AddStock
  <2>4. CASE Credit(c) \/ RemoveBalance(c)
    <3>1. /\ at' = [at EXCEPT ![c] = "done"] /\ paid' = [paid EXCEPT ![c] = TRUE]
          /\ req' = req /\ req[c].kind \in Money
      BY <2>4 DEF Goto, data, books, Credit, RemoveBalance, Booked
    <3>. QED BY <3>1
  <2>. QED BY <1>7, <2>1, <2>2, <2>3, <2>4
<1>8. ASSUME NEW c \in Calls,
      \/ ReadFails(c) \/ NumberFails(c) \/ ChargeFails(c) \/ TakeFails(c)
     PROVE  PaidInv'
  <2>1. CASE ReadFails(c) \/ NumberFails(c) \/ TakeFails(c)
    <3>1. CASE ReadFails(c)
      BY <3>1 DEF Goto, data, books, ReadFails, WhenUnread
    <3>2. CASE NumberFails(c)
      BY <3>2 DEF Goto, data, books, NumberFails
    <3>3. CASE TakeFails(c)
      BY <3>3 DEF Goto, data, books, TakeFails, WhenOut
    <3>. QED BY <2>1, <3>1, <3>2, <3>3
  <2>2. CASE ChargeFails(c)
    <3>1. /\ at' = [at EXCEPT ![c] = "threw"] /\ req' = req
          /\ req[c].kind \in Money \cup {"buy"}
      BY <2>2 DEF Goto, ChargeFails
    <3>2. \A d \in Calls \ {c} : paid'[d] = paid[d]
      BY <2>2, BookedTyped DEF ChargeFails
    <3>. QED BY <3>1, <3>2
  <2>. QED BY <1>8, <2>1, <2>2
<1>9. ASSUME NEW c \in Calls,
      \/ PutBackFails(c) \/ WriteFails(c) \/ DiscordFails(c)
     PROVE  PaidInv'
  BY <1>9 DEF Goto, data, books, PutBackFails, WriteFails, DiscordFails,
    AfterWrite
<1>. QED BY <1>1, <1>2, <1>3, <1>4, <1>5, <1>6, <1>7, <1>8, <1>9 DEF Next, Step,
  Fails

\* The owner's file is sent before the testimonial, and a /send draws its number
\* after it.
LEMMA SentStep ==
    ASSUME TypeOK, StageInv, SentInv, [Next]_vars
    PROVE  SentInv'
<1>. USE DEF TypeOK, StageInv, SentInv, Handing, Money, Request, Kinds, Final
<1>1. CASE UNCHANGED vars \/ Crash
  BY <1>1 DEF vars, call, data, books, Crash, Running
<1>2. ASSUME NEW c \in Calls, NEW r \in Requests, Ask(c, r) PROVE SentInv'
  BY <1>2, ShopAssumption DEF Ask, Goto, data, books
<1>3. ASSUME NEW c \in Calls,
      \/ CheckMaintenance(c) \/ FindProduct(c) \/ FindNoProduct(c)
      \/ CodeTaken(c) \/ FindWallet(c) \/ FindPrice(c)
     PROVE  SentInv'
  BY <1>3 DEF Goto, data, books, CheckMaintenance, FindProduct, FindNoProduct,
    CodeTaken, FindWallet, FindPrice, AfterList
<1>4. ASSUME NEW c \in Calls,
      \/ FindNoPrice(c) \/ Refuse(c) \/ Recheck(c) \/ CountStock(c)
     PROVE  SentInv'
  BY <1>4 DEF Goto, data, books, FindNoPrice, Refuse, Recheck, CountStock
<1>5. ASSUME NEW c \in Calls,
      \/ NextNumber(c) \/ Charge(c) \/ Reply(c) \/ FindNothing(c) \/ Take(c)
      \/ TakeScript(c) \/ PutBack(c)
     PROVE  SentInv'
  BY <1>5 DEF Goto, data, books, NextNumber, Charge, Reply, FindNothing, Take,
    TakeScript, PutBack, WhenOut
<1>6. ASSUME NEW c \in Calls,
      \/ Deliver(c) \/ FollowUp(c) \/ Testimonial(c) \/ Apologise(c)
     PROVE  SentInv'
  BY <1>6 DEF Goto, data, books, Deliver, FollowUp, Testimonial, Apologise
<1>7. ASSUME NEW c \in Calls,
      \/ AddProduct(c) \/ RemoveProduct(c) \/ ChangeType(c) \/ SetPrice(c)
      \/ ChangeCode(c) \/ ChangePriceCode(c) \/ ChangeStockCode(c)
      \/ WriteNothing(c) \/ AddStock(c) \/ Credit(c) \/ RemoveBalance(c)
     PROVE  SentInv'
  BY <1>7 DEF Goto, data, books, AddProduct, RemoveProduct, ChangeType,
    SetPrice, ChangeCode, ChangePriceCode, ChangeStockCode, WriteNothing,
    AddStock, Credit, RemoveBalance, AfterWrite
<1>8. ASSUME NEW c \in Calls,
      \/ ReadFails(c) \/ NumberFails(c) \/ ChargeFails(c) \/ TakeFails(c)
     PROVE  SentInv'
  BY <1>8 DEF Goto, data, books, ReadFails, NumberFails, ChargeFails, TakeFails,
    WhenUnread, WhenOut
<1>9. ASSUME NEW c \in Calls,
      \/ PutBackFails(c) \/ WriteFails(c) \/ DiscordFails(c)
     PROVE  SentInv'
  BY <1>9 DEF Goto, data, books, PutBackFails, WriteFails, DiscordFails,
    AfterWrite
<1>. QED BY <1>1, <1>2, <1>3, <1>4, <1>5, <1>6, <1>7, <1>8, <1>9 DEF Next, Step,
  Fails

\* Without faults no call fails and the process does not die.
LEMMA NoFaultStep ==
    ASSUME TypeOK, [Next]_vars, faults' = 0
    PROVE  /\ faults = 0
           /\ \A c \in Calls : ~Fails(c)
           /\ ~Crash
<1>1. ~Fault
  BY ShopAssumption DEF Fault, TypeOK
<1>2. \A c \in Calls : ~Fails(c)
  BY <1>1 DEF Fails, ReadFails, NumberFails, ChargeFails, TakeFails,
    PutBackFails, WriteFails, DiscordFails
<1>3. ~Crash
  BY <1>1 DEF Crash
<1>. QED BY <1>1, <1>2, <1>3, FaultsStep

\* Whoever paid or holds items ends with a file to the owner.
LEMMA ServedStep ==
    ASSUME TypeOK, EmptyHands, Lonely, StagesInv, SentInv, PaidIsServed,
           [Next]_vars, faults' = 0
    PROVE  PaidIsServed'
<1>0. faults = 0
  BY NoFaultStep
<1>. DEFINE Owed(d) == got[d] # {} \/ (req[d].kind = "buy" /\ paid[d])
            Answered(d) == "owner" \in to[d] \/ (req[d].kind = "send" /\ at[d] = "threw")
<1>1. \A d \in Calls : at[d] \in Final /\ Owed(d) => Answered(d)
  BY <1>0 DEF PaidIsServed
<1>. SUFFICES \A d \in Calls : at'[d] \in Final /\ Owed(d)' => Answered(d)'
  BY DEF PaidIsServed
<1>2. CASE UNCHANGED vars
  BY <1>1, <1>2 DEF vars, call
<1>3. ASSUME NEW c \in Calls, NEW r \in Requests, Ask(c, r),
             NEW d \in Calls, at'[d] \in Final, Owed(d)'
      PROVE  Answered(d)'
  <2>1. d # c
    BY <1>3 DEF Ask, Goto, TypeOK, Final
  <2>. QED BY <1>1, <1>3, <2>1 DEF Ask, Goto, TypeOK
<1>4. ASSUME NEW c \in Calls,
             \/ CheckMaintenance(c) \/ FindProduct(c) \/ FindNoProduct(c)
             \/ CodeTaken(c) \/ FindWallet(c) \/ FindPrice(c)
             \/ FindNoPrice(c) \/ Refuse(c) \/ Recheck(c) \/ CountStock(c),
             NEW d \in Calls, at'[d] \in Final, Owed(d)'
      PROVE  Answered(d)'
  <2>1. /\ at[c] \in {"maintenance", "list", "wallet", "price", "count", "recheck"}
        /\ UNCHANGED <<req, got, paid, to>>
        /\ \A e \in Calls \ {c} : at'[e] = at[e]
    BY <1>4 DEF Goto, TypeOK, CheckMaintenance, FindProduct, FindNoProduct,
      CodeTaken, FindWallet, FindPrice, FindNoPrice, Refuse, Recheck, CountStock
  <2>2. got[c] = {} /\ ~paid[c]
    BY <2>1 DEF EmptyHands, StagesInv, PaidInv, Final
  <2>3. d # c
    BY <1>4, <2>1, <2>2
  <2>. QED BY <1>1, <1>4, <2>1, <2>3
<1>5. ASSUME NEW c \in Calls,
             \/ NextNumber(c) \/ Charge(c) \/ Reply(c) \/ Take(c)
             \/ TakeScript(c) \/ Deliver(c) \/ FollowUp(c),
             NEW d \in Calls, at'[d] \in Final, Owed(d)'
      PROVE  Answered(d)'
  <2>1. d # c
    BY <1>5 DEF Goto, TypeOK, Final, NextNumber, Charge, Reply, Take,
      TakeScript, Deliver, FollowUp
  <2>2. req' = req /\ got'[d] = got[d] /\ to'[d] = to[d] /\ at'[d] = at[d]
    BY <1>5, <2>1 DEF Goto, TypeOK, NextNumber, Charge, Reply, Take,
      TakeScript, Deliver, FollowUp
  <2>3. paid' = paid \/ Booked(c)
    BY <1>5 DEF NextNumber, Charge, Reply, Take, TakeScript, Deliver, FollowUp
  <2>4. paid'[d] = paid[d]
    BY <2>1, <2>3, BookedTyped DEF TypeOK
  <2>. QED BY <1>1, <1>5, <2>2, <2>4
<1>6. ASSUME NEW c \in Calls,
             FindNothing(c) \/ PutBack(c) \/ Testimonial(c) \/ Apologise(c),
             NEW d \in Calls, at'[d] \in Final, Owed(d)'
      PROVE  Answered(d)'
  <2>1. CASE d # c
    BY <1>1, <1>6, <2>1 DEF Goto, TypeOK, FindNothing, PutBack, Testimonial,
      Apologise
  <2>2. CASE d = c /\ FindNothing(c)
    <3>1. at[c] = "take" /\ at'[c] = WhenOut(c) /\ UNCHANGED <<req, got>>
      BY <2>2 DEF FindNothing, Goto, TypeOK
    <3>2. req[c].kind # "buy" /\ at'[c] = "threw"
      BY <1>6, <2>2, <3>1 DEF WhenOut, Final
    <3>3. req[c].kind = "send"
      BY <1>6, <2>2, <3>1, <3>2 DEF StagesInv, HeldInv
    <3>. QED BY <2>2, <3>1, <3>2, <3>3
  <2>3. CASE d = c /\ PutBack(c)
    <3>1. got'[c] = {} /\ req'[c] = req[c] /\ at[c] = "putback"
          /\ paid'[c] = paid[c]
      BY <2>3 DEF PutBack, TypeOK
    <3>2. ~paid[c] \/ req[c].kind # "buy"
      BY <3>1 DEF StagesInv, PaidInv, Final, Money
    <3>. QED BY <1>6, <2>3, <3>1, <3>2
  <2>4. CASE d = c /\ (Testimonial(c) \/ Apologise(c))
    BY <2>4 DEF Testimonial, Apologise, TypeOK, SentInv
  <2>. QED BY <1>6, <2>1, <2>2, <2>3, <2>4
<1>7. ASSUME NEW c \in Calls,
             \/ AddProduct(c) \/ RemoveProduct(c) \/ ChangeType(c)
             \/ SetPrice(c) \/ ChangeCode(c) \/ ChangePriceCode(c)
             \/ ChangeStockCode(c) \/ WriteNothing(c) \/ AddStock(c)
             \/ Credit(c) \/ RemoveBalance(c),
             NEW d \in Calls, at'[d] \in Final, Owed(d)'
      PROVE  Answered(d)'
  <2>1. /\ at[c] \in {"write", "writeprice", "writestock"}
        /\ UNCHANGED <<req, got, to>>
        /\ \A e \in Calls \ {c} : at'[e] = at[e]
        /\ paid' = paid \/ Booked(c)
    BY <1>7 DEF Goto, TypeOK, AddProduct, RemoveProduct, ChangeType, SetPrice,
      ChangeCode, ChangePriceCode, ChangeStockCode, WriteNothing, AddStock,
      Credit, RemoveBalance
  <2>2. req[c].kind \notin Handing
    BY <2>1 DEF Handing, StagesInv, StageInv, Lonely
  <2>3. got[c] = {} /\ req[c].kind # "buy"
    BY <2>2 DEF Handing, StagesInv, HeldInv
  <2>4. d # c
    BY <1>7, <2>1, <2>3
  <2>5. paid'[d] = paid[d]
    BY <2>1, <2>4, BookedTyped DEF TypeOK
  <2>. QED BY <1>1, <1>7, <2>1, <2>4, <2>5
<1>. QED BY <1>2, <1>3, <1>4, <1>5, <1>6, <1>7, NoFaultStep DEF Next, Step

-----------------------------------------------------------------------------
(* Accounts: sums of what calls charged and removed.                       *)

\* A finite set of calls with prices has finitely many coins.
LEMMA CoinsFinite ==
    ASSUME NEW S, IsFiniteSet(S), NEW price, \A c \in S : price[c] \in Nat
    PROVE  IsFiniteSet(Coins(price, S)) /\ Total(price, S) \in Nat
<1>. DEFINE piles == {{c} \X (1 .. price[c]) : c \in S}
            pile == [c \in S |-> {c} \X (1 .. price[c])]
<1>1. pile \in Surjection(S, piles)
  BY DEF Surjection
<1>2. IsFiniteSet(piles)
  BY <1>1, FS_Surjection
<1>3. ASSUME NEW T \in piles PROVE IsFiniteSet(T)
  <2>1. PICK c \in S : T = {c} \X (1 .. price[c])
    OBVIOUS
  <2>2. IsFiniteSet({c})
    BY FS_Singleton
  <2>3. price[c] \in Int /\ 1 \in Int
    OBVIOUS
  <2>4. IsFiniteSet(1 .. price[c])
    BY <2>3, FS_Interval
  <2>. QED BY <2>1, <2>2, <2>4, FS_Product
<1>4. IsFiniteSet(Coins(price, S))
  BY <1>2, <1>3, FS_UNION DEF Coins
<1>. QED BY <1>4, FS_CardinalityType DEF Total

\* One more call adds its price.
LEMMA CoinsAdd ==
    ASSUME NEW S, IsFiniteSet(S), NEW x, x \notin S, NEW price,
           \A c \in S \cup {x} : price[c] \in Nat
    PROVE  Total(price, S \cup {x}) = Total(price, S) + price[x]
<1>. DEFINE pile == {x} \X (1 .. price[x])
            n == price[x]
<1>1. Coins(price, S \cup {x}) = Coins(price, S) \cup pile
  BY DEF Coins
<1>2. Coins(price, S) \cap pile = {}
  BY DEF Coins
<1>3. IsFiniteSet(Coins(price, S)) /\ Total(price, S) \in Nat
  BY CoinsFinite
<1>4. IsFiniteSet(pile) /\ Cardinality(pile) = n
  <2>1. n \in Nat /\ IsFiniteSet({x}) /\ Cardinality({x}) = 1
    BY FS_Singleton
  <2>. HIDE DEF n
  <2>2. IsFiniteSet(1 .. n) /\ Cardinality(1 .. n) = IF 1 > n THEN 0 ELSE n - 1 + 1
    BY <2>1, 1 \in Int, n \in Int, FS_Interval
  <2>3. Cardinality(1 .. n) = n
    BY <2>1, <2>2
  <2>4. IsFiniteSet({x} \X (1 .. n))
        /\ Cardinality({x} \X (1 .. n)) = Cardinality({x}) * Cardinality(1 .. n)
    BY <2>1, <2>2, FS_Product, Zenon
  <2>5. 1 * n = n
    BY <2>1
  <2>. QED BY <2>1, <2>3, <2>4, <2>5, Zenon DEF n
<1>5. Cardinality(Coins(price, S) \cup pile)
        = Cardinality(Coins(price, S)) + Cardinality(pile) - Cardinality({})
  BY <1>2, <1>3, <1>4, FS_Union
<1>6. Cardinality({}) = 0
  BY FS_EmptySet
<1>7. /\ Total(price, S \cup {x}) = Cardinality(Coins(price, S) \cup pile)
      /\ Total(price, S) = Cardinality(Coins(price, S))
  BY <1>1 DEF Total
<1>8. n \in Nat
  OBVIOUS
<1>. HIDE DEF pile
<1>. QED BY <1>3, <1>4, <1>5, <1>6, <1>7, <1>8

\* Only the prices of the calls in the sum matter.
LEMMA CoinsSame ==
    ASSUME NEW S, NEW p, NEW q, \A c \in S : p[c] = q[c]
    PROVE  Total(p, S) = Total(q, S)
<1>1. Coins(p, S) = Coins(q, S)
  BY DEF Coins
<1>. QED BY <1>1 DEF Total

\* The calls that have changed an account; they are finitely many, as every
\* one of them took a step.
PaidCalls == {c \in Calls : paid[c]}

Paying(c) == Charge(c) \/ Credit(c) \/ RemoveBalance(c) \/ (ChargeFails(c) /\ Booked(c))

\* Any other step leaves the accounts alone, and with them what the calls that
\* changed one were asked and charged.
LEMMA AccountsKept ==
    ASSUME TypeOK, PaidInv, [Next]_vars, \A c \in Calls : ~Paying(c)
    PROVE  /\ UNCHANGED <<balance, deposit, paid>>
           /\ \A c \in PaidCalls : req'[c] = req[c] /\ cost'[c] = cost[c]
<1>1. CASE UNCHANGED vars
  BY <1>1 DEF vars, call, books, PaidCalls
<1>2. CASE Crash
  BY <1>2 DEF Crash, books, PaidCalls
<1>3. ASSUME NEW c \in Calls, NEW r \in Requests, Ask(c, r)
      PROVE  /\ UNCHANGED <<balance, deposit, paid>>
             /\ \A d \in PaidCalls : req'[d] = req[d] /\ cost'[d] = cost[d]
  <2>1. c \notin PaidCalls
    BY <1>3 DEF Ask, PaidInv, PaidCalls, Final
  <2>. QED BY <1>3, <2>1 DEF Ask, books, TypeOK, PaidCalls
<1>4. ASSUME NEW c \in Calls, FindPrice(c)
      PROVE  /\ UNCHANGED <<balance, deposit, paid>>
             /\ \A d \in PaidCalls : req'[d] = req[d] /\ cost'[d] = cost[d]
  <2>1. c \notin PaidCalls
    BY <1>4 DEF FindPrice, PaidInv, PaidCalls, Final
  <2>. QED BY <1>4, <2>1 DEF FindPrice, books, TypeOK, PaidCalls
<1>5. ASSUME NEW c \in Calls, Step(c), ~FindPrice(c)
      PROVE  UNCHANGED <<balance, deposit, paid, req, cost>>
  BY <1>5 DEF Paying, Step, books, CheckMaintenance, FindProduct, FindNoProduct,
    CodeTaken, FindWallet, FindNoPrice, CountStock, Refuse, Recheck, NextNumber,
    Reply, Take, TakeScript, FindNothing, PutBack, Deliver, FollowUp,
    Testimonial, Apologise, AddProduct, RemoveProduct, ChangeType, SetPrice,
    ChangeCode, ChangePriceCode, ChangeStockCode, WriteNothing, AddStock
<1>6. ASSUME NEW c \in Calls, Fails(c)
      PROVE  UNCHANGED <<balance, deposit, paid, req, cost>>
  BY <1>6 DEF Paying, Fails, books, ReadFails, NumberFails, ChargeFails, TakeFails,
    PutBackFails, WriteFails, DiscordFails
<1>. QED BY <1>1, <1>2, <1>3, <1>4, <1>5, <1>6 DEF Next, PaidCalls

\* What a step that changes an account does to it.
LEMMA PayingCall ==
    ASSUME TypeOK, StagesInv, NEW c \in Calls, Paying(c)
    PROVE  /\ c \notin PaidCalls /\ PaidCalls' = PaidCalls \cup {c}
           /\ UNCHANGED <<req, cost, wallet>>
           /\ \A u \in Users \ {req[c].user} :
                  balance'[u] = balance[u] /\ deposit'[u] = deposit[u]
           /\ \/ /\ req[c].kind = "buy"
                 /\ balance'[req[c].user] = balance[req[c].user] - cost[c]
                 /\ deposit' = deposit
              \/ /\ req[c].kind = "credit"
                 /\ balance'[req[c].user] = balance[req[c].user] + req[c].n
                 /\ deposit'[req[c].user] = deposit[req[c].user] + req[c].n
              \/ /\ req[c].kind = "removebalance"
                 /\ balance'[req[c].user] = balance[req[c].user] - req[c].n
                 /\ deposit'[req[c].user] = deposit[req[c].user] + req[c].n
<1>1. ~paid[c] /\ req[c].user \in Users
  <2>1. at[c] \in {"charge", "write"}
    BY DEF Paying, Charge, Credit, RemoveBalance, ChargeFails
  <2>. QED BY <2>1 DEF StagesInv, StageInv, PaidInv, Final, TypeOK, Request
<1>2. Booked(c) /\ UNCHANGED <<req, cost, wallet>>
  BY DEF Paying, Charge, Credit, RemoveBalance, ChargeFails
<1>3. c \notin PaidCalls /\ PaidCalls' = PaidCalls \cup {c}
  BY <1>1, <1>2 DEF PaidCalls, TypeOK, Booked
<1>. QED BY <1>1, <1>2, <1>3 DEF Booked, TypeOK

\* The sums over the calls that paid, without their names for kind and buyer.
LEMMA OfPaid ==
    ASSUME NEW kind, NEW u, NEW S \in SUBSET Calls
    PROVE  Of(kind, u, S) = {c \in PaidCalls \cap S : req[c].kind = kind
                                                      /\ req[c].user = u}
BY DEF Of, PaidCalls

\* The numbers in the sums are natural numbers and the sums exist.
LEMMA SumsTyped ==
    ASSUME TypeOK, IsFiniteSet(PaidCalls), NEW u, NEW S \in SUBSET Calls
    PROVE  /\ IsFiniteSet(Of("buy", u, S)) /\ IsFiniteSet(Of("removebalance", u, S))
           /\ Spent(u, S) \in Nat
           /\ Removed(u) \in Nat
<1>1. ASSUME NEW kind, NEW T \in SUBSET Calls PROVE IsFiniteSet(Of(kind, u, T))
  BY FS_Subset DEF Of, PaidCalls
<1>2. \A c \in Calls : cost[c] \in Nat /\ [d \in Calls |-> req[d].n][c] \in Nat
  BY DEF TypeOK, Request
<1>3. Spent(u, S) \in Nat
  BY <1>1, <1>2, CoinsFinite DEF Spent, Of
<1>4. Removed(u) \in Nat
  BY <1>1, <1>2, CoinsFinite DEF Removed, Of
<1>. QED BY <1>1, <1>3, <1>4

\* A step of no paying call changes no sum.
LEMMA SumsKept ==
    ASSUME TypeOK, PaidInv, [Next]_vars, \A c \in Calls : ~Paying(c),
           NEW u, NEW S \in SUBSET Calls
    PROVE  /\ Of("buy", u, S)' = Of("buy", u, S)
           /\ Spent(u, S)' = Spent(u, S)
           /\ Removed(u)' = Removed(u)
<1>1. ASSUME NEW kind, NEW T \in SUBSET Calls PROVE Of(kind, u, T)' = Of(kind, u, T)
  BY AccountsKept DEF Of, PaidCalls
<1>2. Total(cost', Of("buy", u, S)) = Total(cost, Of("buy", u, S))
  BY CoinsSame, AccountsKept DEF Of, PaidCalls
<1>3. Total([d \in Calls |-> req'[d].n], Of("removebalance", u, Calls))
        = Total([d \in Calls |-> req[d].n], Of("removebalance", u, Calls))
  BY CoinsSame, AccountsKept DEF Of, PaidCalls
<1>4. Spent(u, S)' = Total(cost', Of("buy", u, S)')
  BY DEF Spent
<1>5. Removed(u)' = Total([d \in Calls |-> req'[d].n],
                          Of("removebalance", u, Calls)')
  BY DEF Removed
<1>. QED BY <1>1, <1>2, <1>3, <1>4, <1>5 DEF Spent, Removed

\* A paying call adds its cost or its amount to the sums of its buyer.
LEMMA SumsGrow ==
    ASSUME TypeOK, StagesInv, IsFiniteSet(PaidCalls), NEW c \in Calls, Paying(c),
           NEW u, NEW S \in SUBSET Calls
    PROVE  /\ Spent(u, S)' = Spent(u, S) +
                  IF c \in S /\ req[c].kind = "buy" /\ req[c].user = u
                  THEN cost[c] ELSE 0
           /\ Removed(u)' = Removed(u) +
                  IF req[c].kind = "removebalance" /\ req[c].user = u
                  THEN req[c].n ELSE 0
<1>. DEFINE amount == [d \in Calls |-> req[d].n]
<1>1. c \notin PaidCalls /\ PaidCalls' = PaidCalls \cup {c}
      /\ req' = req /\ cost' = cost
  BY PayingCall
<1>2. ASSUME NEW kind, NEW T \in SUBSET Calls
      PROVE  /\ Of(kind, u, T)' =
                    IF c \in T /\ req[c].kind = kind /\ req[c].user = u
                    THEN Of(kind, u, T) \cup {c} ELSE Of(kind, u, T)
             /\ c \notin Of(kind, u, T)
             /\ IsFiniteSet(Of(kind, u, T))
             /\ \A d \in Of(kind, u, T) \cup {c} :
                    cost[d] \in Nat /\ amount[d] \in Nat
  <2>1. Of(kind, u, T)' = {d \in (PaidCalls \cup {c}) \cap T :
                               req[d].kind = kind /\ req[d].user = u}
    BY <1>1 DEF Of, PaidCalls
  <2>2. Of(kind, u, T) = {d \in PaidCalls \cap T :
                               req[d].kind = kind /\ req[d].user = u}
    BY OfPaid
  <2>3. c \notin Of(kind, u, T) /\ IsFiniteSet(Of(kind, u, T))
    BY <1>1, <2>2, FS_Subset
  <2>4. \A d \in Calls : cost[d] \in Nat /\ amount[d] \in Nat
    BY DEF TypeOK, Request
  <2>5. Of(kind, u, T) \subseteq Calls
    BY DEF Of
  <2>6. Of(kind, u, T)' = IF c \in T /\ req[c].kind = kind /\ req[c].user = u
                          THEN Of(kind, u, T) \cup {c} ELSE Of(kind, u, T)
    BY <2>1, <2>2
  <2>. QED BY <2>3, <2>4, <2>5, <2>6
<1>3. Spent(u, S)' = Total(cost, Of("buy", u, S)')
  BY <1>1 DEF Spent
<1>4. Removed(u)' = Total(amount, Of("removebalance", u, Calls)')
  BY <1>1 DEF Removed
<1>5. Spent(u, S)' = Spent(u, S) +
          IF c \in S /\ req[c].kind = "buy" /\ req[c].user = u THEN cost[c] ELSE 0
  <2>1. Spent(u, S) \in Nat
    BY SumsTyped
  <2>2. Total(cost, Of("buy", u, S) \cup {c}) = Total(cost, Of("buy", u, S)) + cost[c]
    BY <1>2, CoinsAdd
  <2>3. Spent(u, S) = Total(cost, Of("buy", u, S))
    BY DEF Spent
  <2>4. Of("buy", u, S)' = IF c \in S /\ req[c].kind = "buy" /\ req[c].user = u
                           THEN Of("buy", u, S) \cup {c} ELSE Of("buy", u, S)
    BY <1>2
  <2>5. CASE c \in S /\ req[c].kind = "buy" /\ req[c].user = u
    BY <1>3, <2>2, <2>3, <2>4, <2>5
  <2>6. CASE ~(c \in S /\ req[c].kind = "buy" /\ req[c].user = u)
    BY <1>3, <2>1, <2>3, <2>4, <2>6
  <2>. QED BY <2>5, <2>6
<1>6. Removed(u)' = Removed(u) +
          IF req[c].kind = "removebalance" /\ req[c].user = u THEN req[c].n ELSE 0
  <2>1. Removed(u) \in Nat /\ amount[c] = req[c].n
    BY SumsTyped
  <2>2. Total(amount, Of("removebalance", u, Calls) \cup {c})
          = Total(amount, Of("removebalance", u, Calls)) + amount[c]
    BY <1>2, CoinsAdd
  <2>3. Removed(u) = Total(amount, Of("removebalance", u, Calls))
    BY DEF Removed
  <2>4. Of("removebalance", u, Calls)' =
            IF req[c].kind = "removebalance" /\ req[c].user = u
            THEN Of("removebalance", u, Calls) \cup {c}
            ELSE Of("removebalance", u, Calls)
    BY <1>2
  <2>. HIDE DEF amount
  <2>5. CASE req[c].kind = "removebalance" /\ req[c].user = u
    BY <1>4, <2>1, <2>2, <2>3, <2>4, <2>5
  <2>6. CASE ~(req[c].kind = "removebalance" /\ req[c].user = u)
    BY <1>4, <2>1, <2>3, <2>4, <2>6
  <2>. QED BY <2>5, <2>6
<1>. QED BY <1>5, <1>6

\* The books stay balanced.
LEMMA BooksStep ==
    ASSUME TypeOK, StagesInv, IsFiniteSet(PaidCalls), BooksBalance, [Next]_vars
    PROVE  BooksBalance' /\ IsFiniteSet(PaidCalls')
<1>1. CASE \A c \in Calls : ~Paying(c)
  <2>1. UNCHANGED <<balance, deposit, paid>>
    BY <1>1, AccountsKept DEF StagesInv
  <2>2. \A u \in Users : Spent(u, Calls)' = Spent(u, Calls) /\ Removed(u)' = Removed(u)
    BY <1>1, SumsKept DEF StagesInv
  <2>3. PaidCalls' = PaidCalls
    BY <2>1 DEF PaidCalls
  <2>. QED BY <2>1, <2>2, <2>3 DEF BooksBalance
<1>2. ASSUME NEW c \in Calls, Paying(c)
      PROVE  BooksBalance' /\ IsFiniteSet(PaidCalls')
  <2>1. IsFiniteSet(PaidCalls')
    BY <1>2, PayingCall, FS_AddElement
  <2>2. ASSUME NEW u \in Users
        PROVE  deposit'[u] - balance'[u] = Spent(u, Calls)' + 2 * Removed(u)'
    <3>1. /\ deposit[u] \in Nat /\ balance[u] \in Int /\ cost[c] \in Nat
          /\ req[c].n \in Nat /\ Spent(u, Calls) \in Nat /\ Removed(u) \in Nat
      BY SumsTyped DEF TypeOK, Request
    <3>2. deposit[u] - balance[u] = Spent(u, Calls) + 2 * Removed(u)
      BY DEF BooksBalance
    <3>3. CASE u # req[c].user
      BY <1>2, <3>1, <3>2, <3>3, PayingCall, SumsGrow
    <3>4. CASE u = req[c].user /\ req[c].kind = "buy"
      BY <1>2, <3>1, <3>2, <3>4, PayingCall, SumsGrow
    <3>5. CASE u = req[c].user /\ req[c].kind = "credit"
      BY <1>2, <3>1, <3>2, <3>5, PayingCall, SumsGrow
    <3>6. CASE u = req[c].user /\ req[c].kind = "removebalance"
      BY <1>2, <3>1, <3>2, <3>6, PayingCall, SumsGrow
    <3>. QED BY <1>2, <3>3, <3>4, <3>5, <3>6, PayingCall
  <2>. QED BY <2>1, <2>2 DEF BooksBalance
<1>. QED BY <1>1, <1>2

\* An account was given at least what was removed from it (/removebalance
\* raises Deposit), and a wallet that a call has read was given, too, and not
\* removed: credits may only have added to it since.
FundInv ==
    /\ \A u \in Users : Removed(u) <= deposit[u]
    /\ \A c \in Calls : at[c] = "idle" => wallet[c] = 0
    /\ \A c \in Calls :
           wallet[c] <= deposit[req[c].user] - Removed(req[c].user)

\* What a purchase charges it could afford when it read the wallet.
AffordInv ==
    \A c \in Calls : req[c].kind = "buy" /\ (at[c] \in {"number", "charge"} \/ paid[c])
                     => cost[c] <= wallet[c]

\* Only FindWallet reads a wallet, only a call not yet made is asked.
LEMMA WalletStep ==
    ASSUME TypeOK, [Next]_vars, NEW d \in Calls
    PROVE  /\ at'[d] = "idle" => at[d] = "idle"
           /\ \/ wallet'[d] = wallet[d] /\ req'[d] = req[d]
              \/ at[d] = "idle" /\ wallet'[d] = wallet[d]
              \/ at'[d] # "idle" /\ req'[d] = req[d]
                 /\ wallet'[d] = balance[req[d].user] /\ deposit' = deposit
                 /\ \A c \in Calls : ~Paying(c)
<1>. USE DEF TypeOK, Goto
<1>1. CASE UNCHANGED vars \/ Crash
  BY <1>1 DEF vars, call, Crash
<1>2. ASSUME NEW c \in Calls, NEW r \in Requests, Ask(c, r)
      PROVE  /\ at'[d] = "idle" => at[d] = "idle"
             /\ wallet'[d] = wallet[d] /\ (req'[d] = req[d] \/ at[d] = "idle")
  BY <1>2 DEF Ask
<1>3. ASSUME NEW c \in Calls, FindWallet(c)
      PROVE  /\ at'[d] = "idle" => at[d] = "idle"
             /\ \/ wallet'[d] = wallet[d] /\ req'[d] = req[d]
                \/ at'[d] # "idle" /\ req'[d] = req[d]
                   /\ wallet'[d] = balance[req[d].user] /\ deposit' = deposit
                   /\ \A e \in Calls : ~Paying(e)
  <2>1. at' = [at EXCEPT ![c] = IF req[c].kind = "buy" THEN "price" ELSE "write"]
        /\ wallet' = [wallet EXCEPT ![c] = balance[req[c].user]]
        /\ UNCHANGED <<paid, req, deposit>>
    BY <1>3 DEF FindWallet, books
  <2>2. \A e \in Calls : ~Paying(e)
    <3>. SUFFICES ASSUME NEW e \in Calls, Paying(e) PROVE FALSE
      OBVIOUS
    <3>1. at[e] \in {"charge", "write"} /\ at'[e] \in {"reply", "done", "threw"}
      BY DEF Paying, Charge, Credit, RemoveBalance, ChargeFails
    <3>2. at[c] = "wallet"
      BY <1>3 DEF FindWallet
    <3>. QED BY <2>1, <3>1, <3>2
  <2>. QED BY <2>1, <2>2
<1>4. ASSUME NEW c \in Calls, Step(c), ~FindWallet(c)
      PROVE  (at'[d] = "idle" => at[d] = "idle") /\ UNCHANGED <<wallet, req>>
  <2>1. CASE \/ CheckMaintenance(c) \/ FindProduct(c) \/ FindNoProduct(c) \/ CodeTaken(c)
             \/ FindPrice(c) \/ FindNoPrice(c) \/ Refuse(c) \/ CountStock(c)
    BY <2>1 DEF AfterList, CheckMaintenance, FindProduct, FindNoProduct, CodeTaken,
      FindPrice, FindNoPrice, Refuse, CountStock
  <2>2. CASE \/ Recheck(c) \/ NextNumber(c) \/ Charge(c) \/ Reply(c) \/ FindNothing(c)
             \/ Take(c) \/ TakeScript(c) \/ PutBack(c)
    BY <2>2 DEF WhenOut, Recheck, NextNumber, Charge, Reply, FindNothing, Take, TakeScript,
      PutBack
  <2>3. CASE \/ Deliver(c) \/ FollowUp(c) \/ Testimonial(c) \/ Apologise(c)
             \/ AddProduct(c) \/ RemoveProduct(c) \/ ChangeType(c) \/ SetPrice(c)
    BY <2>3 DEF AfterWrite, Deliver, FollowUp, Testimonial, Apologise, AddProduct,
      RemoveProduct, ChangeType, SetPrice
  <2>4. CASE \/ ChangeCode(c) \/ ChangePriceCode(c) \/ ChangeStockCode(c)
             \/ WriteNothing(c) \/ AddStock(c) \/ Credit(c) \/ RemoveBalance(c)
    BY <2>4 DEF AfterWrite, ChangeCode, ChangePriceCode, ChangeStockCode, WriteNothing,
      AddStock, Credit, RemoveBalance
  <2>. QED BY <1>4, <2>1, <2>2, <2>3, <2>4 DEF Step
<1>5. ASSUME NEW c \in Calls, Fails(c)
      PROVE  (at'[d] = "idle" => at[d] = "idle") /\ UNCHANGED <<wallet, req>>
  BY <1>5 DEF Fails, WhenUnread, AfterWrite, WhenOut, ReadFails, NumberFails,
    ChargeFails, TakeFails, PutBackFails, WriteFails, DiscordFails
<1>. QED BY <1>1, <1>2, <1>3, <1>4, <1>5 DEF Next

\* The wallets that were read stay funded.
LEMMA FundStep ==
    ASSUME TypeOK, TypeOK', StagesInv, IsFiniteSet(PaidCalls), BooksBalance,
           FundInv, [Next]_vars
    PROVE  FundInv'
<1>. DEFINE Free(u) == deposit[u] - Removed(u)
<1>0. \A u \in Users : /\ deposit[u] \in Nat /\ balance[u] \in Int
                       /\ Removed(u) \in Nat /\ Spent(u, Calls) \in Nat
  BY SumsTyped DEF TypeOK
<1>1. \A u \in Users : balance[u] <= deposit[u] - Removed(u)
  BY <1>0 DEF BooksBalance
<1>2. ASSUME NEW u \in Users
      PROVE  /\ Removed(u)' \in Nat /\ deposit'[u] \in Nat
             /\ Removed(u)' <= deposit'[u]
             /\ deposit[u] - Removed(u) <= deposit'[u] - Removed(u)'
  <2>1. CASE \A c \in Calls : ~Paying(c)
    <3>1. Calls \in SUBSET Calls
      OBVIOUS
    <3>2. Removed(u)' = Removed(u) /\ deposit' = deposit
      BY <2>1, <3>1, AccountsKept, SumsKept DEF StagesInv
    <3>. QED BY <1>0, <3>2 DEF FundInv
  <2>2. ASSUME NEW c \in Calls, Paying(c)
        PROVE  /\ Removed(u)' \in Nat /\ deposit'[u] \in Nat
               /\ Removed(u)' <= deposit'[u]
               /\ deposit[u] - Removed(u) <= deposit'[u] - Removed(u)'
    <3>1. req[c].n \in Nat /\ deposit[u] \in Nat /\ Removed(u) \in Nat
          /\ Removed(u) <= deposit[u]
      BY <1>0 DEF TypeOK, Request, FundInv
    <3>2. Removed(u)' = Removed(u) + IF req[c].kind = "removebalance"
                                        /\ req[c].user = u THEN req[c].n ELSE 0
      <4>1. Calls \in SUBSET Calls
        OBVIOUS
      <4>. QED BY <2>2, <4>1, SumsGrow DEF StagesInv
    <3>3. CASE u # req[c].user
      BY <2>2, <3>1, <3>2, <3>3, PayingCall
    <3>4. CASE u = req[c].user /\ req[c].kind = "buy"
      BY <2>2, <3>1, <3>2, <3>4, PayingCall
    <3>5. CASE u = req[c].user /\ req[c].kind = "credit"
      BY <2>2, <3>1, <3>2, <3>5, PayingCall
    <3>6. CASE u = req[c].user /\ req[c].kind = "removebalance"
      BY <2>2, <3>1, <3>2, <3>6, PayingCall
    <3>. QED BY <2>2, <3>3, <3>4, <3>5, <3>6, PayingCall
  <2>. QED BY <2>1, <2>2
<1>3. ASSUME NEW c \in Calls, at'[c] = "idle" PROVE wallet'[c] = 0
  BY <1>3, WalletStep DEF FundInv
<1>4. ASSUME NEW c \in Calls, NEW u \in Users, u = req'[c].user
      PROVE  wallet'[c] <= deposit'[u] - Removed(u)'
  <2>1. CASE wallet'[c] = wallet[c] /\ req'[c] = req[c]
    <3>1. wallet[c] <= deposit[u] - Removed(u) /\ wallet[c] \in Int
      BY <1>4, <2>1 DEF FundInv, TypeOK
    <3>. QED BY <1>0, <1>2, <2>1, <3>1
  <2>2. CASE at[c] = "idle" /\ wallet'[c] = wallet[c]
    <3>1. wallet'[c] = 0
      BY <2>2 DEF FundInv
    <3>. QED BY <1>2, <3>1
  <2>3. CASE req'[c] = req[c] /\ wallet'[c] = balance[req[c].user]
             /\ deposit' = deposit /\ \A e \in Calls : ~Paying(e)
    <3>1. Removed(u)' = Removed(u)
      <4>1. Calls \in SUBSET Calls
        OBVIOUS
      <4>. QED BY <2>3, <4>1, SumsKept DEF StagesInv
    <3>. QED BY <1>1, <1>4, <2>3, <3>1
  <2>. QED BY <2>1, <2>2, <2>3, WalletStep
<1>5. \A c \in Calls : req'[c].user \in Users
  BY DEF TypeOK, Request
<1>. QED BY <1>2, <1>3, <1>4, <1>5 DEF FundInv

\* The price and the wallet were compared after both were read, and stay as
\* they were.
LEMMA AffordStep ==
    ASSUME TypeOK, StagesInv, AffordInv, [Next]_vars
    PROVE  AffordInv'
<1>. USE DEF TypeOK, StagesInv, StageInv, PaidInv, AffordInv, Handing, Money,
  Request, Kinds, Final
<1>1. CASE UNCHANGED vars \/ Crash
  BY <1>1 DEF vars, call, data, books, Crash, Running
<1>2. ASSUME NEW c \in Calls, NEW r \in Requests, Ask(c, r) PROVE AffordInv'
  BY <1>2, ShopAssumption DEF Ask, Goto, data, books
<1>3. ASSUME NEW c \in Calls,
      \/ CheckMaintenance(c) \/ FindProduct(c) \/ FindNoProduct(c)
      \/ CodeTaken(c) \/ FindWallet(c) \/ FindPrice(c)
     PROVE  AffordInv'
  <2>1. at[c] \in {"maintenance", "list", "wallet", "price"}
    BY <1>3 DEF CheckMaintenance, FindProduct, FindNoProduct, CodeTaken,
      FindWallet, FindPrice
  <2>2. ~paid[c]
    BY <2>1
  <2>3. /\ UNCHANGED <<req, paid>>
        /\ \A d \in Calls \ {c} : at'[d] = at[d] /\ cost'[d] = cost[d]
                                  /\ wallet'[d] = wallet[d]
        /\ at'[c] \notin {"number", "charge"}
    BY <1>3 DEF Goto, books, CheckMaintenance, FindProduct, FindNoProduct,
      CodeTaken, FindWallet, FindPrice, AfterList
  <2>. QED BY <2>2, <2>3
<1>4. ASSUME NEW c \in Calls,
      \/ FindNoPrice(c) \/ Refuse(c) \/ Recheck(c) \/ CountStock(c)
     PROVE  AffordInv'
  BY <1>4 DEF Goto, data, books, FindNoPrice, Refuse, Recheck, CountStock, Accepted,
    MayBuy
<1>a. ASSUME NEW c \in Calls, at[c] \in {"charge", "write"}, UNCHANGED <<req, cost, wallet>>,
             \A d \in Calls \ {c} : at'[d] = at[d] /\ paid'[d] = paid[d]
      PROVE  AffordInv'
  BY <1>a
<1>5. ASSUME NEW c \in Calls,
      \/ NextNumber(c) \/ Charge(c) \/ Reply(c) \/ FindNothing(c) \/ Take(c)
      \/ TakeScript(c) \/ PutBack(c)
     PROVE  AffordInv'
  <2>1. CASE Charge(c)
    <3>1. \A d \in Calls \ {c} : at'[d] = at[d] /\ paid'[d] = paid[d]
      BY <2>1, BookedTyped DEF Charge, Goto
    <3>. QED BY <1>a, <2>1, <3>1 DEF Charge
  <2>2. CASE NextNumber(c) \/ Reply(c)
    BY <2>2 DEF Goto, NextNumber, Reply
  <2>3. CASE FindNothing(c) \/ Take(c) \/ TakeScript(c) \/ PutBack(c)
    BY <2>3 DEF Goto, FindNothing, Take, TakeScript, PutBack, WhenOut
  <2>. QED BY <1>5, <2>1, <2>2, <2>3
<1>6. ASSUME NEW c \in Calls,
      \/ Deliver(c) \/ FollowUp(c) \/ Testimonial(c) \/ Apologise(c)
     PROVE  AffordInv'
  BY <1>6 DEF Goto, data, books, Deliver, FollowUp, Testimonial, Apologise
<1>7. ASSUME NEW c \in Calls,
      \/ AddProduct(c) \/ RemoveProduct(c) \/ ChangeType(c) \/ SetPrice(c)
      \/ ChangeCode(c) \/ ChangePriceCode(c) \/ ChangeStockCode(c)
      \/ WriteNothing(c) \/ AddStock(c)
     PROVE  AffordInv'
  <2>1. UNCHANGED <<req, cost, wallet, paid>>
    BY <1>7, Zenon DEF AddProduct, RemoveProduct, ChangeType, SetPrice, ChangeCode,
      ChangePriceCode, ChangeStockCode, WriteNothing, AddStock
  <2>2. \A d \in Calls : at'[d] \notin {"number", "charge"} \/ at'[d] = at[d]
    BY <1>7 DEF Goto, AddProduct, RemoveProduct, ChangeType, SetPrice, ChangeCode,
      ChangePriceCode, ChangeStockCode, WriteNothing, AddStock, AfterWrite
  <2>. QED BY <2>1, <2>2
<1>8. ASSUME NEW c \in Calls, Credit(c) \/ RemoveBalance(c) PROVE AffordInv'
  <2>1. \A d \in Calls \ {c} : at'[d] = at[d] /\ paid'[d] = paid[d]
    BY <1>8, BookedTyped DEF Credit, RemoveBalance, Goto
  <2>. QED BY <1>8, <1>a, <2>1 DEF Credit, RemoveBalance
<1>9. ASSUME NEW c \in Calls,
      \/ ReadFails(c) \/ NumberFails(c) \/ ChargeFails(c) \/ TakeFails(c)
     PROVE  AffordInv'
  <2>1. CASE ReadFails(c) \/ NumberFails(c) \/ TakeFails(c)
    BY <2>1 DEF Goto, ReadFails, NumberFails, TakeFails, WhenUnread, WhenOut
  <2>2. CASE ChargeFails(c)
    <3>1. \A d \in Calls \ {c} : at'[d] = at[d] /\ paid'[d] = paid[d]
      BY <2>2, BookedTyped DEF ChargeFails, Goto
    <3>. QED BY <1>a, <2>2, <3>1 DEF ChargeFails
  <2>. QED BY <1>9, <2>1, <2>2
<1>10. ASSUME NEW c \in Calls,
      \/ PutBackFails(c) \/ WriteFails(c) \/ DiscordFails(c)
     PROVE  AffordInv'
  BY <1>10 DEF Goto, data, books, PutBackFails, WriteFails, DiscordFails,
    AfterWrite
<1>. QED BY <1>1, <1>2, <1>3, <1>4, <1>5, <1>6, <1>7, <1>8, <1>9, <1>10 DEF Next, Step,
  Fails

\* An account is overdrawn by no more than others took after it was read.
LEMMA Overdraft ==
    ASSUME TypeOK, IsFiniteSet(PaidCalls), BooksBalance, FundInv, AffordInv
    PROVE  OverdraftBounded
<1>. SUFFICES ASSUME NEW u \in Users, NEW c \in Of("buy", u, Calls)
              PROVE  balance[u] + Spent(u, Calls \ {c}) + Removed(u) >= 0
  BY DEF OverdraftBounded
<1>1. c \in Calls /\ paid[c] /\ req[c].kind = "buy" /\ req[c].user = u
  BY DEF Of
<1>2. cost[c] <= deposit[u] - Removed(u)
  <2>1. cost[c] <= wallet[c] /\ wallet[c] <= deposit[u] - Removed(u)
    BY <1>1 DEF AffordInv, FundInv
  <2>2. cost[c] \in Nat /\ wallet[c] \in Int /\ deposit[u] \in Nat /\ Removed(u) \in Nat
    BY <1>1, SumsTyped DEF TypeOK
  <2>. QED BY <2>1, <2>2
<1>3. Spent(u, Calls) = Spent(u, Calls \ {c}) + cost[c]
  <2>1. /\ Of("buy", u, Calls) = Of("buy", u, Calls \ {c}) \cup {c}
        /\ c \notin Of("buy", u, Calls \ {c})
    BY <1>1 DEF Of
  <2>2. IsFiniteSet(Of("buy", u, Calls \ {c}))
    BY SumsTyped
  <2>3. \A d \in Of("buy", u, Calls \ {c}) \cup {c} : cost[d] \in Nat
    BY <1>1 DEF Of, TypeOK
  <2>. QED BY <2>1, <2>2, <2>3, CoinsAdd DEF Spent
<1>4. deposit[u] - balance[u] = Spent(u, Calls) + 2 * Removed(u)
  BY DEF BooksBalance
<1>5. /\ deposit[u] \in Nat /\ balance[u] \in Int /\ cost[c] \in Nat
      /\ Spent(u, Calls) \in Nat /\ Spent(u, Calls \ {c}) \in Nat
      /\ Removed(u) \in Nat
  BY <1>1, SumsTyped DEF TypeOK
<1>. QED BY <1>2, <1>3, <1>4, <1>5

-----------------------------------------------------------------------------
(* Served in full, unless another call interfered.                         *)

\* A call that may still refuse, or has
Early == {"idle", "maintenance", "list", "wallet", "price", "count", "refused"}

\* Another call for the same product has got to the stock.
Interfered(c) ==
    \E d \in Calls \ {c} : /\ Took(d) /\ at[d] \notin Early
                           /\ req[d].code = req[c].code

\* What a purchase holds and has still to take is what it was charged for, and
\* the rest is in stock; past the loop it holds all of it.
Provided(c) ==
    /\ at[c] \in {"number", "charge", "reply", "take"} =>
           /\ Cardinality(got[c]) + left[c] = Turns(req[c].n)
           /\ left[c] <= Cardinality(InStock(req[c].code))
    /\ at[c] \in {"deliver", "follow", "testimonial", "done"} =>
           Cardinality(got[c]) = Turns(req[c].n)
    /\ at[c] # "apology"

PlentyInv ==
    faults = 0 => \A c \in Calls : req[c].kind = "buy" /\ Exclusive(c) =>
                                   Interfered(c) \/ Provided(c)

\* Past its first reads a call keeps what it was asked and never refuses.
LEMMA LateStep ==
    ASSUME TypeOK, [Next]_vars, NEW d \in Calls, at[d] \notin Early
    PROVE  at'[d] \notin Early /\ req'[d] = req[d]
<1>. USE DEF TypeOK, Goto, Early
<1>1. CASE UNCHANGED vars \/ Crash
  BY <1>1 DEF vars, call, Crash
<1>2. ASSUME NEW c \in Calls, NEW r \in Requests, Ask(c, r)
      PROVE  at'[d] \notin Early /\ req'[d] = req[d]
  BY <1>2 DEF Ask
<1>3. ASSUME NEW c \in Calls, Step(c)
      PROVE  at'[d] \notin Early /\ req'[d] = req[d]
  <2>1. CASE \/ CheckMaintenance(c) \/ FindProduct(c) \/ FindNoProduct(c) \/ CodeTaken(c)
             \/ FindWallet(c) \/ FindPrice(c) \/ FindNoPrice(c) \/ Refuse(c) \/ CountStock(c)
    BY <2>1 DEF AfterList, CheckMaintenance, FindProduct, FindNoProduct, CodeTaken,
      FindWallet, FindPrice, FindNoPrice, Refuse, CountStock
  <2>2. CASE \/ Recheck(c) \/ NextNumber(c) \/ Charge(c) \/ Reply(c) \/ FindNothing(c)
             \/ Take(c) \/ TakeScript(c) \/ PutBack(c)
    BY <2>2 DEF WhenOut, Recheck, NextNumber, Charge, Reply, FindNothing, Take, TakeScript,
      PutBack
  <2>3. CASE \/ Deliver(c) \/ FollowUp(c) \/ Testimonial(c) \/ Apologise(c)
             \/ AddProduct(c) \/ RemoveProduct(c) \/ ChangeType(c) \/ SetPrice(c)
    BY <2>3 DEF AfterWrite, Deliver, FollowUp, Testimonial, Apologise, AddProduct,
      RemoveProduct, ChangeType, SetPrice
  <2>4. CASE \/ ChangeCode(c) \/ ChangePriceCode(c) \/ ChangeStockCode(c)
             \/ WriteNothing(c) \/ AddStock(c) \/ Credit(c) \/ RemoveBalance(c)
    BY <2>4 DEF AfterWrite, ChangeCode, ChangePriceCode, ChangeStockCode, WriteNothing,
      AddStock, Credit, RemoveBalance
  <2>. QED BY <1>3, <2>1, <2>2, <2>3, <2>4 DEF Step
<1>4. ASSUME NEW c \in Calls, Fails(c)
      PROVE  at'[d] \notin Early /\ req'[d] = req[d]
  BY <1>4 DEF Fails, WhenUnread, AfterWrite, WhenOut, ReadFails, NumberFails,
    ChargeFails, TakeFails, PutBackFails, WriteFails, DiscordFails
<1>. QED BY <1>1, <1>2, <1>3, <1>4 DEF Next

\* Who interfered has done so for good.
LEMMA InterferedStep ==
    ASSUME TypeOK, [Next]_vars, NEW c \in Calls, req'[c] = req[c], Interfered(c)
    PROVE  Interfered(c)'
<1>1. PICK d \in Calls \ {c} : /\ Took(d) /\ at[d] \notin Early
                               /\ req[d].code = req[c].code
  BY DEF Interfered
<1>2. at'[d] \notin Early /\ req'[d] = req[d]
  BY <1>1, LateStep
<1>. QED BY <1>1, <1>2 DEF Interfered, Took

\* Stock of a product shrinks only by a call that takes it or recodes it.
LEMMA StockStep ==
    ASSUME TypeOK, NeverSoldTwice, Lonely, NEW code \in Codes, NEW c \in Calls, Step(c),
           ~((Take(c) \/ ChangeStockCode(c)) /\ req[c].code = code)
    PROVE  InStock(code) \subseteq InStock(code)'
<1>0. code \notin {"unused", "out"}
  BY ShopAssumption
<1>1. CASE ~Handling(c)
  BY <1>1, OthersKeepHands DEF InStock
<1>2. CASE FindProduct(c) \/ Recheck(c) \/ TakeScript(c) \/ PutBackFails(c)
  BY <1>2 DEF FindProduct, Recheck, TakeScript, PutBackFails, data, InStock
<1>3. CASE PutBack(c)
  <2>1. \A i \in got[c] : shop[i] = "out"
    BY <1>3 DEF PutBack, Lonely, NeverSoldTwice, Exclusive
  <2>. QED BY <1>0, <1>3, <2>1 DEF PutBack, InStock
<1>4. CASE AddStock(c)
  BY <1>0, <1>4 DEF AddStock, InStock, TypeOK
<1>5. CASE Take(c)
  BY <1>5 DEF Take, InStock, TypeOK
<1>6. CASE ChangeStockCode(c)
  BY <1>6 DEF ChangeStockCode, InStock, TypeOK
<1>7. CASE TakeFails(c)
  BY <1>7, StepsCountNone DEF TakeFails, Fault, TypeOK
<1>. QED BY <1>1, <1>2, <1>3, <1>4, <1>5, <1>6, <1>7 DEF Handling

\* A step of one call leaves what the others keep to themselves alone.
LEMMA OthersStep ==
    ASSUME TypeOK, NEW d \in Calls, (\E r \in Requests : Ask(d, r)) \/ Step(d),
           NEW c \in Calls \ {d}
    PROVE  /\ at'[c] = at[c] /\ req'[c] = req[c] /\ type'[c] = type[c]
           /\ left'[c] = left[c] /\ got'[c] = got[c]
<1>. USE DEF TypeOK, Goto
<1>1. CASE \E r \in Requests : Ask(d, r)
  BY <1>1 DEF Ask
<1>2. CASE \/ CheckMaintenance(d) \/ FindProduct(d) \/ FindNoProduct(d)
           \/ CodeTaken(d) \/ FindWallet(d) \/ FindPrice(d)
           \/ FindNoPrice(d) \/ Refuse(d) \/ Recheck(d) \/ CountStock(d)
  BY <1>2 DEF CheckMaintenance, FindProduct, FindNoProduct, CodeTaken, FindWallet,
    FindPrice, FindNoPrice, Refuse, Recheck, CountStock
<1>3. CASE \/ NextNumber(d) \/ Charge(d) \/ Reply(d) \/ FindNothing(d)
           \/ Take(d) \/ TakeScript(d) \/ PutBack(d) \/ Deliver(d)
           \/ FollowUp(d) \/ Testimonial(d) \/ Apologise(d)
  BY <1>3 DEF NextNumber, Charge, Reply, FindNothing, Take, TakeScript, PutBack,
    Deliver, FollowUp, Testimonial, Apologise
<1>4. CASE \/ AddProduct(d) \/ RemoveProduct(d) \/ ChangeType(d)
           \/ SetPrice(d) \/ ChangeCode(d) \/ ChangePriceCode(d)
           \/ ChangeStockCode(d) \/ WriteNothing(d) \/ AddStock(d)
           \/ Credit(d) \/ RemoveBalance(d)
  BY <1>4 DEF AddProduct, RemoveProduct, ChangeType, SetPrice, ChangeCode,
    ChangePriceCode, ChangeStockCode, WriteNothing, AddStock, Credit, RemoveBalance
<1>. QED BY <1>1, <1>2, <1>3, <1>4 DEF Step

\* How many items a call holds and how many are in stock are numbers.
LEMMA HandsCounted ==
    ASSUME TypeOK, NEW c \in Calls, NEW code
    PROVE  /\ IsFiniteSet(got[c]) /\ Cardinality(got[c]) \in Nat
           /\ IsFiniteSet(InStock(code)) /\ Cardinality(InStock(code)) \in Nat
           /\ left[c] \in Nat
<1>1. got[c] \subseteq Items /\ InStock(code) \subseteq Items /\ left[c] \in Nat
  BY DEF TypeOK, InStock
<1>. QED BY <1>1, ShopAssumption, FS_Subset, FS_CardinalityType

\* A turn of the loop moves one item from the stock to the call.
LEMMA TakeOne ==
    ASSUME TypeOK, NeverSoldTwice, NEW c \in Calls, Take(c), req[c].kind = "buy"
    PROVE  /\ Cardinality(got[c])' = Cardinality(got[c]) + 1
           /\ Cardinality(InStock(req[c].code))' = Cardinality(InStock(req[c].code)) - 1
<1>. DEFINE code == req[c].code
<1>1. PICK i \in InStock(code) : /\ shop' = [shop EXCEPT ![i] = "out"]
                                 /\ got' = [got EXCEPT ![c] = @ \cup {i}]
  BY DEF Take
<1>2. code \in Codes /\ code # "out"
  <2>1. code \in Codes
    BY DEF TypeOK, Request
  <2>. QED BY <2>1, ShopAssumption
<1>3. i \notin got[c]
  <2>1. type[c] # "script" /\ shop[i] = code
    BY DEF Take, InStock
  <2>. QED BY <1>2, <2>1 DEF NeverSoldTwice, Exclusive
<1>4. got'[c] = got[c] \cup {i} /\ req' = req
  BY <1>1 DEF TypeOK, Take
<1>5. InStock(code)' = InStock(code) \ {i}
  BY <1>1, <1>2, <1>4 DEF InStock, TypeOK
<1>6. /\ Cardinality(got'[c]) = Cardinality(got[c]) + 1
      /\ Cardinality(InStock(code) \ {i}) = Cardinality(InStock(code)) - 1
  <2>1. IsFiniteSet(got[c]) /\ IsFiniteSet(InStock(code)) /\ i \in InStock(code)
    BY HandsCounted
  <2>2. Cardinality(got[c] \cup {i}) = Cardinality(got[c]) + 1
    BY <1>3, <2>1, FS_AddElement
  <2>3. Cardinality(InStock(code) \ {i}) = Cardinality(InStock(code)) - 1
    BY <2>1, FS_RemoveElement
  <2>. QED BY <1>4, <2>2, <2>3
<1>. QED BY <1>5, <1>6

\* A purchase that nobody interfered with stays provided for.
LEMMA PlentyStep ==
    ASSUME TypeOK, EmptyHands, Lonely, TurnsLeft, NeverSoldTwice, StagesInv,
           PlentyInv, [Next]_vars
    PROVE  PlentyInv'
<1>. SUFFICES ASSUME faults' = 0, NEW c \in Calls, req'[c].kind = "buy", Exclusive(c)',
                     ~Interfered(c)'
              PROVE  Provided(c)'
  BY DEF PlentyInv
<1>0. faults = 0 /\ (\A d \in Calls : ~Fails(d)) /\ ~Crash
  BY NoFaultStep
<1>c. PICK code \in Codes : code = req[c].code
  BY DEF TypeOK, Request
<1>. DEFINE Held == Cardinality(got[c])
            Stock == Cardinality(InStock(code))
<1>n. /\ Held \in Nat /\ Stock \in Nat /\ left[c] \in Nat
      /\ IsFiniteSet(InStock(code)) /\ IsFiniteSet(InStock(code)')
      /\ req[c].n \in Nat \ {0}
  <2>1. req[c] \in Request
    BY DEF TypeOK
  <2>2. IsFiniteSet(InStock(code)')
    <3>1. InStock(code)' \subseteq Items
      BY DEF InStock
    <3>. QED BY <3>1, ShopAssumption, FS_Subset
  <2>. QED BY <2>1, <2>2, HandsCounted DEF Request
<1>1. ASSUME req'[c] = req[c], Exclusive(c)
      PROVE  Provided(c)
  <2>1. ~Interfered(c)
    BY <1>1, InterferedStep
  <2>. QED BY <1>0, <1>1, <2>1 DEF PlentyInv
<1>2. CASE UNCHANGED vars
  <2>1. req'[c] = req[c] /\ Exclusive(c)
    BY <1>2 DEF vars, call, Exclusive
  <2>. QED BY <1>1, <1>2, <2>1 DEF vars, call, data, Provided, InStock
<1>3. ASSUME NEW d \in Calls \ {c}, (\E r \in Requests : Ask(d, r)) \/ Step(d)
      PROVE  Provided(c)'
  <2>1. /\ at'[c] = at[c] /\ req'[c] = req[c] /\ type'[c] = type[c]
        /\ left'[c] = left[c] /\ got'[c] = got[c]
    BY <1>3, OthersStep
  <2>2. Provided(c)
    BY <1>1, <2>1 DEF Exclusive
  <2>3. InStock(code) \subseteq InStock(code)'
    <3>1. CASE \E r \in Requests : Ask(d, r)
      BY <3>1 DEF Ask, data, InStock
    <3>2. CASE Step(d) /\ (Take(d) \/ ChangeStockCode(d)) /\ req[d].code = code
      <4>1. Took(d)' /\ at'[d] \notin Early /\ req'[d] = req[d]
        <5>1. at[d] \in {"take", "writestock"} /\ Took(d)
          BY <3>2 DEF Take, ChangeStockCode, Took, StagesInv, StageInv, Handing
        <5>2. at'[d] \notin Early /\ req'[d] = req[d]
          BY <5>1, LateStep DEF Early
        <5>. QED BY <5>1, <5>2 DEF Took
      <4>. QED BY <1>c, <2>1, <3>2, <4>1 DEF Interfered, Took
    <3>. QED BY <1>3, <1>n, <3>1, <3>2, StockStep
  <2>4. Stock <= Cardinality(InStock(code)') /\ Cardinality(InStock(code)') \in Nat
    BY <1>n, <2>3, FS_Subset, FS_CardinalityType
  <2>5. InStock(req[c].code)' = InStock(code)'
    BY <1>c, <2>1
  <2>. QED BY <1>c, <1>n, <2>1, <2>2, <2>4, <2>5 DEF Provided
<1>4. ASSUME NEW r \in Requests, Ask(c, r) PROVE Provided(c)'
  BY <1>4 DEF Ask, Goto, TypeOK, Provided
<1>5. ASSUME Step(c) PROVE Provided(c)'
  <2>. USE DEF Goto
  <2>0. at[c] \in Steps /\ at \in [Calls -> Steps]
    BY DEF TypeOK
  <2>1. req' = req
    BY <1>5 DEF Step, CheckMaintenance, FindProduct, FindNoProduct, CodeTaken,
      FindWallet, FindPrice, FindNoPrice, CountStock, Refuse, Recheck, NextNumber,
      Charge, Reply, Take, TakeScript, FindNothing, PutBack, Deliver, FollowUp,
      Testimonial, Apologise, AddProduct, RemoveProduct, ChangeType, SetPrice,
      ChangeCode, ChangePriceCode, ChangeStockCode, WriteNothing, AddStock, Credit,
      RemoveBalance
  <2>2. CASE \/ CheckMaintenance(c) \/ FindProduct(c) \/ FindNoProduct(c)
             \/ CodeTaken(c) \/ FindWallet(c) \/ FindPrice(c)
             \/ FindNoPrice(c) \/ Refuse(c) \/ Recheck(c)
    <3>1. at'[c] \in {"list", "refused", "wallet", "price", "count"}
      BY <2>0, <2>1, <2>2 DEF CheckMaintenance, FindProduct, FindNoProduct,
        CodeTaken, FindWallet, FindPrice, FindNoPrice, Refuse, Recheck, AfterList,
        StagesInv, StageInv
    <3>. QED BY <3>1 DEF Provided
  <2>3. CASE CountStock(c)
    <3>1. /\ at'[c] = "number" /\ UNCHANGED <<shop, got, type>>
          /\ left'[c] = Turns(req[c].n) /\ got[c] = {} /\ 2 * Stock >= req[c].n
      BY <1>c, <2>0, <2>1, <2>3 DEF CountStock, Accepted, Enough, TypeOK, EmptyHands, data
    <3>2. Turns(req[c].n) <= Stock /\ Turns(req[c].n) \in Nat
      BY <1>n, <3>1, TurnsPositive DEF Turns
    <3>3. Cardinality(got'[c]) = 0
      BY <3>1, FS_EmptySet
    <3>4. InStock(req[c].code)' = InStock(code)
      BY <1>c, <2>1, <3>1 DEF InStock
    <3>. QED BY <2>1, <3>1, <3>2, <3>3, <3>4 DEF Provided
  <2>4. CASE \/ NextNumber(c) \/ Charge(c) \/ Reply(c) \/ Deliver(c)
             \/ FollowUp(c) \/ Testimonial(c)
    <3>1. /\ UNCHANGED <<shop, got, type, left>>
          /\ \/ at[c] \in {"number", "charge", "reply"}
                /\ at'[c] \in {"charge", "reply", "take"}
             \/ at[c] \in {"deliver", "follow", "testimonial"}
                /\ at'[c] \in {"follow", "testimonial", "done"}
      BY <2>0, <2>1, <2>4 DEF NextNumber, Charge, Reply, Deliver, FollowUp,
        Testimonial, data
    <3>2. Provided(c)
      BY <1>1, <2>1, <3>1 DEF Exclusive
    <3>3. InStock(req[c].code)' = InStock(req[c].code)
      BY <2>1, <3>1 DEF InStock
    <3>. QED BY <2>1, <3>1, <3>2, <3>3 DEF Provided
  <2>5. CASE Take(c)
    <3>1. /\ at[c] = "take" /\ UNCHANGED type /\ left'[c] = left[c] - 1
          /\ at'[c] = IF left[c] = 1 THEN "deliver" ELSE "take"
      BY <2>0, <2>1, <2>5 DEF Take, TypeOK
    <3>2. Provided(c)
      BY <1>1, <2>1, <3>1 DEF Exclusive
    <3>3. /\ Cardinality(got'[c]) = Held + 1
          /\ Cardinality(InStock(code)') = Stock - 1
      <4>1. InStock(req[c].code)' = InStock(code)' /\ req[c].kind = "buy"
        BY <1>c, <2>1
      <4>. QED BY <1>c, <2>5, <4>1, TakeOne
    <3>4. InStock(req[c].code)' = InStock(code)'
      BY <1>c, <2>1
    <3>5. left[c] # 0
      BY <3>1 DEF TurnsLeft, Looping
    <3>6. Turns(req[c].n) \in Nat
      BY <1>n, TurnsPositive
    <3>7. Held + left[c] = Turns(req[c].n) /\ left[c] <= Stock
      BY <1>c, <3>1, <3>2 DEF Provided
    <3>8. /\ Cardinality(got'[c]) + left'[c] = Turns(req[c].n)
          /\ left'[c] <= Cardinality(InStock(code)')
          /\ at'[c] = "deliver" => left'[c] = 0
      BY <1>n, <3>1, <3>3, <3>5, <3>6, <3>7
    <3>9. at'[c] = "deliver" => Cardinality(got'[c]) = Turns(req[c].n)
      BY <1>n, <3>3, <3>6, <3>8
    <3>. QED BY <2>1, <3>1, <3>4, <3>8, <3>9 DEF Provided
  <2>6. CASE TakeScript(c)
    BY <2>1, <2>6 DEF TakeScript, Exclusive
  <2>7. CASE FindNothing(c)
    <3>1. at[c] = "take" /\ InStock(code) = {} /\ UNCHANGED type
      BY <1>c, <2>7 DEF FindNothing
    <3>2. Provided(c)
      BY <1>1, <2>1, <3>1 DEF Exclusive
    <3>3. Stock = 0 /\ left[c] # 0
      BY <3>1, FS_EmptySet DEF TurnsLeft, Looping
    <3>4. left[c] <= Stock
      BY <1>c, <3>1, <3>2 DEF Provided
    <3>. QED BY <1>n, <3>3, <3>4
  <2>8. CASE PutBack(c)
    BY <2>1, <2>8 DEF PutBack, Lonely
  <2>9. CASE Apologise(c)
    <3>1. at[c] = "apology" /\ UNCHANGED type
      BY <2>9 DEF Apologise
    <3>. QED BY <1>1, <2>1, <3>1 DEF Exclusive, Provided
  <2>10. CASE \/ AddProduct(c) \/ RemoveProduct(c) \/ ChangeType(c)
              \/ SetPrice(c) \/ ChangeCode(c) \/ ChangePriceCode(c)
              \/ ChangeStockCode(c) \/ WriteNothing(c) \/ AddStock(c)
              \/ Credit(c) \/ RemoveBalance(c)
    <3>1. at[c] \in {"write", "writeprice", "writestock"}
      BY <2>10 DEF AddProduct, RemoveProduct, ChangeType, SetPrice, ChangeCode,
        ChangePriceCode, ChangeStockCode, WriteNothing, AddStock, Credit,
        RemoveBalance
    <3>. QED BY <2>1, <3>1 DEF StagesInv, StageInv, Handing, Lonely
  <2>. QED BY <1>5, <2>2, <2>3, <2>4, <2>5, <2>6, <2>7, <2>8, <2>9, <2>10 DEF Step
<1>. QED BY <1>0, <1>2, <1>3, <1>4, <1>5 DEF Next

\* Who was served short though nothing failed was interfered with.
LEMMA ShortReason ==
    ASSUME TypeOK, PlentyInv
    PROVE  ShortExplained
<1>. SUFFICES ASSUME NEW c \in Calls, req[c].kind = "buy", Exclusive(c),
                     at[c] = "done", faults = 0,
                     Cardinality(got[c]) < Turns(req[c].n)
              PROVE  \E d \in Calls \ {c} : /\ Took(d) /\ at[d] \notin {"idle", "refused"}
                                            /\ req[d].code = req[c].code
  BY DEF ShortExplained
<1>1. Cardinality(got[c]) \in Nat
  BY HandsCounted
<1>2. ~Provided(c)
  BY <1>1 DEF Provided
<1>3. Interfered(c)
  BY <1>2 DEF PlentyInv
<1>. QED BY <1>3 DEF Interfered, Early

-----------------------------------------------------------------------------
(* The invariant of the accounts and of what purchases get.                *)

ServiceInv ==
    /\ StagesInv /\ SentInv
    /\ IsFiniteSet(PaidCalls) /\ BooksBalance /\ FundInv /\ AffordInv
    /\ PaidIsServed
    /\ PlentyInv

\* Nothing is paid, held or owed before the first interaction.
LEMMA InitServiceInv == Init => ServiceInv
<1>. SUFFICES ASSUME Init PROVE ServiceInv OBVIOUS
<1>1. StagesInv /\ SentInv
  BY DEF Init, StagesInv, StageInv, HeldInv, PaidInv, SentInv
<1>2. PaidCalls = {}
  BY DEF Init, PaidCalls
<1>3. \A u \in Users : Spent(u, Calls) = 0 /\ Removed(u) = 0
  <2>1. \A kind, u : Of(kind, u, Calls) = {}
    BY DEF Init, Of
  <2>2. \A price : Coins(price, {}) = {}
    BY DEF Coins
  <2>. QED BY <2>1, <2>2, FS_EmptySet DEF Spent, Removed, Total
<1>4. BooksBalance
  BY <1>3, ShopAssumption DEF Init, BooksBalance
<1>5. FundInv
  <2>1. \A c \in Calls : req[c].user \in Users
    BY InitIInv DEF IInv, TypeOK, Request
  <2>. QED BY <1>3, <2>1, ShopAssumption DEF Init, FundInv
<1>6. AffordInv /\ PaidIsServed
  BY DEF Init, AffordInv, PaidIsServed, Final
<1>7. PlentyInv
  BY DEF Init, PlentyInv, Provided
<1>. QED BY <1>1, <1>2, <1>4, <1>5, <1>6, <1>7, FS_EmptySet DEF ServiceInv

\* A failure once made stays counted.
LEMMA ServedAlways ==
    ASSUME TypeOK, EmptyHands, Lonely, StagesInv, SentInv, PaidIsServed, [Next]_vars
    PROVE  PaidIsServed'
<1>1. CASE faults' = 0
  BY <1>1, ServedStep
<1>2. CASE faults' # 0
  BY <1>2 DEF PaidIsServed
<1>. QED BY <1>1, <1>2

\* Together with IInv it is inductive.
THEOREM ServiceInvariance == Spec => []ServiceInv
<1>1. Init => ServiceInv
  BY InitServiceInv
<1>2. IInv /\ IInv' /\ ServiceInv /\ [Next]_vars => ServiceInv'
  <2>. SUFFICES ASSUME IInv, IInv', ServiceInv, [Next]_vars PROVE ServiceInv' OBVIOUS
  <2>0. TypeOK /\ EmptyHands /\ Lonely /\ TurnsLeft /\ NeverSoldTwice /\ TypeOK'
    BY DEF IInv
  <2>1. StagesInv'
    BY <2>0, StageStep, HeldStep, PaidStep DEF ServiceInv, StagesInv
  <2>2. SentInv'
    BY <2>0, SentStep DEF ServiceInv, StagesInv
  <2>3. BooksBalance' /\ IsFiniteSet(PaidCalls')
    BY <2>0, BooksStep DEF ServiceInv
  <2>4. FundInv' /\ AffordInv'
    BY <2>0, FundStep, AffordStep DEF ServiceInv
  <2>5. PaidIsServed'
    BY <2>0, ServedAlways DEF ServiceInv
  <2>6. PlentyInv'
    BY <2>0, PlentyStep DEF ServiceInv
  <2>. QED BY <2>1, <2>2, <2>3, <2>4, <2>5, <2>6 DEF ServiceInv
<1>. QED BY <1>1, <1>2, Invariance, PTL DEF Spec

\* Charges and credits that cross are all in the books: $inc loses none.
THEOREM BooksAlwaysBalance == Spec => []BooksBalance
<1>. ServiceInv => BooksBalance
  BY DEF ServiceInv
<1>. QED BY ServiceInvariance, PTL

\* The wallet is compared before the charge: an account falls below zero only
\* by what other purchases and removals took in between.
THEOREM OverdraftIsBounded == Spec => []OverdraftBounded
<1>. IInv /\ ServiceInv => OverdraftBounded
  BY Overdraft DEF IInv, ServiceInv
<1>. QED BY Invariance, ServiceInvariance, PTL

\* Who paid is served, or the owner is told, as long as nothing fails.
THEOREM PaidAlwaysServed == Spec => []PaidIsServed
<1>. ServiceInv => PaidIsServed
  BY DEF ServiceInv
<1>. QED BY ServiceInvariance, PTL

\* Who is served short was interfered with, as long as nothing fails.
THEOREM ShortIsExplained == Spec => []ShortExplained
<1>. IInv /\ ServiceInv => ShortExplained
  BY ShortReason DEF IInv, ServiceInv
<1>. QED BY Invariance, ServiceInvariance, PTL
=============================================================================
