----------------------------- MODULE MCOrders ------------------------------
(* Orders for TLC: one all-in-one process, as the unit tests run the engine, *)
(* beside a website process whose orders the first one does not hold.       *)
EXTENDS Orders

AllInOne == {"mono"}
Makers == {"mono", "web"}

\* scripts/start.ts: the processes that make orders are not the API process
Website == {"web"}
Api == {"api"}
Socket == {"socket"}

AllDrivers == {"json", "mysql"}
SomeStatuses == {"pending", "completed"}
None == {}
CompletedOnly == {"completed"}
=============================================================================
