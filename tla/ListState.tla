----------------------------- MODULE ListState -----------------------------
(***************************************************************************)
(* How the state of a table is written to the URL and read back: the       *)
(* gateways page owns its whole query string, the accounts tab shares one  *)
(* with the tab of the gateway page.                                       *)
(*                                                                         *)
(* A parameter is absent or a text.  Texts stand for the cases the parsers *)
(* tell apart; what Number() and the pattern of decimal digits make of     *)
(* them is given by Value and Decimal.                                     *)
(***************************************************************************)
EXTENDS Integers, FiniteSets

Absent == "absent"

\* Number(text) as the parsers use it: 0 for nothing, -1 for what is no
\* integer.
Value(t) ==
  CASE t \in {Absent, ""} -> 0
    [] t = "1" -> 1    [] t = "2" -> 2     [] t = "02" -> 2
    [] t = "20" -> 20  [] t = "2e1" -> 20  [] t = "50" -> 50
    [] t = "500" -> 500
    [] OTHER -> -1

\* The texts that /^[1-9][0-9]*$/ accepts.
Decimal == {"1", "2", "20", "50", "500"}

\* String(number)
Text(n) == CHOOSE t \in Decimal : Value(t) = n

-----------------------------------------------------------------------------
\* The gateways page.

Sizes == {10, 20, 50, 100}
GatewayDefaults == [page |-> 1, size |-> 20, q |-> "", sort |-> "name",
                    direction |-> "asc"]
GatewaySorts == {"cluster", "name", "status"}

pageFrom(t) == IF t \in Decimal THEN Value(t) ELSE GatewayDefaults.page

sizeFrom(t) ==
  IF t \in Decimal /\ Value(t) \in Sizes THEN Value(t) ELSE GatewayDefaults.size

sortFieldFrom(t) == IF t \in GatewaySorts THEN t ELSE GatewayDefaults.sort

sortDirectionFrom(t) ==
  IF t \in {"asc", "desc"} THEN t ELSE GatewayDefaults.direction

parseGatewayListState(u) ==
  [page |-> pageFrom(u.page), size |-> sizeFrom(u.size),
   q |-> IF u.q = Absent THEN GatewayDefaults.q ELSE u.q,
   sort |-> sortFieldFrom(u.sort), direction |-> sortDirectionFrom(u.direction)]

\* Only what differs from the defaults is written.
serializeGatewayListState(s) ==
  [page |-> IF s.page = GatewayDefaults.page THEN Absent ELSE Text(s.page),
   size |-> IF s.size = GatewayDefaults.size THEN Absent ELSE Text(s.size),
   q |-> IF s.q = "" THEN Absent ELSE s.q,
   sort |-> IF s.sort = GatewayDefaults.sort THEN Absent ELSE s.sort,
   direction |-> IF s.direction = GatewayDefaults.direction THEN Absent
                 ELSE s.direction]

-----------------------------------------------------------------------------
\* The accounts tab.

AccountDefaults == [page |-> 1, size |-> 20, search |-> "",
                    sort |-> "created_at", order |-> "desc", status |-> ""]
AccountSorts == {"created_at", "name"}
AccountStatuses == {"degraded", "ready"}

positiveInteger(t, fallback) == IF Value(t) > 0 THEN Value(t) ELSE fallback

\* An absent status is the empty one.
serviceAccountCollectionState(u) ==
  [page |-> positiveInteger(u.page, AccountDefaults.page),
   size |-> LET n == positiveInteger(u.size, AccountDefaults.size)
            IN IF n > 100 THEN 100 ELSE n,
   search |-> IF u.search = Absent THEN AccountDefaults.search ELSE u.search,
   sort |-> IF u.sort \in AccountSorts THEN u.sort ELSE AccountDefaults.sort,
   order |-> IF u.order = "asc" THEN "asc" ELSE AccountDefaults.order,
   status |-> IF u.status \in AccountStatuses THEN u.status ELSE ""]

\* Mutant: a value that became the default stays in the URL.
setAlways(old, value, default) == IF value = default THEN old ELSE value

setOrDelete(old, value, default) == IF value = default THEN Absent ELSE value

\* The accounts tab changes its own parameters of the previous URL.
writeAccountState(u, s) ==
  [tab |-> u.tab,
   page |-> setOrDelete(u.page, Text(s.page), Text(AccountDefaults.page)),
   size |-> setOrDelete(u.size, Text(s.size), Text(AccountDefaults.size)),
   search |-> setOrDelete(u.search, s.search, AccountDefaults.search),
   sort |-> setOrDelete(u.sort, s.sort, AccountDefaults.sort),
   order |-> setOrDelete(u.order, s.order, AccountDefaults.order),
   status |-> setOrDelete(u.status, s.status, AccountDefaults.status)]

-----------------------------------------------------------------------------
\* Whether the tables with a page and a search are read back from the URL
\* they were written to, whatever their size, sort and direction.
GatewayRoundTrips ==
  [p \in {1, 2, 50} |-> [q \in {"", "text"} |->
     \A size \in {20, 50}, sort \in GatewaySorts, direction \in {"asc", "desc"} :
       LET s == [page |-> p, size |-> size, q |-> q, sort |-> sort,
                 direction |-> direction]
       IN parseGatewayListState(serializeGatewayListState(s)) = s]]

\* The same for the accounts tab, whatever the URL held before; the tab of
\* the gateway page stays in the URL.
AccountRoundTrips ==
  [p \in {1, 2, 50} |-> [q \in {"", "text"} |->
     \A u \in [tab : {Absent, "service-accounts"}, page : {Absent, "2e1", "x"},
               size : {Absent, "500"}, search : {Absent, "text"},
               sort : {Absent, "name"}, order : {Absent, "asc", "x"},
               status : {Absent, "ready", "x"}],
        size \in {20, 50}, sort \in AccountSorts, order \in {"asc", "desc"},
        status \in AccountStatuses \cup {""} :
       LET s == [page |-> p, size |-> size, search |-> q, sort |-> sort,
                 order |-> order, status |-> status]
       IN /\ serviceAccountCollectionState(writeAccountState(u, s)) = s
          /\ writeAccountState(u, s).tab = u.tab]]
=============================================================================
