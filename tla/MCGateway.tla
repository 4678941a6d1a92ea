----------------------------- MODULE MCGateway ------------------------------
(***************************************************************************)
(* The metric total_credit_amt with a fourth, L4 dimension, one user with  *)
(* and one without the whitelist, one without organisations; statements    *)
(* that each fail one check, and two that fail none, one of them about     *)
(* customers.                                                              *)
(***************************************************************************)
EXTENDS Gateway

CONSTANTS org_no, org_name, cust_no, secret, nodim, amount, base, o, user_orgs,
          dws, DWS, cust, CUST

TheDims == {org_no, org_name, cust_no, secret}
TheJoins == [d \in TheDims |-> IF d = org_name THEN o ELSE base]
TheLower == [t \in {dws, DWS, cust, CUST} |->
               CASE t = DWS -> dws [] t = CUST -> cust [] OTHER -> t]

Filters == [field : {org_no, org_name, cust_no, secret, nodim}, op : {"eq", "unknown"}, value : {"one"}]
           \cup [field : {cust_no}, op : {"between", "in"}, value : {"one", "pair", "list"}]
Orders == [field : {org_name, secret, cust_no, nodim, amount}, dir : {"asc"}]
          \cup [field : {amount}, dir : {"up"}]

Plain == [dimensions |-> {org_no}, filters |-> {}, order |-> {}, limit |-> 0]
Customers == {[field |-> cust_no, op |-> "eq", value |-> "one"]}
NoField == {[field |-> nodim, op |-> "eq", value |-> "one"]}

ThePlans == [dimensions : {{}, {org_name, cust_no}, {secret}, {nodim}},
             filters : {{}, Customers}, order : {{}}, limit : {0}]
            \cup { [Plain EXCEPT !.filters = f] :
                     f \in { {x} : x \in Filters } \cup {Customers \cup NoField} }
            \cup { [Plain EXCEPT !.order = {x}] : x \in Orders }
            \cup { [Plain EXCEPT !.limit = l] : l \in {1, HardLimit + 1} }

TheContexts == [vars : {{user_orgs}}, whitelist : {{}, {cust_no}}]
               \cup [vars : {{}}, whitelist : {{cust_no}}]

TheTableLists == {{}, {dws}, {dws, CUST}}

Written == [parses |-> TRUE, select |-> TRUE, unqualified |-> {}, tables |-> {dws},
            columns |-> {org_no}, locks |-> FALSE, into |-> FALSE, limit |-> 1]
TheStatements == {Written, [Written EXCEPT !.limit = 0, !.columns = {cust_no}],
                  [Written EXCEPT !.parses = FALSE], [Written EXCEPT !.select = FALSE],
                  [Written EXCEPT !.unqualified = {dws}], [Written EXCEPT !.tables = {dws, CUST}],
                  [Written EXCEPT !.locks = TRUE], [Written EXCEPT !.into = TRUE]}
=============================================================================
