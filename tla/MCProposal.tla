------------------------------ MODULE MCProposal ------------------------------
EXTENDS Proposal

CONSTANTS orders, ghost, Malformed, city, status, custom

\* No two sets of columns share a name here.
MCDefaultName == [columns \in SUBSET Column |-> columns]

\* orders has one column, ghost does not exist.
MCSchemas == {[t \in Table |-> IF t = orders THEN {city} ELSE {}]}

\* Of a real column, of an invented one with a name of its own, of an invented
\* table, of a name the regex refuses, of none.
MCChange ==
    LET Makes(kind, table, columns, index) ==
          [kind |-> kind, table |-> table, columns |-> columns, index |-> index]
    IN  {Makes("create_index", orders, {city}, NoName),
         Makes("create_index", orders, {status}, custom),
         Makes("create_index", ghost, {city}, NoName),
         Makes("analyze_table", orders, {}, NoName),
         Makes("analyze_table", Malformed, {city}, NoName),
         Makes("analyze_table", NoTable, {city}, NoName)}
===============================================================================
