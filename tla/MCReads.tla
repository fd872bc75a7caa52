------------------------------- MODULE MCReads -------------------------------
(* Instances of Reads small enough to enumerate.                            *)
EXTENDS Reads

\* Three modules, more than fill a batch, and four tables: one a sample reads
\* whole, one larger, one larger still, one nothing may be read from.
Seven == <<"table", "module", "table", "module", "table", "module", "table">>
RowsOf == <<9, 0, 2, 0, 4, 0, 1>>
ColumnsOf == [t \in {1, 3, 5, 7} |-> IF t = 7 THEN {"email", "photo"} ELSE {"id", "email"}]

Well   == [free |-> 2, low |-> FALSE, pressed |-> FALSE, waiting |-> 5]
Tight  == [Well EXCEPT !.free = 1]
Low    == [Well EXCEPT !.low = TRUE]
Pressed == [Well EXCEPT !.pressed = TRUE]
Queued == [Well EXCEPT !.waiting = 6]
SomeLoads == {Well, Tight, Low, Pressed, Queued}
SomeLimits == {-1, 0, 2}
SomeStale == {{}, {1, 2}, {2, 4, 6}}
SomeChanged == {{}, {1, 2, 7}, {1, 3, 5, 7}}
=============================================================================
