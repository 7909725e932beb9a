------------------------------ MODULE MCOrmLoad ------------------------------
(***************************************************************************)
(* Small databases for OrmLoad: a line, a tree whose keys converge and are *)
(* doubled, and cycles with a key of a table to itself and keys between    *)
(* two tables in both directions.  Every busy table with a status has an   *)
(* array among its numbers.                                                *)
(***************************************************************************)
EXTENDS OrmLoad

T(fks, rows, times, status, key) ==
    [fks |-> fks, rows |-> rows, times |-> times, status |-> status,
     numeric |-> IF rows < 1000 THEN {} ELSE IF status THEN {"number", "array"} ELSE {"number"},
     key |-> key]

MCTables == {"a", "b", "c", "d"}
MCCatalog == <<"c", "a", "d", "b">>
Both == {"created_at", "updated_at"}

MCSchemas ==
    { [a |-> T(<<>>, 100, Both, FALSE, "serial"),
       b |-> T(<<"a">>, 1000, Both, TRUE, "natural"),
       c |-> T(<<"b">>, 1000, {"created_at"}, FALSE, "none"),
       d |-> T(<<"c">>, 20000, Both, FALSE, "serial")],
      [a |-> T(<<>>, 20000, {"other"}, FALSE, "serial"),
       b |-> T(<<"a", "a">>, 1000, {"created_at"}, FALSE, "serial"),
       c |-> T(<<"a">>, 100, Both, TRUE, "composite"),
       d |-> T(<<"b", "c">>, 1000, {}, FALSE, "association")],
      [a |-> T(<<"c">>, 1000, Both, TRUE, "serial"),
       b |-> T(<<"a", "b", "c">>, 100, Both, FALSE, "serial"),
       c |-> T(<<"b">>, 0, {}, FALSE, "serial"),
       d |-> T(<<>>, 1000, {"created_at"}, FALSE, "serial")] }

=============================================================================
