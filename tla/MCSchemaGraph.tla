---------------------------- MODULE MCSchemaGraph ----------------------------
(* SchemaGraph on small instances; the callers are interchangeable. *)
EXTENDS SchemaGraph, TLC

CONSTANTS a, b, c, c1, c2

ThreeTables == {a, b, c}
TwoClients == {c1, c2}
CallerSymmetry == Permutations(TwoClients)

Of(ts, es) == [tables |-> ts, fks |-> es]
\* Two tables that refer to each other with a table below them, and the same
\* database after one of the two has been dropped and the other linked to it.
Cyclic == Of({a, b, c}, {<<a, b>>, <<b, a>>, <<b, c>>})
Dropped == Of({a, c}, {<<c, a>>})
SomeSchemas == {Cyclic, Dropped}
=============================================================================
