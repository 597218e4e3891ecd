---------------------------- MODULE MCCallFrame ----------------------------
(***************************************************************************)
(* Two registers of one kind and one of the other, so that few arguments   *)
(* go on the stack; a small, a large and an over-aligned struct.           *)
(***************************************************************************)
EXTENDS CallFrame

CONSTANTS o1, o2

Int8 == [class |-> "INTEGER", width |-> 8, align |-> 8]
Int1 == [class |-> "INTEGER", width |-> 1, align |-> 1]
Dbl == [class |-> "SSE", width |-> 8, align |-> 8]
S3 == [class |-> "MEMORY", width |-> 3, align |-> 1]
S24 == [class |-> "MEMORY", width |-> 24, align |-> 8]
S32 == [class |-> "MEMORY", width |-> 32, align |-> 16]
Array == [class |-> "ARRAY", width |-> 20, align |-> 4]

MCTypes == {Int8, Int1, Dbl, S3, S24, S32, Array}

F(params, ret, variadic) == [params |-> params, ret |-> ret, variadic |-> variadic]
main == F(<<>>, Int8, FALSE)
spread == F(<<Int8, Dbl, Int8, S3, Dbl, Int8>>, Int8, FALSE)
large == F(<<S24, Int8>>, S24, FALSE)
small == F(<<Int8>>, S3, FALSE)
makes == F(<<Int8>>, S32, FALSE)
takes == F(<<S32>>, Int8, FALSE)
packed == F(<<S3, S3, S3>>, Int8, FALSE)
printf == F(<<Int8>>, Int8, TRUE)
vsmall == F(<<S3, Dbl>>, Int8, TRUE)
vfull == F(<<Int8, Int8>>, Int8, TRUE)
vwide == F(<<S24>>, Int8, TRUE)
vstruct == F(<<Int8>>, S24, TRUE)

MCFunctions ==
  {main, spread, large, small, makes, takes, packed, printf, vsmall, vfull, vwide, vstruct}

C(callee, args) == [callee |-> callee, args |-> args]
MCCalls ==
  {C(f, f.params) : f \in {spread, large, small, makes, takes, packed}} \cup
  {C(printf, <<Int8, Dbl, Int8, S24, Int1, Dbl>>),
   C(vsmall, <<S3, Dbl, Int8, S24, Int8, Int8, Dbl>>),
   C(vfull, <<Int8, Int8, Int8>>),
   C(vwide, <<S24, S3>>),
   C(vstruct, <<Int8, Int8, Dbl>>)}

MCScopes == {{[id |-> o1, type |-> S3], [id |-> o2, type |-> S32]},
             {[id |-> o1, type |-> Int1], [id |-> o2, type |-> Array]}}
=============================================================================
