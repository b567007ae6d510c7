----------------------------- MODULE MCEmbedding -----------------------------
(***************************************************************************)
(* Two modules: one that calls what it imports under two names, the other  *)
(* without imports, whose exports the first can be linked to, one of them  *)
(* a function that calls itself.                                           *)
(***************************************************************************)
EXTENDS Embedding

Nullary == [params |-> 0, results |-> 0, crosses |-> TRUE, wraps |-> FALSE]
Wrapping == [Nullary EXCEPT !.wraps = TRUE]
Inside == [Nullary EXCEPT !.crosses = FALSE]

Importer ==
  [imports |-> << [module |-> "env", name |-> "f", kind |-> "func", type |-> Nullary] >>,
   exports |-> [_initialize |-> [kind |-> "func", index |-> 2]],
   funcs |-> << [calls |-> 1, type |-> Nullary] >>, start |-> 2]
Global ==
  [imports |-> << [module |-> "env", name |-> "g", kind |-> "global", type |-> "i32"],
                  [module |-> "wasi", name |-> "exit", kind |-> "func", type |-> Nullary] >>,
   exports |-> [run |-> [kind |-> "func", index |-> 2]],
   funcs |-> << [calls |-> 1, type |-> Wrapping] >>, start |-> 0]
Exporter ==
  [imports |-> <<>>,
   exports |-> [f |-> [kind |-> "func", index |-> 1], g |-> [kind |-> "global", index |-> 1, type |-> "i32"],
                h |-> [kind |-> "func", index |-> 2], m |-> [kind |-> "memory", index |-> 1],
                _initialize |-> [kind |-> "func", index |-> 2]],
   funcs |-> << [calls |-> 0, type |-> Nullary], [calls |-> 2, type |-> Inside] >>, start |-> 0]
MCModules == {Importer, Global, Exporter}
=============================================================================
