------------------------------ MODULE MCWarnings ------------------------------
(* The warnings on a small instance: each planning table gives one warning,   *)
(* whose text says which of its contents it was found in; 0 gives none.       *)
EXTENDS WarningsClient

MCEngine == [c \in Contents |-> {[id |-> t, text |-> c[t]] : t \in {u \in Tables : c[u] # 0}}]
MCWarningSet == [id : Tables, text : Versions \ {0}]

(* One content makes the engine list an id twice.                             *)
MCClashes == {[t \in Tables |-> 1]}
===============================================================================
