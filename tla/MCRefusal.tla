------------------------------ MODULE MCRefusal -----------------------------
(***************************************************************************)
(* addOption(name, accept_remote_initial_value): what the second argument  *)
(* promises.  The model is that of ClientSync, with a record of which      *)
(* options the application added with FALSE.                               *)
(***************************************************************************)
EXTENDS MCClientSync

VARIABLE refusing  \* options of this process added with FALSE

RefusalInit == Init /\ refusing = {}

RefusalNext ==
  \/ \E n \in Options : AddOption(n, FALSE) /\ refusing' = refusing \cup {n}
  \/ Restart /\ refusing' = {}
  \/ /\ Next
     /\ \A n \in Options : ~AddOption(n, FALSE)
     /\ ~Restart
     /\ UNCHANGED refusing

RefusalSpec == RefusalInit /\ [][RefusalNext]_<<vars, refusing>>

\* An option added with accept_remote_initial_value = false keeps its initial
\* value until the application or a remote /set changes it.
RefusedValueIsNotAdopted ==
  [][\A n \in refusing :
       HandleMessage /\ Head(toClient).topic = ValueTopic(n) => value'[n] = value[n]
    ]_<<vars, refusing>>
=============================================================================
