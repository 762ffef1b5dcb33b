------------------------------ MODULE MCTemplate ------------------------------
(***************************************************************************)
(* Small instances of the template validation for TLC.                     *)
(***************************************************************************)
EXTENDS TemplateValidation

Number(k) == [kind |-> "int", val |-> k]
Percent(k) == [kind |-> "percent", val |-> k]

\* Samples of all nodes, some, too many, none; an invalid one; and no nodes.
SomeSpecs ==
    {[nodes |-> {1, 2, 3}, sample |-> Percent(50)],
     [nodes |-> {2, 3}, sample |-> Number(3)],
     [nodes |-> {2}, sample |-> Number(1)],
     [nodes |-> {1, 2}, sample |-> [kind |-> "nil", val |-> 0]],
     [nodes |-> {1}, sample |-> [kind |-> "invalid", val |-> 0]],
     [nodes |-> {}, sample |-> Percent(100)]}

=============================================================================
