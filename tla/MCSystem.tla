------------------------------ MODULE MCSystem ------------------------------
(***************************************************************************)
(* An instance of System: three processes are started on a machine with    *)
(* one port and lcores 0 to 2; every assignment of two queues to two       *)
(* workers, and some configurations with isolated queues, with workers     *)
(* without type or port, or that are wrong.                                *)
(***************************************************************************)
EXTENDS System

CONSTANTS p1, p2, p3

MCModules == <<"netif", "flow">>
MCTerms == <<"flow", "netif">>

Worker(cpu, type, rx, tx) ==
    [cpu |-> cpu, type |-> type,
     pqs |-> <<[id |-> 0, rxqs |-> [k \in DOMAIN rx |-> [id |-> rx[k], isol |-> NoLcore]],
                txqs |-> tx]>>]
Isolated(w, c) == [w EXCEPT !.pqs[1].rxqs[1].isol = c]
Elsewhere(w) == [w EXCEPT !.pqs[1].id = nports]      \* on a port that is not found
Portless(cpu) == [cpu |-> cpu, type |-> "slave", pqs |-> << >>]
Master == [cpu |-> 0, type |-> "master", pqs |-> << >>]

Lists == {<<0>>, <<1>>}
Assigned ==
    {<<Worker(2, "slave", rx, tx), Master, Worker(1, "slave", sx, ux)>> :
        rx \in Lists, tx \in Lists, sx \in Lists \cup {<< >>}, ux \in {<<1>>}}
Special ==
    {<<Master, Worker(1, "kni", <<0>>, <<0>>), Worker(2, "slave", <<1>>, <<1>>)>>,
     <<Master, Isolated(Worker(1, "slave", <<0>>, <<0>>), 2), Worker(2, "slave", <<1>>, <<1>>)>>,
     <<Master, Isolated(Worker(1, "slave", <<0, 1>>, <<0, 1>>), 2), Worker(2, "none", << >>, <<2>>)>>,
     <<Master, Isolated(Elsewhere(Worker(1, "slave", <<0>>, <<0>>)), 2)>>,
     <<Master, Elsewhere(Worker(1, "slave", <<0>>, <<0>>))>>,
     <<Worker(0, "slave", <<0>>, <<0>>)>>,
     <<Master, Worker(3, "slave", <<0>>, <<0>>)>>,
     <<Master, Worker(1, "none", <<0>>, <<0>>), Worker(1, "slave", <<1>>, <<1>>)>>,
     <<Master, Worker(1, "slave", <<0>>, <<0>>), Worker(1, "none", <<1>>, <<1>>)>>,
     <<Master, Portless(1), Worker(2, "slave", <<0>>, <<0>>)>>,
     <<Master, Worker(1, "slave", <<0>>, <<0>>), Portless(2),
       Isolated(Worker(3, "slave", <<0>>, <<0>>), 2)>>}
MCConfigs == Assigned \cup Special
=============================================================================
