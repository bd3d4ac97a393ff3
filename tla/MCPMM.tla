-------------------------------- MODULE MCPMM --------------------------------
(* Small memory maps for PMM. *)
EXTENDS PMM

E(b, e, u) == [base |-> b, end |-> e, usable |-> u]

\* One region; two with a hole between them; one that starts inside a page
\* and one that ends inside a page.
MCMaps == { {E(0, 2, TRUE), E(4, 20, TRUE)},
            {E(4, 12, TRUE), E(12, 16, FALSE), E(16, 22, TRUE)},
            {E(4, 11, TRUE), E(11, 13, FALSE), E(13, 20, TRUE)} }
=============================================================================
