----------------------------- MODULE MCSplToken -----------------------------
(* A small instance of SplTokenClient: the client's two wallets and two
   others'.  An associated token address is the triple of its seeds. *)
EXTENDS SplTokenClient

CONSTANTS Carol, Dave

MCWallets == {Alice, Bob, Carol, Dave}
MCNewKeys == {mint}
MCOthers  == {Carol, Dave}
MCAta == [w \in MCWallets |-> [m \in MCNewKeys |-> [p \in TokenPrograms |-> <<w, m, p>>]]]
=============================================================================
