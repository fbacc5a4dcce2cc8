--------------------------- MODULE MCFourPrograms ---------------------------
(* A small instance of FourPrograms: the client's two wallets and somebody
   else's.  An associated token address is the triple of its seeds. *)
EXTENDS FourPrograms

CONSTANT Eve

MCWallets == {Payer, Recipient, Eve}
MCNewKeys == {blank, splMint, mint22}
MCOthers  == {Eve}
MCAta == [w \in MCWallets |-> [m \in MCNewKeys |-> [p \in TokenPrograms |-> <<w, m, p>>]]]
=============================================================================
