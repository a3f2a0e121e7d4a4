------------------------------ MODULE MCNotary ------------------------------
(***************************************************************************)
(* Instances of Notary: two signers of one main transaction that needs     *)
(* both, one of whom brings the script for a contract too (the other       *)
(* brings one that the contract refuses), and a third request whose main   *)
(* transaction is not as it should be (only its fallback counts).          *)
(***************************************************************************)
EXTENDS Notary, TLC

CONSTANTS m1, p1, p2, p3, ka, kb, kc, good, bad

Req(nvb, valid, sig, own, script) ==
    [main |-> m1, nvb |-> nvb, valid |-> valid, scripts |-> <<sig, own, script>>]

TwoSigners ==
    p1 :> Req(3, TRUE, ka, kc, bad) @@ p2 :> Req(2, TRUE, kb, None, good)
    @@ p3 :> Req(1, FALSE, kb, kc, None)
ThreeWitnesses ==
    m1 :> <<[typ |-> "multi", need |-> 2, pubs |-> {ka, kb}],
            [typ |-> "multi", need |-> 1, pubs |-> {kc}],
            [typ |-> "contract", need |-> 0, pubs |-> {good}]>>
=============================================================================
