------------------------------ MODULE MCMemPool ------------------------------
(***************************************************************************)
(* Instances of MemPool: two payers and transactions that conflict, answer *)
(* the same oracle request, share priority, or exceed what is left of a    *)
(* balance.                                                                *)
(***************************************************************************)
EXTENDS MemPool

CONSTANTS t1, t2, t3, t4, t5, t6, t7, t8, a, b

Plain(payer, signers, sys, net, fpb, conflicts) ==
    [payer |-> payer, signers |-> signers, sysFee |-> sys, netFee |-> net,
     feePerByte |-> fpb, high |-> FALSE, conflicts |-> conflicts,
     oracle |-> NoOracle]

\* t2 replaces t1 and t3 replaces t2 (by another payer); t4 and t5 answer the
\* same request, t5 is dearer and names t1; t6 has high priority; t7 is signed
\* by t4's payer and replaces t4 and t6, t8 has nothing to do with the others.
Mixed ==
       t1 :> Plain(a, {a}, 1, 2, 2, <<>>)
    @@ t2 :> Plain(a, {a, b}, 2, 3, 1, <<t1>>)
    @@ t3 :> Plain(b, {b}, 0, 4, 2, <<t2>>)
    @@ t4 :> [Plain(b, {b}, 1, 1, 1, <<>>) EXCEPT !.oracle = 1]
    @@ t5 :> [Plain(b, {a, b}, 0, 3, 1, <<t1, t6>>) EXCEPT !.oracle = 1]
    @@ t6 :> [Plain(a, {a}, 2, 1, 1, <<>>) EXCEPT !.high = TRUE]
    @@ t7 :> Plain(a, {a, b}, 1, 3, 2, <<t4, t6>>)
    @@ t8 :> Plain(b, {b}, 1, 1, 2, <<>>)

\* t3 names t2 in two attributes.
Repeating ==
       t1 :> Plain(a, {a}, 1, 2, 1, <<>>)
    @@ t2 :> Plain(a, {a}, 2, 1, 1, <<>>)
    @@ t3 :> Plain(a, {a}, 1, 5, 2, <<t2, t2>>)

\* a can pay for t1 and t2 only when t1 leaves; b for t3 and t4, not for all.
TwoBalances ==
    { (a :> 8) @@ (b :> 6), (a :> 5) @@ (b :> 4) }

\* With the last one a full pool is the only limit.
ThreeBalances == TwoBalances \cup { (a :> 14) @@ (b :> 12) }
=============================================================================
