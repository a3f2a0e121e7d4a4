------------------------------- MODULE MemPool -------------------------------
(***************************************************************************)
(* pkg/core/mempool/mem_pool.go: the pool of verified, unconfirmed         *)
(* transactions of a node.  A transaction is known by its hash; Tx gives   *)
(* the fields the pool looks at.  Every operation runs under mp.lock, so   *)
(* each is one action; the events they send are the matter of              *)
(* PoolEvents.tla.                                                         *)
(***************************************************************************)
EXTENDS Integers, SequencesExt

CONSTANTS
    Txs,          \* hashes of transactions
    Tx,           \* Txs -> [payer, signers, sysFee, netFee, feePerByte, high,
                  \*         conflicts (sequence of hashes), oracle]
    NoOracle,     \* the transaction is not an oracle response
    Payers,       \* accounts that pay fees: Signers[payerIndex]
    Balances,     \* functions Payers -> GAS the chain can come to hold
    Policies,     \* values the chain's FeePerByte takes
    Capacity,     \* mp.capacity
    Word          \* modulus of the unsigned fee arithmetic (uint256.Int)

VARIABLES
    pool,         \* verifiedTxes, verifiedMap, fees, conflicts, oracleResp
    feePerByte,   \* mp.feePerByte
    balance,      \* Feer: balances of the payers on the chain
    policy,       \* Feer: FeePerByte of the chain
    panicked      \* a nil transaction was dereferenced

vars == <<pool, feePerByte, balance, policy, panicked>>

Names(t) == ToSet(Tx[t].conflicts)

\* A transaction's hash covers its Conflicts attributes, so two transactions
\* cannot name each other and none can name itself.
ASSUME PoolAssumption ==
    /\ Capacity \in Nat \ {0}
    /\ \A t \in Txs : t \notin Names(t)
    /\ \A t, u \in Txs : t \in Names(u) => u \notin Names(t)

FeeOf(t) == Tx[t].sysFee + Tx[t].netFee

\* item.Compare: positive when a goes before b.
Compare(a, b) ==
    CASE Tx[a].high /\ ~Tx[b].high -> 1
      [] ~Tx[a].high /\ Tx[b].high -> -1
      [] Tx[a].feePerByte # Tx[b].feePerByte -> Tx[a].feePerByte - Tx[b].feePerByte
      [] OTHER -> Tx[a].netFee - Tx[b].netFee

\* map[k] = v and delete(map, k).
Set(map, k, v) == (k :> v) @@ map
Drop(map, k) == [x \in DOMAIN map \ {k} |-> map[x]]

ListAt(map, k) == IF k \in DOMAIN map THEN map[k] ELSE <<>>

SumOf(seq, Weight(_)) == FoldLeft(LAMBDA acc, t : acc + Weight(t), 0, seq)

EmptyMap == [x \in {} |-> 0]

New ==
    [txes |-> <<>>, map |-> {}, fees |-> EmptyMap, conflicts |-> EmptyMap,
     oracle |-> EmptyMap]

Init ==
    /\ pool = New
    /\ feePerByte = 0
    /\ balance \in Balances
    /\ policy \in Policies
    /\ panicked = FALSE

-----------------------------------------------------------------------------
(* Removal.                                                                *)

\* Mutant: the whole list of a named hash goes away.
removeConflictsOfWhole(index, t) ==
    FoldLeft(LAMBDA ix, h : Drop(ix, h), index, Tx[t].conflicts)

\* removeConflictsOf: one occurrence of t goes away per Conflicts attribute.
removeConflictsOf(index, t) ==
    LET forget(ix, h) ==
            IF Len(ListAt(ix, h)) = 1 THEN Drop(ix, h)
            ELSE IF h \in DOMAIN ix THEN Set(ix, h, RemoveFirst(ix[h], t)) ELSE ix
    IN  FoldLeft(forget, index, Tx[t].conflicts)

\* Mutant: the fees of the removed transaction stay on its payer's account.
removeFromMapKeepingFees(p, t) ==
    [p EXCEPT
        !.map = @ \ {t},
        !.conflicts = removeConflictsOf(@, t),
        !.oracle = IF Tx[t].oracle = NoOracle THEN @ ELSE Drop(@, Tx[t].oracle)]

\* removeFromMapWithFeesAndAttrs: everything but verifiedTxes.
removeFromMapWithFeesAndAttrs(p, t) ==
    LET payer == Tx[t].payer
        entry == IF payer \in DOMAIN p.fees THEN p.fees[payer]
                 ELSE [balance |-> 0, feeSum |-> 0]
    IN  [p EXCEPT
            !.map = @ \ {t},
            !.fees = Set(@, payer,
                         [entry EXCEPT !.feeSum = (@ - FeeOf(t)) % Word]),
            !.conflicts = removeConflictsOf(@, t),
            !.oracle = IF Tx[t].oracle = NoOracle THEN @ ELSE Drop(@, Tx[t].oracle)]

removeInternal(p, t) ==
    IF t \in p.map
    THEN removeFromMapWithFeesAndAttrs([p EXCEPT !.txes = RemoveFirst(@, t)], t)
    ELSE p

removeAll(p, seq) == FoldLeft(removeInternal, p, seq)

PoolRemove(t) ==
    /\ ~panicked
    /\ pool' = removeInternal(pool, t)
    /\ UNCHANGED <<feePerByte, balance, policy, panicked>>

-----------------------------------------------------------------------------
(* Addition.                                                               *)

\* checkBalance: the payer can afford the fee on top of feeSum.
checkBalance(fee, entry) ==
    /\ fee <= entry.balance
    /\ (fee + entry.feeSum) % Word <= entry.balance

SenderFee(p, payer) ==
    IF payer \in DOMAIN p.fees THEN p.fees[payer]
    ELSE [balance |-> balance[payer], feeSum |-> 0]

\* checkTxConflicts, steps 1 and 2: pooled transactions that name t, then the
\* pooled ones that t names.
Naming(p, t) == ListAt(p.conflicts, t)
Named(p, t) == SelectSeq(Tx[t].conflicts, LAMBDA h : h \in p.map)

\* Mutant: pooled transactions that name t are overlooked.
conflictsToBeRemovedNamed(p, t) == Named(p, t)

conflictsToBeRemoved(p, t) == Naming(p, t) \o Named(p, t)

SharesSigner(t, u) == Tx[t].signers \cap Tx[u].signers # {}

\* Mutant: the fees of the transactions t names are not added up.
conflictingFeeNaming(p, t) ==
    SumOf(SelectSeq(Naming(p, t), LAMBDA u : Tx[t].payer \in Tx[u].signers),
          LAMBDA u : Tx[u].netFee)

conflictingFee(p, t) ==
    SumOf(SelectSeq(Naming(p, t), LAMBDA u : Tx[t].payer \in Tx[u].signers),
          LAMBDA u : Tx[u].netFee)
    + SumOf(Named(p, t), LAMBDA u : Tx[u].netFee)

\* Mutant: the fees of all the rivals count as released, whoever pays them.
checkTxConflictsAnyPayer(p, t) ==
    LET entry == SenderFee(p, Tx[t].payer)
        gone == SumOf(conflictsToBeRemoved(p, t), FeeOf)
    IN  /\ \A i \in DOMAIN Named(p, t) : SharesSigner(t, Named(p, t)[i])
        /\ conflictingFee(p, t) # 0 => Tx[t].netFee > conflictingFee(p, t)
        /\ checkBalance(FeeOf(t), [entry EXCEPT !.feeSum = (@ - gone) % Word])

\* checkTxConflicts: t may replace what it conflicts with, and its payer can
\* pay for it and for what stays.
checkTxConflicts(p, t) ==
    LET entry == SenderFee(p, Tx[t].payer)
        own == SelectSeq(conflictsToBeRemoved(p, t),
                         LAMBDA u : Tx[u].payer = Tx[t].payer)
    IN  /\ \A i \in DOMAIN Named(p, t) : SharesSigner(t, Named(p, t)[i])
        /\ conflictingFee(p, t) # 0 => Tx[t].netFee > conflictingFee(p, t)
        /\ checkBalance(FeeOf(t),
               [entry EXCEPT !.feeSum = (@ - SumOf(own, FeeOf)) % Word])

HasResponse(p, t) == Tx[t].oracle # NoOracle /\ Tx[t].oracle \in DOMAIN p.oracle

\* The pool once t's rivals are out and its oracle entry is in.
Cleared(p, t) ==
    LET q == IF HasResponse(p, t) THEN removeInternal(p, p.oracle[Tx[t].oracle]) ELSE p
        r == IF Tx[t].oracle = NoOracle THEN q
             ELSE [q EXCEPT !.oracle = Set(@, Tx[t].oracle, t)]
    IN  removeAll(r, conflictsToBeRemoved(p, t))

\* Mutant: the new item is appended.
PositionLast(txes, t) == Len(txes)

\* sort.Search: how many items stay before t.
Position(txes, t) ==
    LET after == {i \in DOMAIN txes : Compare(t, txes[i]) > 0}
    IN  IF after = {} THEN Len(txes) ELSE Min(after) - 1

tryAddSendersFee(p, t) ==
    LET entry == SenderFee(p, Tx[t].payer)
    IN  [p EXCEPT !.fees = Set(@, Tx[t].payer,
            [entry EXCEPT !.feeSum = (@ + FeeOf(t)) % Word])]

IndexConflicts(index, t) ==
    FoldLeft(LAMBDA ix, h : Set(ix, h, Append(ListAt(ix, h), t)),
             index, Tx[t].conflicts)

\* Mutant: the last item of a full pool stays.
InsertedBeyond(p, t) ==
    tryAddSendersFee([p EXCEPT !.txes = InsertAt(@, Position(p.txes, t) + 1, t),
                               !.map = @ \cup {t},
                               !.conflicts = IndexConflicts(@, t)], t)

\* t goes to its place; a full pool loses its last item.
Inserted(p, t) ==
    LET full == Len(p.txes) = Capacity
        unlucky == Last(p.txes)
        q == IF full
             THEN removeFromMapWithFeesAndAttrs([p EXCEPT !.txes = Front(@)], unlucky)
             ELSE p
        r == [q EXCEPT !.txes = InsertAt(@, Position(p.txes, t) + 1, t),
                       !.map = @ \cup {t},
                       !.conflicts = IndexConflicts(@, t)]
    IN  tryAddSendersFee(r, t)

NoRoom(p, t) == Len(p.txes) = Capacity /\ Position(p.txes, t) = Capacity

\* verifyAndPoolTx lets through what pays the chain's fee per byte.
Submitted(t) == ~panicked /\ Tx[t].feePerByte >= policy

Acceptable(t) == Submitted(t) /\ t \notin pool.map /\ checkTxConflicts(pool, t)

\* ErrDup, ErrInsufficientFunds, ErrConflict, ErrConflictsAttribute.
AddRefused(t) ==
    /\ Submitted(t)
    /\ ~Acceptable(t)
    /\ UNCHANGED vars

\* ErrOracleResponse, or the entry of oracleResp leads to no transaction.
AddResponse(t) ==
    /\ Acceptable(t)
    /\ HasResponse(pool, t)
    /\ LET h == pool.oracle[Tx[t].oracle]
       IN  \/ h \in pool.map /\ Tx[h].netFee >= Tx[t].netFee /\ UNCHANGED panicked
           \/ h \notin pool.map /\ panicked' = TRUE
    /\ UNCHANGED <<pool, feePerByte, balance, policy>>

\* ErrOOM or success; both keep what Cleared did.
AddPooled(t) ==
    /\ Acceptable(t)
    /\ HasResponse(pool, t) =>
           LET h == pool.oracle[Tx[t].oracle]
           IN  h \in pool.map /\ Tx[h].netFee < Tx[t].netFee
    /\ LET p == Cleared(pool, t)
       IN  pool' = IF NoRoom(p, t) THEN p ELSE Inserted(p, t)
    /\ UNCHANGED <<feePerByte, balance, policy, panicked>>

Add(t) == AddRefused(t) \/ AddResponse(t) \/ AddPooled(t)

-----------------------------------------------------------------------------
(* A block was accepted: the chain has new balances and maybe a new policy *)
(* and storeBlock calls RemoveStale before it gives its lock up.           *)

\* One turn of the loop of RemoveStale; keep decides on all but the funds.
\* The balance of a payer is read when the loop first meets it.
Restore(p, t, keep, bal) ==
    LET payer == Tx[t].payer
        entry == IF payer \in DOMAIN p.fees THEN p.fees[payer]
                 ELSE [balance |-> bal[payer], feeSum |-> 0]
        paid == [entry EXCEPT !.feeSum = (@ + FeeOf(t)) % Word]
        ok == checkBalance(FeeOf(t), entry)
    IN  IF keep /\ ok
        THEN [p EXCEPT !.txes = Append(@, t),
                       !.fees = Set(@, payer, paid),
                       !.conflicts = IndexConflicts(@, t)]
        ELSE [p EXCEPT !.map = @ \ {t},
                       !.fees = IF keep THEN Set(@, payer, entry) ELSE @,
                       !.oracle = IF Tx[t].oracle = NoOracle THEN @
                                  ELSE Drop(@, Tx[t].oracle)]

checkPolicy(t, policyChanged, fpb) == ~policyChanged \/ Tx[t].feePerByte >= fpb

RemoveStale(relevant, bal, pol) ==
    /\ ~panicked
    /\ balance' = bal
    /\ policy' = pol
    /\ feePerByte' = IF pol > feePerByte THEN pol ELSE feePerByte
    /\ LET changed == pol > feePerByte
           turn(p, t) == Restore(p, t,
               t \in relevant /\ checkPolicy(t, changed, feePerByte'), bal)
       IN  pool' = FoldLeft(turn,
               [pool EXCEPT !.txes = <<>>, !.fees = EmptyMap, !.conflicts = EmptyMap],
               pool.txes)
    /\ UNCHANGED panicked

Next ==
    \/ \E t \in Txs : Add(t) \/ PoolRemove(t)
    \/ \E relevant \in SUBSET pool.map, bal \in Balances, pol \in Policies :
           RemoveStale(relevant, bal, pol)

Spec == Init /\ [][Next]_vars

-----------------------------------------------------------------------------
(* Properties.                                                             *)

\* Shape of the state; verifiedTxes never outgrows the capacity, whatever Add
\* ditches or refuses.
TypeOK ==
    /\ pool.txes \in Seq(Txs)
    /\ Len(pool.txes) <= Capacity
    /\ pool.map \subseteq Txs
    /\ DOMAIN pool.fees \subseteq Payers
    /\ \A a \in DOMAIN pool.fees : pool.fees[a].feeSum \in 0 .. Word - 1
    /\ DOMAIN pool.conflicts \subseteq Txs
    /\ panicked \in BOOLEAN

Count(seq, x) == Len(SelectSeq(seq, LAMBDA y : y = x))

\* The list is in the order sort.Search needs, in Add and in TryGetData, after
\* every removal from its middle.
Ordered ==
    \A i, j \in DOMAIN pool.txes :
        i < j => Compare(pool.txes[i], pool.txes[j]) >= 0

\* The five structures Add, Remove and RemoveStale keep by hand agree: the map
\* and the list hold the same transactions, each once, and the list is sorted;
\* conflicts lists a transaction under a hash once per attribute of a pooled
\* transaction and has no empty list; and a pooled oracle response is the one its
\* id leads to.
IndexesAgree ==
    /\ TypeOK /\ Ordered
    /\ ToSet(pool.txes) = pool.map
    /\ Len(pool.txes) = Cardinality(pool.map)
    /\ \A h \in Txs : ListAt(pool.conflicts, h) = <<>> => h \notin DOMAIN pool.conflicts
    /\ \A h, t \in Txs :
           Count(ListAt(pool.conflicts, h), t) =
               IF t \in pool.map THEN Count(Tx[t].conflicts, h) ELSE 0
    /\ \A t \in pool.map : Tx[t].oracle # NoOracle =>
           HasResponse(pool, t) /\ pool.oracle[Tx[t].oracle] = t

FeesOf(a) ==
    SumOf(SelectSeq(pool.txes, LAMBDA t : Tx[t].payer = a), FeeOf)

\* "Verify checks if the Sender of the tx is able to pay for it (and all the
\* other transactions in the pool)": the fees of everything a payer has in the
\* pool stay within its balance on the chain, through additions, replacements,
\* evictions and blocks that change balances.
FeesCovered == \A a \in Payers : FeesOf(a) <= balance[a]

\* Fees are covered, and the accounting behind it is exact: feeSum is what the
\* pool really holds of a payer and the balance it is compared with is not stale.
FeesExact ==
    FeesCovered /\ \A a \in Payers :
        IF a \in DOMAIN pool.fees
        THEN pool.fees[a] = [balance |-> balance[a], feeSum |-> FeesOf(a)]
        ELSE FeesOf(a) = 0

\* No two pooled transactions conflict, whichever of them came first, so a
\* block can be made of the pool.
NoConflictPooled == \A t, u \in pool.map : t \notin Names(u)

\* An arrival throws a transaction out only as a rival (a conflict in either
\* direction, or a dearer answer to the same oracle request) or as the least
\* prioritized item of a full pool that the arrival outranks; and it pays more
\* network fee than all those it names together.
EvictionJustified ==
    [][\A t \in pool'.map \ pool.map :
          LET gone == pool.map \ pool'.map
              beaten == gone \cap Names(t)
          IN  /\ \A u \in gone :
                    \/ u \in Names(t) \/ t \in Names(u)
                    \/ /\ Tx[t].oracle # NoOracle /\ Tx[u].oracle = Tx[t].oracle
                       /\ Tx[u].netFee < Tx[t].netFee
                    \/ /\ Len(pool.txes) = Capacity
                       /\ u = Last(pool.txes)
                       /\ Compare(t, u) > 0
              /\ MapThenSumSet(LAMBDA u : Tx[u].netFee, beaten) < Tx[t].netFee
                 \/ beaten = {}]_vars

\* "oracleResp contains the ids of oracle responses for the tx in the pool."
OracleIndexExact == \A id \in DOMAIN pool.oracle : pool.oracle[id] \in pool.map

\* "loadPolicy updates feePerByte field and returns whether the policy has been
\* changed": once a block sets a fee per byte, what does not pay it is gone.
PolicyRespected == \A t \in pool.map : Tx[t].feePerByte >= policy
=============================================================================
