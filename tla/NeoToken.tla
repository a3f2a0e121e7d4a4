------------------------------ MODULE NeoToken ------------------------------
(***************************************************************************)
(* The native NEO contract (pkg/core/native/native_neo.go over             *)
(* native_nep17.go): balances, votes for candidates, the election of the   *)
(* committee once per epoch and the GAS that holders and voters are due.   *)
(* What it keeps in the storage is also kept in a cache (NeoCache) that is *)
(* built again by InitializeCache when the node restarts.                  *)
(*                                                                         *)
(* A block is StartBlock (OnPersist), any calls of the contract's methods, *)
(* and EndBlock (PostPersist).  A call that faults changes neither storage *)
(* nor cache (both are layers of the DAO that are dropped) and is no step  *)
(* here.  Rewards of holders are counted before their last division by     *)
(* 100 * NEOTotalSupply; GAS balances are not modelled, only what is       *)
(* minted for each account.                                                *)
(***************************************************************************)
EXTENDS Integers, Sequences, FiniteSets, FiniteSetsExt

CONSTANTS
    Accounts,           \* script hashes of holders
    Owner,              \* the account all NEO is minted to at genesis
    Keys,               \* public keys, positive naturals; 0 is no key
    Applicants,         \* the ones that become candidates
    standbyKeys,        \* the standby committee, a sequence of keys
    validatorsCount,    \* GetNumOfCNs
    NEOTotalSupply,
    GasPerBlock,        \* values of GASPerBlock; the least one is the first
    voterRewardFactor,
    MaxHeight,          \* bound on the height of the chain
    MaxRestarts,        \* bound on restarts of the node
    MaxCalls            \* bound on calls of the methods

committeeSize == Len(standbyKeys)

ASSUME NeoTokenAssumption ==
    /\ IsFiniteSet(Accounts) /\ Owner \in Accounts
    /\ IsFiniteSet(Keys) /\ Keys \subseteq Nat \ {0}
    /\ standbyKeys \in Seq(Keys) /\ Applicants \subseteq Keys
    /\ validatorsCount \in 1 .. committeeSize
    /\ {NEOTotalSupply, voterRewardFactor} \subseteq Nat \ {0}
    /\ GasPerBlock \subseteq Nat /\ GasPerBlock # {}
    /\ {MaxHeight, MaxRestarts, MaxCalls} \subseteq Nat

VARIABLES
    height,      \* the last block
    block,       \* the block being persisted, or 0
    acc,         \* acc[a]: state.NEOBalance, or NoAccount
    candidates,  \* candidates[k]: candidate, or NoCandidate
    votersCount, \* prefixVotersCount
    gasPerVote,  \* prefixVoterRewardPerCommittee, 0 if absent
    gasRecords,  \* prefixGASPerBlock: a function from block indexes
    committee,   \* prefixCommittee and cache.committee: keys with votes
    blocked,     \* keys whose accounts the Policy contract blocks
    cache,       \* votesChanged, newEpochCommittee, gasPerVoteCache, gasPerBlock
    earned,      \* earned[a]: what a is due for the NEO held so far
    minted,      \* minted[a]: what distributeGas has paid of that
    stale,       \* keys dropped while gasPerVoteCache had a value for them
    policed,     \* "yes": accounts (un)blocked since votes were last looked at
    restarts,
    calls

storage == <<acc, candidates, votersCount, gasPerVote, gasRecords, committee, blocked>>
ghosts == <<earned, minted, stale, policed, restarts, calls>>
vars == <<height, block, storage, cache, ghosts>>

NoAccount == [balance |-> 0, balanceHeight |-> 0, voteTo |-> 0, lastGasPerVote |-> 0]
NoCandidate == [registered |-> FALSE, votes |-> -1]
Uncached == -1

ShouldUpdateCommitteeAt(h) == h % committeeSize = 0

-----------------------------------------------------------------------------
(* The committee.                                                          *)

\* The members of S in the order before: the i-th one has i - 1 before it.
Sorted(S, before(_, _)) ==
    [i \in 1 .. Cardinality(S) |->
        CHOOSE x \in S : Cardinality({y \in S : before(y, x)}) = i - 1]

\* getCandidates, sorted: the most votes first, ties by key.
getCandidates(cands, banned) ==
    LET cs == {[key |-> k, votes |-> cands[k].votes] :
                  k \in {k \in Keys \ banned : cands[k].registered}}
    IN  Sorted(cs, LAMBDA c, d : c.votes > d.votes \/ (c.votes = d.votes /\ c.key < d.key))

\* computeCommitteeMembers of the candidates cands, the turnout n and the blocked
\* accounts banned.  The standby committee serves while less than a fifth of all
\* NEO votes or too few candidates are there.
computeCommitteeMembers(cands, n, banned) ==
    LET cs == getCandidates(cands, banned)
        votesOf(k) == IF k \notin banned /\ cands[k].registered THEN cands[k].votes ELSE 0
    IN  IF (n * 5) \div NEOTotalSupply > 0 /\ Len(cs) >= committeeSize
        THEN SubSeq(cs, 1, committeeSize)
        ELSE [i \in 1 .. committeeSize |->
                 [key |-> standbyKeys[i], votes |-> votesOf(standbyKeys[i])]]

\* The committee the state elects.
Elected == computeCommitteeMembers(candidates, votersCount, blocked)

-----------------------------------------------------------------------------
(* GAS due to holders and voters.                                          *)

\* Mutant: the storage is not read.
getLatestGASPerVoteCached(k) ==
    IF cache.gasPerVoteCache[k] # Uncached THEN cache.gasPerVoteCache[k] ELSE 0

\* The accumulated reward per vote for k.
getLatestGASPerVote(k) ==
    IF cache.gasPerVoteCache[k] # Uncached THEN cache.gasPerVoteCache[k] ELSE gasPerVote[k]

\* Mutant: the latest rate is paid for the whole period.
CalculateNEOHolderRewardLatest(value, start, end) ==
    IF value = 0 \/ start >= end THEN 0 ELSE value * (end - start) * cache.gasPerBlock[Len(cache.gasPerBlock)].gas

\* CalculateNEOHolderReward: the records of GASPerBlock from the latest one
\* back, up to the first that starts before the period from start to end does.
CalculateNEOHolderReward(value, start, end) ==
    LET gr == cache.gasPerBlock
        step(i, s) == IF s.done \/ gr[i].index >= s.end THEN s
                      ELSE IF gr[i].index <= start
                      THEN [s EXCEPT !.sum = @ + (s.end - start) * gr[i].gas, !.done = TRUE]
                      ELSE [s EXCEPT !.sum = @ + (s.end - gr[i].index) * gr[i].gas,
                                     !.end = gr[i].index]
        from[i \in 0 .. Len(gr)] ==
            IF i = Len(gr) THEN [sum |-> 0, end |-> end, done |-> FALSE]
            ELSE step(i + 1, from[i + 1])
    IN  IF value = 0 \/ start >= end THEN 0 ELSE value * from[0].sum

\* The part of calculateBonus that the vote of a has brought since it was paid.
votingReward(a) ==
    IF acc[a].voteTo = 0 THEN 0
    ELSE ((getLatestGASPerVote(acc[a].voteTo) - acc[a].lastGasPerVote) * acc[a].balance)
             \div voterRewardFactor

\* distributeGas: the account with its rewards up to this block taken, and the one
\* for holding NEO.
distributeGas(a) ==
    LET st == acc[a]
    IN  IF block = st.balanceHeight THEN [acc |-> st, gas |-> 0]
        ELSE [acc |-> [st EXCEPT !.balanceHeight = block,
                                 !.lastGasPerVote = IF st.voteTo = 0 THEN @
                                                    ELSE getLatestGASPerVote(st.voteTo)],
              gas |-> CalculateNEOHolderReward(st.balance, st.balanceHeight, block)]

-----------------------------------------------------------------------------
(* Votes.                                                                  *)

\* Mutant: a candidate that is not registered any more is dropped at once.
OrDroppedVoted(c) == IF ~c.registered THEN NoCandidate ELSE c

\* dropCandidateIfZero
OrDropped(c) == IF ~c.registered /\ c.votes = 0 THEN NoCandidate ELSE c

\* ModifyAccountVotes: the candidates cs after a vote for k has changed by value.
\* A missing candidate is an error there; VotersHaveCandidate says it never is.
ModifyAccountVotes(cs, k, value, isNewVote) ==
    IF k = 0 THEN cs
    ELSE LET c == [cs[k] EXCEPT !.votes = @ + value]
         IN  [cs EXCEPT ![k] = IF isNewVote THEN c ELSE OrDropped(c)]

\* What dropping a candidate also deletes.  Its entry of gasPerVoteCache stays: it
\* is deleted under another key than the one it is put under.
PutCandidates(cs) ==
    LET dropped == {k \in Keys : candidates[k] # NoCandidate /\ cs[k] = NoCandidate}
    IN  /\ candidates' = cs
        /\ gasPerVote' = [k \in Keys |-> IF k \in dropped THEN 0 ELSE gasPerVote[k]]
        /\ stale' = stale \union {k \in dropped : cache.gasPerVoteCache[k] # Uncached}

\* Mutant: the election does not hear of the change.
VotesUnnoticed == UNCHANGED cache /\ policed' = "no"

VotesChanged == cache' = [cache EXCEPT !.votesChanged = "yes"] /\ policed' = "no"

-----------------------------------------------------------------------------
(* Methods of the contract, called by transactions of the block.           *)

Called == block # 0 /\ calls < MaxCalls /\ calls' = calls + 1

\* Mutant: the votes of the receiver do not follow its balance.
increaseBalanceQuiet(cs, st, amount) == cs

\* increaseBalance: the votes of an account follow its balance.
increaseBalance(cs, st, amount) == ModifyAccountVotes(cs, st.voteTo, amount, FALSE)

OrDeleted(st) == IF st.balance = 0 THEN NoAccount ELSE st

\* TransferInternal.  Nothing but the rewards of from moves if from is to or the
\* amount is 0.
transfer(from, to, amount) ==
    LET d == distributeGas(from)
        e == distributeGas(to)
        isEmpty == from = to \/ amount = 0
        payer == [d.acc EXCEPT !.balance = @ - amount]
        payee == [e.acc EXCEPT !.balance = @ + amount]
        voting(st) == IF st.voteTo = 0 THEN 0 ELSE amount
    IN  /\ Called /\ acc[from].balance >= amount
        /\ IF isEmpty
           THEN /\ acc[from] # NoAccount
                /\ acc' = [acc EXCEPT ![from] = d.acc]
                /\ minted' = [minted EXCEPT ![from] = @ + d.gas]
                /\ UNCHANGED <<candidates, votersCount, gasPerVote, cache, stale, policed>>
           ELSE /\ acc' = [acc EXCEPT ![from] = OrDeleted(payer), ![to] = payee]
                /\ minted' = [minted EXCEPT ![from] = @ + d.gas, ![to] = @ + e.gas]
                /\ PutCandidates(increaseBalance(increaseBalance(candidates, d.acc, -amount),
                                                 e.acc, amount))
                /\ votersCount' = votersCount - voting(d.acc) + voting(e.acc)
                /\ VotesChanged
        /\ UNCHANGED <<height, block, gasRecords, committee, blocked, earned, restarts>>

\* VoteInternal of a for pub, 0 to vote for nobody.
vote(a, pub) ==
    LET d == distributeGas(a)
        old == acc[a].voteTo
        balance == acc[a].balance
        without == ModifyAccountVotes(candidates, old, -balance, FALSE)
        last == IF pub = 0 THEN 0 ELSE getLatestGASPerVote(pub)
    IN  /\ Called /\ acc[a] # NoAccount
        /\ pub # 0 => candidates[pub].registered
        /\ votersCount' = votersCount + (IF old = 0 /\ pub # 0 THEN balance ELSE 0)
                                      - (IF old # 0 /\ pub = 0 THEN balance ELSE 0)
        /\ PutCandidates(ModifyAccountVotes(without, pub, balance, TRUE))
        /\ acc' = [acc EXCEPT ![a] = [d.acc EXCEPT !.voteTo = pub, !.lastGasPerVote = last]]
        /\ minted' = [minted EXCEPT ![a] = @ + d.gas]
        /\ VotesChanged
        /\ UNCHANGED <<height, block, gasRecords, committee, blocked, earned, restarts>>

\* RegisterCandidateInternal
registerCandidate(k) ==
    LET c == candidates[k]
    IN  /\ Called /\ ~c.registered
        /\ candidates' = [candidates EXCEPT ![k] =
                             [registered |-> TRUE, votes |-> IF c = NoCandidate THEN 0 ELSE c.votes]]
        /\ VotesChanged
        /\ UNCHANGED <<height, block, acc, votersCount, gasPerVote, gasRecords, committee, blocked,
                       earned, minted, stale, restarts>>

\* UnregisterCandidateInternal
unregisterCandidate(k) ==
    /\ Called /\ candidates[k] # NoCandidate
    /\ PutCandidates([candidates EXCEPT ![k] = OrDropped([@ EXCEPT !.registered = FALSE])])
    /\ VotesChanged
    /\ UNCHANGED <<height, block, acc, votersCount, gasRecords, committee, blocked,
                   earned, minted, restarts>>

\* SetGASPerBlock, from the next block on: the storage has one record per block,
\* the cache one per call.
setGasPerBlock(gas) ==
    /\ Called
    /\ gasRecords' = [i \in DOMAIN gasRecords \union {block + 1} |->
                         IF i = block + 1 THEN gas ELSE gasRecords[i]]
    /\ cache' = [cache EXCEPT !.gasPerBlock = Append(@, [index |-> block + 1, gas |-> gas])]
    /\ UNCHANGED <<height, block, acc, candidates, votersCount, gasPerVote, committee, blocked,
                   earned, minted, stale, policed, restarts>>

\* blockAccount and unblockAccount of the Policy contract, for the account of k.
blockAccount(k) ==
    /\ Called
    /\ blocked' = IF k \in blocked THEN blocked \ {k} ELSE blocked \union {k}
    /\ policed' = IF cache.votesChanged = "yes" THEN "no" ELSE "yes"
    /\ UNCHANGED <<height, block, acc, candidates, votersCount, gasPerVote, gasRecords, committee,
                   cache, earned, minted, stale, restarts>>

-----------------------------------------------------------------------------
(* Blocks and restarts.                                                    *)

\* OnPersist
StartBlock ==
    LET b == height + 1
    IN  /\ block = 0 /\ b <= MaxHeight
        /\ block' = b
        /\ IF ShouldUpdateCommitteeAt(b)
           THEN /\ committee' = cache.newEpochCommittee
                /\ cache' = [cache EXCEPT !.votesChanged = "no"]
           ELSE UNCHANGED <<committee, cache>>
        /\ UNCHANGED <<height, acc, candidates, votersCount, gasPerVote, gasRecords, blocked, ghosts>>

\* The last cached record of GASPerBlock that starts no later than block i.
GetGASPerBlock(i) ==
    cache.gasPerBlock[Max({j \in DOMAIN cache.gasPerBlock : cache.gasPerBlock[j].index <= i})].gas

\* The same by the storage; what holders earn is measured by it.
StoredGASPerBlock(i) == gasRecords[Max({j \in DOMAIN gasRecords : j <= i})]

voterReward ==
    ((80 * GetGASPerBlock(block) * voterRewardFactor * committeeSize)
        \div (committeeSize + validatorsCount)) \div 100

\* The reward per vote of a committee member k that has votes; validators get it
\* twice.
Rewarded(k) ==
    LET i == CHOOSE i \in DOMAIN committee : committee[i].key = k
    IN  ((IF i <= validatorsCount THEN 2 ELSE 1) * voterReward) \div committee[i].votes

\* PostPersist.  The sizes of the committee and of the validators never change here:
\* the election is not repeated because one of them did.
EndBlock ==
    LET voted == IF ShouldUpdateCommitteeAt(block)
                 THEN {c.key : c \in {c \in {committee[i] : i \in DOMAIN committee} : c.votes > 0}} ELSE {}
        paid(k) == getLatestGASPerVote(k) + Rewarded(k)
        cached == [cache EXCEPT !.gasPerVoteCache =
                      [k \in Keys |-> IF k \in voted THEN paid(k) ELSE @[k]]]
    IN  /\ block # 0
        /\ height' = block /\ block' = 0
        /\ gasPerVote' = [k \in Keys |-> IF k \in voted THEN paid(k) ELSE gasPerVote[k]]
        /\ UNCHANGED <<acc, candidates, votersCount, gasRecords, committee, blocked>>
        /\ cache' = IF ShouldUpdateCommitteeAt(block + 1) /\ cache.votesChanged = "yes"
                    THEN [cached EXCEPT !.newEpochCommittee = Elected]
                    ELSE cached
        /\ earned' = [a \in Accounts |-> earned[a] + acc[a].balance * StoredGASPerBlock(block)]
        /\ UNCHANGED <<minted, stale, policed, restarts, calls>>

\* Mutant: the values for the next epoch are only set when it begins.
InitializeCacheStale(h) ==
    [votesChanged |-> "yes",
     newEpochCommittee |-> committee,
     gasPerVoteCache |-> [k \in Keys |-> Uncached],
     gasPerBlock |-> Sorted({[index |-> i, gas |-> gasRecords[i]] : i \in DOMAIN gasRecords},
                            LAMBDA r, t : r.index < t.index)]

\* InitializeCache of a node at height h.
InitializeCache(h) ==
    [votesChanged |-> "yes",
     newEpochCommittee |-> IF ShouldUpdateCommitteeAt(h + 1) THEN Elected
                           ELSE committee,
     gasPerVoteCache |-> [k \in Keys |-> Uncached],
     gasPerBlock |-> Sorted({[index |-> i, gas |-> gasRecords[i]] : i \in DOMAIN gasRecords},
                            LAMBDA r, t : r.index < t.index)]

Restart ==
    /\ block = 0 /\ restarts < MaxRestarts
    /\ restarts' = restarts + 1
    /\ UNCHANGED <<height, block, storage, earned, minted, stale, calls>>
    /\ cache' = InitializeCache(height)
    /\ policed' = "no"

\* The state after the genesis block.
Init ==
    /\ height = 0 /\ block = 0
    /\ acc = [a \in Accounts |->
                 IF a = Owner THEN [NoAccount EXCEPT !.balance = NEOTotalSupply] ELSE NoAccount]
    /\ candidates = [k \in Keys |-> NoCandidate]
    /\ votersCount = 0
    /\ gasPerVote = [k \in Keys |-> 0]
    /\ gasRecords = [i \in {0} |-> Min(GasPerBlock)]
    /\ committee = [i \in 1 .. committeeSize |-> [key |-> standbyKeys[i], votes |-> 0]]
    /\ blocked = {}
    /\ cache = [votesChanged |-> "no", newEpochCommittee |-> committee,
                gasPerVoteCache |-> [k \in Keys |-> Uncached],
                gasPerBlock |-> <<[index |-> 0, gas |-> Min(GasPerBlock)]>>]
    /\ earned = [a \in Accounts |-> acc[a].balance * Min(GasPerBlock)]
    /\ minted = [a \in Accounts |-> 0]
    /\ stale = {} /\ policed = "no" /\ restarts = 0 /\ calls = 0

Next ==
    \/ StartBlock
    \/ EndBlock
    \/ Restart
    \/ \E from, to \in Accounts, amount \in 0 .. NEOTotalSupply : transfer(from, to, amount)
    \/ \E a \in Accounts, pub \in Applicants \union {0} : vote(a, pub)
    \/ \E k \in Applicants : registerCandidate(k) \/ unregisterCandidate(k) \/ blockAccount(k)
    \/ \E gas \in GasPerBlock : setGasPerBlock(gas)

Spec == Init /\ [][Next]_vars

-----------------------------------------------------------------------------
(* Properties.                                                             *)

TotalOf(S) == MapThenSumSet(LAMBDA a : acc[a].balance, S)

\* The type of every variable.
TypeOK ==
    /\ height \in 0 .. MaxHeight /\ block \in {0, height + 1}
    /\ \A a \in Accounts : /\ acc[a].balance \in 0 .. NEOTotalSupply
                           /\ acc[a].balanceHeight \in 0 .. height + 1
                           /\ acc[a].voteTo \in Keys \union {0}
    /\ \A k \in Keys : candidates[k].votes \in -1 .. NEOTotalSupply
    /\ Len(committee) = committeeSize /\ Len(cache.newEpochCommittee) = committeeSize

\* The candidate an account votes for is in the storage, however it was
\* unregistered since, and one that nobody votes for is there only while it is
\* registered: ModifyAccountVotes never fails half way.
VotersHaveCandidate ==
    /\ \A a \in Accounts : acc[a].voteTo # 0 => candidates[acc[a].voteTo] # NoCandidate
    /\ \A k \in Keys : candidates[k].registered \/ candidates[k].votes # 0

\* All NEO is on some account; the votes of a candidate are the NEO of the
\* accounts that vote for it; the turnout is the NEO of all that vote.  Transfers,
\* votes and registrations each move two or three of these by differences.
BalancesAddUp ==
    /\ TypeOK /\ VotersHaveCandidate
    /\ TotalOf(Accounts) = NEOTotalSupply
    /\ votersCount = TotalOf({a \in Accounts : acc[a].voteTo # 0})
    /\ \A k \in Keys : candidates[k] # NoCandidate =>
          candidates[k].votes = TotalOf({a \in Accounts : acc[a].voteTo = k})

\* Every holder is paid for every block it held NEO in, once, at the rate of that
\* block: distributions at any moments, changes of the rate, also several in one
\* block, and restarts included.
HoldersPaid ==
    \A a \in Accounts :
        earned[a] = minted[a] + acc[a].balance *
            MapThenSumSet(StoredGASPerBlock, acc[a].balanceHeight .. height)

\* The reward of a vote never runs backwards: what is accumulated for a candidate
\* is at least what its voters have been paid; candidates dropped with a cached
\* value excepted.
RewardsGrow ==
    \A a \in Accounts :
        acc[a].voteTo \notin stale => votingReward(a) >= 0

\* The rewards a restarted node reads are the ones the node had in its cache;
\* the excepted candidates above included.
CacheIsStorage ==
    \A k \in Keys : cache.gasPerVoteCache[k] \in {Uncached, gasPerVote[k]}

\* The committee that takes over with the next epoch is the one elected by the
\* votes at the end of this one, whether or not the node restarted in it; accounts
\* blocked or unblocked in an epoch without any votes excepted.
CommitteeElected ==
    [][(block = 0 /\ block' # 0 /\ ShouldUpdateCommitteeAt(block') /\ policed = "no")
          => committee' = Elected]_vars

\* The same without the exception.
CommitteeElectedAlways ==
    [][(block = 0 /\ block' # 0 /\ ShouldUpdateCommitteeAt(block'))
          => committee' = Elected]_vars
=============================================================================
