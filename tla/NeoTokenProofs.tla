--------------------------- MODULE NeoTokenProofs ---------------------------
(***************************************************************************)
(* Proof, for any number of accounts, keys and blocks, that the committee  *)
(* of an epoch is the one elected by the votes at the end of the one       *)
(* before, on nodes that restart at any blocks and on nodes that do not.   *)
(***************************************************************************)
EXTENDS NeoToken, TLAPS

\* The fields of the cache.
CacheTyped ==
    /\ cache = [votesChanged |-> cache.votesChanged,
                newEpochCommittee |-> cache.newEpochCommittee,
                gasPerVoteCache |-> cache.gasPerVoteCache,
                gasPerBlock |-> cache.gasPerBlock]
    /\ height \in Nat /\ block \in {0, height + 1}

\* The committee for the next epoch is up to date while no votes have changed, and
\* at the end of the epoch whatever has.
EpochInv ==
    /\ CacheTyped
    /\ (policed = "no" /\ cache.votesChanged # "yes") => cache.newEpochCommittee = Elected
    /\ (policed = "no" /\ block = 0 /\ ShouldUpdateCommitteeAt(height + 1))
          => cache.newEpochCommittee = Elected

\* Nobody votes after genesis, so the standby committee is elected.
LEMMA InitEpoch == Init => EpochInv
<1> SUFFICES ASSUME Init PROVE EpochInv
  OBVIOUS
<1>1. NEOTotalSupply \in Nat \ {0} /\ standbyKeys \in Seq(Keys)
  BY NeoTokenAssumption
<1>2. ~((votersCount * 5) \div NEOTotalSupply > 0)
  BY <1>1 DEF Init
<1>3. \A i \in 1 .. committeeSize : standbyKeys[i] \in Keys
  BY <1>1 DEF committeeSize
<1>4. Elected = [i \in 1 .. committeeSize |-> [key |-> standbyKeys[i], votes |-> 0]]
  BY <1>2, <1>3 DEF Elected, computeCommitteeMembers, Init, NoCandidate
<1>5. cache.newEpochCommittee = Elected
  BY <1>4 DEF Init
<1> QED
  BY <1>5 DEF EpochInv, CacheTyped, Init

\* A call that tells the election of its change to the votes keeps the invariant.
LEMMA VotesChangedKeeps ==
    ASSUME EpochInv, VotesChanged, block # 0, UNCHANGED <<height, block>>
    PROVE  EpochInv'
<1>1. CacheTyped' /\ cache'.votesChanged = "yes"
  BY DEF EpochInv, CacheTyped, VotesChanged
<1> QED
  BY <1>1 DEF EpochInv

\* So does one that leaves alone all an election depends on.
LEMMA UnrelatedKeeps ==
    ASSUME EpochInv, CacheTyped', cache'.votesChanged = cache.votesChanged,
           cache'.newEpochCommittee = cache.newEpochCommittee,
           UNCHANGED <<height, block, candidates, votersCount, blocked, policed>>
    PROVE  EpochInv'
<1>1. Elected' = Elected
  BY DEF Elected
<1> QED
  BY <1>1 DEF EpochInv

\* Methods of the contract.
LEMMA CallKeeps ==
    ASSUME EpochInv,
           \/ \E from, to \in Accounts, amount \in 0 .. NEOTotalSupply : transfer(from, to, amount)
           \/ \E a \in Accounts, pub \in Applicants \union {0} : vote(a, pub)
           \/ \E k \in Applicants : registerCandidate(k) \/ unregisterCandidate(k) \/ blockAccount(k)
           \/ \E gas \in GasPerBlock : setGasPerBlock(gas)
    PROVE  EpochInv'
<1>1. ASSUME NEW from \in Accounts, NEW to \in Accounts, NEW amount \in 0 .. NEOTotalSupply,
             transfer(from, to, amount)
      PROVE  EpochInv'
  <2>1. block # 0 /\ UNCHANGED <<height, block, blocked>>
    BY <1>1 DEF transfer, Called
  <2>2. CASE from = to \/ amount = 0
    <3>1. UNCHANGED <<candidates, votersCount, cache, policed>>
      BY <1>1, <2>2 DEF transfer
    <3>2. CacheTyped'
      BY <2>1, <3>1 DEF EpochInv, CacheTyped
    <3> QED
      BY <2>1, <3>1, <3>2, UnrelatedKeeps
  <2>3. CASE ~(from = to \/ amount = 0)
    BY <1>1, <2>1, <2>3, VotesChangedKeeps DEF transfer
  <2> QED
    BY <2>2, <2>3
<1>2. ASSUME NEW a \in Accounts, NEW pub \in Applicants \union {0}, vote(a, pub)
      PROVE  EpochInv'
  BY <1>2, VotesChangedKeeps DEF vote, Called
<1>3. ASSUME NEW k \in Applicants, registerCandidate(k) \/ unregisterCandidate(k)
      PROVE  EpochInv'
  BY <1>3, VotesChangedKeeps DEF registerCandidate, unregisterCandidate, Called
<1>4. ASSUME NEW k \in Applicants, blockAccount(k)
      PROVE  EpochInv'
  <2>1. CacheTyped'
    BY <1>4 DEF blockAccount, EpochInv, CacheTyped
  <2>2. block' # 0 /\ cache' = cache
    BY <1>4 DEF blockAccount, Called
  <2>3. policed' = "no" => cache.votesChanged = "yes"
    BY <1>4 DEF blockAccount
  <2> QED
    BY <2>1, <2>2, <2>3 DEF EpochInv
<1>5. ASSUME NEW gas \in GasPerBlock, setGasPerBlock(gas)
      PROVE  EpochInv'
  <2>1. UNCHANGED <<height, block, candidates, votersCount, blocked, policed>>
    BY <1>5 DEF setGasPerBlock
  <2>2. /\ CacheTyped' /\ cache'.votesChanged = cache.votesChanged
        /\ cache'.newEpochCommittee = cache.newEpochCommittee
    BY <1>5, <2>1 DEF setGasPerBlock, EpochInv, CacheTyped
  <2> QED
    BY <2>1, <2>2, UnrelatedKeeps
<1> QED
  BY <1>1, <1>2, <1>3, <1>4, <1>5

\* Blocks and restarts.
LEMMA StepEpoch == EpochInv /\ [Next]_vars => EpochInv'
<1> SUFFICES ASSUME EpochInv, [Next]_vars PROVE EpochInv'
  OBVIOUS
<1>1. CASE StartBlock
  <2>1. /\ block = 0 /\ block' = height + 1 /\ block' # 0 /\ Elected' = Elected
        /\ policed' = policed /\ height' = height
    BY <1>1 DEF StartBlock, ghosts, Elected, EpochInv, CacheTyped
  <2>2. CacheTyped' /\ cache'.newEpochCommittee = cache.newEpochCommittee
    BY <1>1, <2>1 DEF StartBlock, EpochInv, CacheTyped
  <2>3. CASE ShouldUpdateCommitteeAt(height + 1)
    BY <2>1, <2>2, <2>3 DEF EpochInv
  <2>4. CASE ~ShouldUpdateCommitteeAt(height + 1)
    BY <1>1, <2>1, <2>2, <2>4 DEF StartBlock, EpochInv
  <2> QED
    BY <2>3, <2>4
<1>2. CASE EndBlock
  <2>1. /\ block = height + 1 /\ height' = block /\ block' = 0 /\ Elected' = Elected
        /\ policed' = policed /\ height \in Nat
    BY <1>2 DEF EndBlock, Elected, EpochInv, CacheTyped
  <2> DEFINE new == IF ShouldUpdateCommitteeAt(block + 1) /\ cache.votesChanged = "yes"
                    THEN Elected ELSE cache.newEpochCommittee
  <2>2. PICK f : cache' = [votesChanged |-> cache.votesChanged, newEpochCommittee |-> new,
                           gasPerVoteCache |-> f, gasPerBlock |-> cache.gasPerBlock]
    BY <1>2 DEF EndBlock, EpochInv, CacheTyped
  <2>3. /\ CacheTyped' /\ cache'.votesChanged = cache.votesChanged
        /\ cache'.newEpochCommittee = new
    <3> HIDE DEF new
    <3> QED
      BY <2>1, <2>2 DEF CacheTyped
  <2> QED
    BY <2>1, <2>3 DEF EpochInv
<1>3. CASE Restart
  <2>1. UNCHANGED <<height, block>> /\ Elected' = Elected /\ cache' = InitializeCache(height)
    BY <1>3 DEF Restart, storage, Elected
  <2>2. /\ CacheTyped' /\ cache'.votesChanged = "yes"
        /\ ShouldUpdateCommitteeAt(height + 1) => cache'.newEpochCommittee = Elected
    BY <2>1 DEF InitializeCache, EpochInv, CacheTyped
  <2> QED
    BY <2>1, <2>2 DEF EpochInv
<1>4. CASE UNCHANGED vars
  BY <1>4, UnrelatedKeeps DEF vars, storage, ghosts, EpochInv, CacheTyped
<1> QED
  BY <1>1, <1>2, <1>3, <1>4, CallKeeps DEF Next

\* Whatever is voted, transferred, registered or restarted, the committee that
\* takes over with an epoch is the one elected by the state before it; accounts
\* blocked or unblocked in an epoch without any votes excepted.
THEOREM CommitteeIsElected == Spec => CommitteeElected
<1>1. EpochInv /\ [Next]_vars =>
        [(block = 0 /\ block' # 0 /\ ShouldUpdateCommitteeAt(block') /\ policed = "no")
            => committee' = Elected]_vars
  <2> SUFFICES ASSUME EpochInv, Next, block = 0, block' # 0, ShouldUpdateCommitteeAt(block'),
                      policed = "no"
               PROVE  committee' = Elected
    OBVIOUS
  <2>1. StartBlock
    BY DEF Next, EndBlock, Restart, transfer, vote, registerCandidate, unregisterCandidate,
           blockAccount, setGasPerBlock, Called
  <2> QED
    BY <2>1 DEF StartBlock, EpochInv
<1> QED
  BY InitEpoch, StepEpoch, <1>1, PTL DEF Spec, CommitteeElected

=============================================================================
