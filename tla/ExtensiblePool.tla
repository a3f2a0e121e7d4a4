--------------------------- MODULE ExtensiblePool ---------------------------
(***************************************************************************)
(* The pool of extensible payloads of a node (pkg/network/extpool): what   *)
(* was received and verified, a list per sender of at most singleCap       *)
(* payloads, oldest first.  A pool is a value here, a function from        *)
(* senders to sequences; a payload is a record with the fields sender,     *)
(* validBlockStart and validBlockEnd.                                      *)
(***************************************************************************)
EXTENDS Integers, Sequences, SequencesExt

CONSTANTS
    Senders,   \* scripthashes of payload senders
    singleCap  \* ExtensiblePoolSize

ASSUME ExtensiblePoolAssumption == singleCap \in Nat \ {0}

EmptyPool == [s \in Senders |-> <<>>]

\* Get: the payload is in the pool.
Pooled(pool, e) == e \in ToSet(pool[e.sender])

\* verify for a node at height h that allows the senders in allowed; the witness
\* is the sender's.
Verified(e, h, allowed) ==
    e.validBlockStart <= h /\ h < e.validBlockEnd /\ e.sender \in allowed

\* Add returns true: the payload is valid and was not known.
IsNew(pool, e, h, allowed) == Verified(e, h, allowed) /\ ~Pooled(pool, e)

\* The pool after Add of a new payload: a full list loses its oldest one.
Added(pool, e) ==
    [pool EXCEPT ![e.sender] = Append(IF Len(@) >= singleCap THEN Tail(@) ELSE @, e)]

RemoveStale(pool, index, allowed) ==
    [s \in Senders |->
        SelectSeq(pool[s], LAMBDA e : index < e.validBlockEnd /\ s \in allowed)]
=============================================================================
