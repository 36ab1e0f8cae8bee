------------------------------ MODULE FlatState ------------------------------
(***************************************************************************)
(* What PendingChainState promises to the code that evaluates transactions *)
(* and blocks: it works on a private copy of the state it builds on, and   *)
(* the copy replaces that state as a whole or is forgotten as a whole.     *)
(*                                                                         *)
(* There are four states: the chain, the state that pending transactions   *)
(* lead to, the state of the block that is being built, and the copy that  *)
(* is being worked on.                                                     *)
(***************************************************************************)

CONSTANTS
    Key,        \* ids of entries
    Contract,   \* the ids that are contract ids
    Value,      \* what an entry can hold
    NoValue     \* no entry

VARIABLES
    chain,      \* the state of the chain
    pool,       \* the chain and all pending transactions
    build,      \* the chain and the transactions chosen for a block
    building,   \* is a block being built?
    work,       \* the copy that is worked on
    base        \* what it is a copy of: none, pool, build or block (the chain)

flatVars == <<chain, pool, build, building, work, base>>

Optional == Value \cup {NoValue}

State == [entry : [Key -> Optional], storage : [Contract -> Optional]]

FlatInit ==
    /\ chain \in State
    /\ pool = chain /\ build = chain /\ work = chain
    /\ building = FALSE
    /\ base = "none"

\* The state that a copy on b starts with.
Source(b) == CASE b = "pool" -> pool [] b = "build" -> build [] OTHER -> chain

\* Start to work on a copy.
Copy(b) ==
    /\ base = "none"
    /\ (b = "build") = building
    /\ base' = b /\ work' = Source(b)
    /\ UNCHANGED <<chain, pool, build, building>>

\* One entry, or one contract's storage, is replaced or deleted.
WriteEntry(k, v) ==
    /\ base # "none"
    /\ work' = [work EXCEPT !.entry[k] = v]
    /\ UNCHANGED <<chain, pool, build, building, base>>

WriteStorage(c, v) ==
    /\ base # "none"
    /\ work' = [work EXCEPT !.storage[c] = v]
    /\ UNCHANGED <<chain, pool, build, building, base>>

\* Start over with a new copy.
Recopy ==
    /\ base # "none"
    /\ work' = Source(base)
    /\ UNCHANGED <<chain, pool, build, building, base>>

\* The copy is forgotten.
Discard ==
    /\ base # "none"
    /\ base' = "none" /\ work' = chain
    /\ UNCHANGED <<chain, pool, build, building>>

\* The copy becomes the state it is a copy of.
KeepInPool ==
    /\ base = "pool"
    /\ pool' = work /\ work' = chain /\ base' = "none"
    /\ UNCHANGED <<chain, build, building>>

KeepInBuild ==
    /\ base = "build"
    /\ build' = work /\ work' = chain /\ base' = "none"
    /\ UNCHANGED <<chain, pool, building>>

\* The copy becomes the chain; pending transactions are forgotten.
KeepInChain ==
    /\ base = "block"
    /\ chain' = work /\ pool' = work /\ build' = work /\ work' = work
    /\ base' = "none"
    /\ UNCHANGED building

StartBuild ==
    /\ base = "none" /\ ~building
    /\ building' = TRUE
    /\ UNCHANGED <<chain, pool, build, work, base>>

\* The built state and the pending transactions are forgotten.
EndBuild ==
    /\ base = "none" /\ building
    /\ building' = FALSE
    /\ build' = chain /\ pool' \in {pool, chain}
    /\ UNCHANGED <<chain, work, base>>

\* Pending transactions are forgotten.
ForgetPool ==
    /\ base = "none" /\ ~building
    /\ pool' = chain
    /\ UNCHANGED <<chain, build, building, work, base>>

\* Only the chain is left.
Restart ==
    /\ pool' = chain /\ build' = chain /\ work' = chain
    /\ building' = FALSE /\ base' = "none"
    /\ UNCHANGED chain

FlatNext ==
    \/ \E b \in {"pool", "build", "block"} : Copy(b)
    \/ \E k \in Key, v \in Optional : WriteEntry(k, v)
    \/ \E c \in Contract, v \in Optional : WriteStorage(c, v)
    \/ Recopy \/ Discard
    \/ KeepInPool \/ KeepInBuild \/ KeepInChain
    \/ StartBuild \/ EndBuild \/ ForgetPool
    \/ Restart

FlatSpec == FlatInit /\ [][FlatNext]_flatVars
=============================================================================
