---------------------------- MODULE ShareLease ----------------------------
(* What a share promises, in the abstract: a lease with a limited number   *)
(* of holders.  A revoked share has no holder and never gets one again,    *)
(* and a share that is gone never comes back.                              *)
EXTENDS Integers, FiniteSets

CONSTANTS Shares, ViewerIds

VARIABLES
  life,     \* "new", "open", "revoked" or "gone"
  limit,    \* how many may hold the share at once
  holders   \* who holds it

leaseVars == <<life, limit, holders>>

LeaseInit ==
  /\ life = [s \in Shares |-> "new"]
  /\ limit = [s \in Shares |-> 0]
  /\ holders = [s \in Shares |-> {}]

Open(s) ==
  /\ life[s] = "new"
  /\ life' = [life EXCEPT ![s] = "open"]
  /\ \E n \in 1..5 : limit' = [limit EXCEPT ![s] = n]
  /\ UNCHANGED holders

\* some holders leave, and v joins if there is room then
Join(s, v) ==
  /\ life[s] = "open"
  /\ \E rest \in SUBSET holders[s] :
       /\ Cardinality(rest) < limit[s]
       /\ holders' = [holders EXCEPT ![s] = rest \cup {v}]
  /\ UNCHANGED <<life, limit>>

Leave(s) ==
  /\ \E rest \in SUBSET holders[s] : holders' = [holders EXCEPT ![s] = rest]
  /\ UNCHANGED <<life, limit>>

Revoke(s) ==
  /\ life[s] = "open"
  /\ life' = [life EXCEPT ![s] = "revoked"]
  /\ holders' = [holders EXCEPT ![s] = {}]
  /\ UNCHANGED limit

\* the clock: some shares are over, and holders leave others
Sweep(over) ==
  /\ over \subseteq {s \in Shares : life[s] \in {"open", "revoked"}}
  /\ life' = [s \in Shares |-> IF s \in over THEN "gone" ELSE life[s]]
  /\ holders' \in [Shares -> SUBSET ViewerIds]
  /\ \A s \in Shares : holders'[s] \subseteq (IF s \in over THEN {} ELSE holders[s])
  /\ UNCHANGED limit

LeaseNext ==
  \/ \E s \in Shares : Open(s) \/ Leave(s) \/ Revoke(s)
  \/ \E s \in Shares, v \in ViewerIds : Join(s, v)
  \/ \E over \in SUBSET Shares : Sweep(over)

LeaseSpec == LeaseInit /\ [][LeaseNext]_leaseVars
=============================================================================
