--------------------------- MODULE ProviderExposure ---------------------------
(***************************************************************************)
(* What the V3 request ledger promises about the paid provider, with no    *)
(* word on markers, recovery or retries: each request is issued at most    *)
(* once, one at a time, and nothing is issued while an earlier request may *)
(* still turn out to have cost something.                                  *)
(***************************************************************************)
CONSTANTS Requests, Costs, NoBill

VARIABLES
  phase,    \* request -> "open" | "issued" | "unbilled" | "billed" | "void"
  bill      \* request -> what it cost, once that is known

exposureVars == <<phase, bill>>

Owing == {r \in Requests : phase[r] \in {"issued", "unbilled"}}

ExposureInit ==
  /\ phase = [r \in Requests |-> "open"]
  /\ bill = [r \in Requests |-> NoBill]

Issue(r) ==
  /\ phase[r] = "open"
  /\ Owing = {}
  /\ phase' = [phase EXCEPT ![r] = "issued"]
  /\ UNCHANGED bill

Settle(r, c) ==
  /\ phase[r] \in {"issued", "unbilled"}
  /\ phase' = [phase EXCEPT ![r] = "billed"]
  /\ bill' = [bill EXCEPT ![r] = c]

LoseBill(r) ==
  /\ phase[r] = "issued"
  /\ phase' = [phase EXCEPT ![r] = "unbilled"]
  /\ UNCHANGED bill

Reject(r) ==
  /\ phase[r] = "open"
  /\ phase' = [phase EXCEPT ![r] = "void"]
  /\ UNCHANGED bill

ExposureNext ==
  \E r \in Requests :
    Issue(r) \/ LoseBill(r) \/ Reject(r) \/ \E c \in Costs : Settle(r, c)

ExposureSpec == ExposureInit /\ [][ExposureNext]_exposureVars

===============================================================================
