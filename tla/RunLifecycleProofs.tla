------------------------- MODULE RunLifecycleProofs -------------------------
(***************************************************************************)
(* The life of a run, proved for every set of runs.  RunEngine implements  *)
(* RunLifecycle (RunEngineProofs), so these are facts about it too.        *)
(***************************************************************************)
EXTENDS RunLifecycle, TLAPS

Inv == TypeOK /\ AtMostOneSupervised

\* Every action keeps the type and supervises at most one run.
LEMMA NextInv == Inv /\ [Next]_state => Inv'
<1> SUFFICES ASSUME Inv, [Next]_state PROVE Inv'
  OBVIOUS
<1> USE DEF Inv, TypeOK, AtMostOneSupervised, RowStates, Supervised, Final
<1>1. ASSUME NEW S \in SUBSET Runs, Enqueue(S) PROVE Inv'
  BY <1>1 DEF Enqueue
<1>2. ASSUME NEW r \in Runs, Withdraw(r) \/ RequestCancel(r) \/ Start(r) \/ Remove(r) PROVE Inv'
  BY <1>2 DEF Withdraw, RequestCancel, Start, Remove
<1>3. ASSUME NEW r \in Runs, Claim(r) PROVE Inv'
  BY <1>3 DEF Claim
<1>4. ASSUME NEW r \in Runs, NEW s \in Final, Settle(r, s) PROVE Inv'
  BY <1>4 DEF Settle
<1>5. CASE UNCHANGED state
  BY <1>5
<1> QED BY <1>1, <1>2, <1>3, <1>4, <1>5 DEF Next

\* The invariant holds from the first state on.
LEMMA Invariance == Spec => []Inv
<1>1. Init => Inv
  BY DEF Init, Inv, TypeOK, AtMostOneSupervised, RowStates, Supervised
<1> QED BY <1>1, NextInv, PTL DEF Spec

\* At most one run is supervised at any time.
THEOREM OneSupervised == Spec => []AtMostOneSupervised
BY Invariance, PTL DEF Inv

\* A settled run stays as it was settled until its row is removed.
THEOREM FinalStays == Spec => FinalIsImmutable
<1>1. Inv /\ [Next]_state => [\A r \in Runs : state[r] \in Final => state'[r] \in {state[r], "removed"}]_state
  <2> SUFFICES ASSUME Inv, Next, NEW q \in Runs, state[q] \in Final
               PROVE  state'[q] \in {state[q], "removed"}
    OBVIOUS
  <2> USE DEF Inv, TypeOK, Supervised, Final
  <2>1. ASSUME NEW S \in SUBSET Runs, Enqueue(S) PROVE state'[q] = state[q]
    BY <2>1 DEF Enqueue
  <2>2. ASSUME NEW r \in Runs, Withdraw(r) \/ Claim(r) \/ RequestCancel(r) \/ Start(r)
        PROVE  state'[q] = state[q]
    BY <2>2 DEF Withdraw, Claim, RequestCancel, Start
  <2>3. ASSUME NEW r \in Runs, Remove(r) PROVE state'[q] \in {state[q], "removed"}
    BY <2>3 DEF Remove
  <2>4. ASSUME NEW r \in Runs, NEW s \in Final, Settle(r, s) PROVE state'[q] = state[q]
    BY <2>4 DEF Settle
  <2> QED BY <2>1, <2>2, <2>3, <2>4 DEF Next
<1> QED BY <1>1, Invariance, PTL DEF Spec, FinalIsImmutable
=============================================================================
