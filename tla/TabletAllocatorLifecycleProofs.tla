------------------- MODULE TabletAllocatorLifecycleProofs -------------------
(***************************************************************************)
(* Proof that the teardown of tablet_allocator_impl is safe for every set  *)
(* of tables: stop() awaits unregister_listener before it sets _stopped    *)
(* (lines 453-456), so once the owner destroys the allocator the assert of *)
(* line 450 holds and no hook can reach it.                                *)
(***************************************************************************)
EXTENDS TabletAllocatorLifecycle, TLAPS

\* The strengthening: after unregister_listener resolved the allocator is
\* out of the vector and no hook runs; _stopped is set exactly when stop()
\* has returned; the owner destroys only after that.
IInv ==
    /\ TypeOK
    /\ stopPc \in {"resumable", "returned"} => ~listed /\ running = {}
    /\ stopped <=> stopPc = "returned"
    /\ life = "destroyed" => stopPc = "returned"

LEMMA InitIInv == Init => IInv
BY DEF Init, IInv, TypeOK

LEMMA NextIInv == IInv /\ [Next]_vars => IInv'
<1> SUFFICES ASSUME IInv, [Next]_vars PROVE IInv'
  OBVIOUS
<1>1. ASSUME NEW s \in Schema, CreateBegin(s) PROVE IInv'
  BY <1>1 DEF CreateBegin, IInv, TypeOK
<1>2. ASSUME NEW s \in Schema, CreateEnd(s) PROVE IInv'
  BY <1>2 DEF CreateEnd, IInv, TypeOK
<1>3. CASE Stop
  BY <1>3 DEF Stop, IInv, TypeOK
<1>4. CASE Unregistered
  BY <1>4 DEF Unregistered, IInv, TypeOK
<1>5. CASE StopResume
  BY <1>5 DEF StopResume, IInv, TypeOK
<1>6. CASE Destroy
  BY <1>6 DEF Destroy, IInv, TypeOK
<1>7. CASE UNCHANGED vars
  BY <1>7 DEF vars, IInv, TypeOK
<1> QED
  BY <1>1, <1>2, <1>3, <1>4, <1>5, <1>6, <1>7 DEF Next

\* Whatever the tables and the interleaving of hooks with stop(), a
\* destroyed allocator was stopped, is unregistered and runs no hook.
THEOREM TeardownSafe == Spec => []SafeTeardown
<1>1. IInv => SafeTeardown
  BY DEF IInv, SafeTeardown
<1> QED
  BY <1>1, InitIInv, NextIInv, PTL DEF Spec
==============================================================================
