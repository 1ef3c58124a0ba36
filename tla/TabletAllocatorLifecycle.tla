----------------------- MODULE TabletAllocatorLifecycle -----------------------
(***************************************************************************)
(* The lifetime of tablet_allocator_impl (tablet_allocator.cc, lines       *)
(* 435-503) as a listener of the migration notifier.  The constructor      *)
(* registers `this` (line 444); stop() awaits unregister_listener and then *)
(* sets _stopped (lines 453-456); the destructor asserts _stopped (line    *)
(* 450).  on_before_create_column_family (lines 458-466) waits on futures  *)
(* with .get0() and so is suspended inside the allocator while other tasks *)
(* run, stop() among them.  The drop hooks (lines 468-487) do not wait and *)
(* change no state of the allocator, so they are steps the model omits.    *)
(*                                                                         *)
(* The notifier and the owner are not in the repository and are modelled  *)
(* from their contracts: the notifier calls a hook only of a registered    *)
(* listener; unregister_listener resolves once no hook of the listener is  *)
(* running and no new one starts while it waits (the listener vector's     *)
(* FIFO read-write lock); the owner destroys the allocator once stop()'s   *)
(* future has resolved.                                                    *)
(***************************************************************************)
EXTENDS Naturals

CONSTANT Schema     \* the tables whose creation the notifier announces

ASSUME SchemaAssumption == Schema # {}

VARIABLES
    life,       \* "alive" or "destroyed"
    listed,     \* the notifier's listener vector holds the allocator
    stopped,    \* _stopped
    stopPc,     \* where stop() is: "idle", "unregistering" (at the
                \* co_await), "resumable" (the future resolved) or "returned"
    running     \* the tables whose create hook is suspended in .get0()

vars == <<life, listed, stopped, stopPc, running>>

TypeOK ==
    /\ life \in {"alive", "destroyed"}
    /\ listed \in BOOLEAN
    /\ stopped \in BOOLEAN
    /\ stopPc \in {"idle", "unregistering", "resumable", "returned"}
    /\ running \in SUBSET Schema

\* The constructor (lines 441-445).
Init ==
    /\ life = "alive"
    /\ listed = TRUE
    /\ stopped = FALSE
    /\ stopPc = "idle"
    /\ running = {}

\* The notifier enters on_before_create_column_family, which suspends at
\* the first .get0() (lines 458-463).
CreateBegin(s) ==
    /\ listed
    /\ stopPc # "unregistering"
    /\ s \notin running
    /\ running' = running \cup {s}
    /\ UNCHANGED <<life, listed, stopped, stopPc>>

\* The hook resumes, appends the tablet map mutation and returns (463-465).
CreateEnd(s) ==
    /\ s \in running
    /\ running' = running \ {s}
    /\ UNCHANGED <<life, listed, stopped, stopPc>>

\* Mutant: stop() drops the future of unregister_listener instead of
\* awaiting it and sets _stopped at once.
StopNoAwait ==
    /\ life = "alive"
    /\ stopPc = "idle"
    /\ stopped' = TRUE
    /\ stopPc' = "returned"
    /\ UNCHANGED <<life, listed, running>>

\* stop() calls unregister_listener and suspends at its co_await (line 454).
Stop ==
    /\ life = "alive"
    /\ stopPc = "idle"
    /\ stopPc' = "unregistering"
    /\ UNCHANGED <<life, listed, stopped, running>>

\* unregister_listener removes the allocator once no hook of it runs.
Unregistered ==
    /\ stopPc = "unregistering"
    /\ running = {}
    /\ listed' = FALSE
    /\ stopPc' = "resumable"
    /\ UNCHANGED <<life, stopped, running>>

\* stop() resumes, sets _stopped and returns (line 455).
StopResume ==
    /\ stopPc = "resumable"
    /\ stopped' = TRUE
    /\ stopPc' = "returned"
    /\ UNCHANGED <<life, listed, running>>

\* The owner destroys the allocator after stop(); the destructor's assert
\* (line 450) would abort if _stopped were false.
Destroy ==
    /\ life = "alive"
    /\ stopPc = "returned"
    /\ life' = "destroyed"
    /\ UNCHANGED <<listed, stopped, stopPc, running>>

Next ==
    \/ \E s \in Schema : CreateBegin(s) \/ CreateEnd(s)
    \/ Stop \/ Unregistered \/ StopResume \/ Destroy

\* The safety specification: teardown is a property of every interleaving.
Spec == Init /\ [][Next]_vars

-----------------------------------------------------------------------------

\* Teardown is safe (lines 449-456): when the allocator is destroyed its
\* destructor's assert holds, the notifier no longer holds `this`, and no
\* create hook is suspended inside it.
SafeTeardown ==
    life = "destroyed" => stopped /\ ~listed /\ running = {}
==============================================================================
