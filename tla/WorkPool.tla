------------------------------ MODULE WorkPool ------------------------------
(***************************************************************************)
(* What the thread pool of bulk_extractor promises to its callers, with    *)
(* threads, locks and condition variables abstracted away: a task that is  *)
(* handed over is completed once, tasks may be handed over by the producer *)
(* or on behalf of a task that is still pending, and the final join comes  *)
(* back only when nothing is pending and nothing can become pending again. *)
(***************************************************************************)

CONSTANT Tasks          \* the work units that may ever be handed over

VARIABLES pending,      \* handed over and not completed
          done,         \* completed
          closed        \* the pool has been joined

poolVars == <<pending, done, closed>>

PoolTypeOK == /\ pending \subseteq Tasks
              /\ done \subseteq Tasks
              /\ closed \in BOOLEAN

PoolInit == /\ pending = {}
            /\ done = {}
            /\ closed = FALSE

Submit(t) == /\ ~closed
             /\ t \notin pending \union done
             /\ pending' = pending \union {t}
             /\ UNCHANGED <<done, closed>>

Complete(t) == /\ t \in pending
               /\ pending' = pending \ {t}
               /\ done' = done \union {t}
               /\ UNCHANGED closed

Close == /\ pending = {}
         /\ closed' = TRUE
         /\ UNCHANGED <<pending, done>>

PoolNext == \/ \E t \in Tasks : Submit(t) \/ Complete(t)
            \/ Close

PoolSpec == PoolInit /\ [][PoolNext]_poolVars
=============================================================================
