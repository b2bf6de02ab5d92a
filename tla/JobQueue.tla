------------------------------ MODULE JobQueue ------------------------------
(***************************************************************************)
(* threads/rwlock.c: a queue of jobs as a doubly linked list under a       *)
(* reader-writer lock.  Each function holds the lock throughout: it is one *)
(* step.                                                                   *)
(***************************************************************************)
EXTENDS Naturals, Sequences, SequencesExt

CONSTANTS
    Jobs,
    NULL

VARIABLES
    q_head, q_tail,     \* the queue
    j_next, j_prev,     \* the links of each job
    order,              \* history: the jobs that are in the queue, in order
    mark                \* history: the tail was removed from behind another job

jobVars == <<q_head, q_tail, j_next, j_prev, order, mark>>

ASSUME NullAssumption == NULL \notin Jobs

queue_init ==
    /\ q_head = NULL /\ q_tail = NULL
    /\ j_next = [j \in Jobs |-> NULL] /\ j_prev = [j \in Jobs |-> NULL]
    /\ order = <<>> /\ mark = FALSE

Queued(j)  == j \in ToSet(order)
Without(j) == RemoveAt(order, CHOOSE n \in DOMAIN order : order[n] = j)

job_insert(j) ==
    /\ ~Queued(j)
    /\ j_next' = [j_next EXCEPT ![j] = q_head]
    /\ j_prev' = [x \in Jobs |-> IF x = j THEN NULL ELSE IF x = q_head THEN j ELSE j_prev[x]]
    /\ q_tail' = IF q_head = NULL THEN j ELSE q_tail
    /\ q_head' = j
    /\ order' = <<j>> \o order /\ UNCHANGED mark

job_append(j) ==
    /\ ~Queued(j)
    /\ j_prev' = [j_prev EXCEPT ![j] = q_tail]
    /\ j_next' = [x \in Jobs |-> IF x = j THEN NULL ELSE IF x = q_tail THEN j ELSE j_next[x]]
    /\ q_head' = IF q_tail = NULL THEN j ELSE q_head
    /\ q_tail' = j
    /\ order' = Append(order, j) /\ UNCHANGED mark

\* job_remove of the head, of the tail, and of a job in the middle.  Head
\* and tail are moved; the links of the job that is now first or last stay.
RemoveHead(j) ==
    /\ Queued(j) /\ j = q_head
    /\ q_head' = j_next[j]
    /\ q_tail' = IF q_tail = j THEN NULL ELSE q_tail
    /\ order' = Without(j)
    /\ UNCHANGED <<j_next, j_prev, mark>>

RemoveTail(j) ==
    /\ Queued(j) /\ j # q_head /\ j = q_tail
    /\ q_tail' = j_prev[j]
    /\ order' = Without(j) /\ mark' = TRUE
    /\ UNCHANGED <<j_next, j_prev, q_head>>

MutOneLink(j) ==
    /\ Queued(j) /\ j \notin {q_head, q_tail} /\ {j_prev[j], j_next[j]} \subseteq Jobs
    /\ j_next' = [j_next EXCEPT ![j_prev[j]] = j_next[j]]
    /\ order' = Without(j)
    /\ UNCHANGED <<j_prev, q_head, q_tail, mark>>

RemoveMiddle(j) ==
    /\ Queued(j) /\ j \notin {q_head, q_tail} /\ {j_prev[j], j_next[j]} \subseteq Jobs
    /\ j_next' = [j_next EXCEPT ![j_prev[j]] = j_next[j]]
    /\ j_prev' = [j_prev EXCEPT ![j_next[j]] = j_prev[j]]
    /\ order' = Without(j)
    /\ UNCHANGED <<q_head, q_tail, mark>>

JobNext ==
    \E j \in Jobs : \/ job_insert(j) \/ job_append(j)
                    \/ RemoveHead(j) \/ RemoveTail(j) \/ RemoveMiddle(j)

\* The walk of job_find: the job at its n-th step.
Walk[n \in Nat] ==
    IF n = 0 THEN q_head ELSE IF Walk[n - 1] = NULL THEN NULL ELSE j_next[Walk[n - 1]]

-----------------------------------------------------------------------------
\* As long as no tail was removed from behind another job, job_find's walk sees
\* all queued jobs in their order and ends behind the last, and the
\* other direction agrees, however jobs are inserted, appended and removed at
\* the head and in the middle, in any number, and stale links are met again.
WalkSound ==
    mark \/ /\ \A n \in 1 .. Len(order) : Walk[n - 1] = order[n]
            /\ Walk[Len(order)] = NULL
            /\ \A n \in 2 .. Len(order) : j_prev[order[n]] = order[n - 1]
            /\ q_tail = IF order = <<>> THEN NULL ELSE Last(order)

=============================================================================
