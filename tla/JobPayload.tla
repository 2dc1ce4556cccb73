----------------------------- MODULE JobPayload -----------------------------
(***************************************************************************)
(* What a handler is given: the payload of a job on its way from enqueue   *)
(* through the JSONB column and the driver to the handler.  JobQueue has   *)
(* the statements and their interleavings and leaves the payload out; here *)
(* one worker works on one job, and no statement fails.                    *)
(*                                                                         *)
(* A value of Python is its type and the keys of the object it stands for. *)
(***************************************************************************)
EXTENDS Naturals

CONSTANTS Keys,       \* keys that a payload may have
          MaxRetries  \* max_retries

VARIABLES
  kind,     \* job_type
  status,   \* column status, "none" before the INSERT
  attempt,  \* column attempt
  payload,  \* column payload: the keys of its object
  job       \* job.payload in the worker, or Nothing

payloadVars == <<kind, status, attempt, payload, job>>

BuiltIn == {"ping", "log_message", "database_backup"}

Dict(keys) == [type |-> "dict", keys |-> keys]
Str(keys)  == [type |-> "str", keys |-> keys]
Nothing    == [type |-> "None", keys |-> {}]

\* Only the empty dict is false: the text of {} is not.
Truthy(v) == v # Dict({}) /\ v # Nothing

\* asyncpg without a codec for jsonb: a value of the column is its text.
Fetched(keys) == Str(keys)

\* row["payload"] if row["payload"] else {}
FromRecord(v) == IF Truthy(v) THEN v ELSE Dict({})

\* {**payload} of ping and payload.get of the others take a mapping only.
Accepts(v) == v.type = "dict"

-----------------------------------------------------------------------------
PayloadInit == /\ kind \in BuiltIn
               /\ status = "none" /\ attempt = 0 /\ payload = {} /\ job = Nothing

\* enqueue: json.dumps(payload or {}), cast to jsonb.
EnqueuePayload ==
  /\ status = "none"
  /\ payload' \in SUBSET Keys
  /\ status' = "pending"
  /\ UNCHANGED <<kind, attempt, job>>

\* claim_next: the row comes back from the driver and becomes a Job.
ClaimPayload ==
  /\ status = "pending"
  /\ status' = "running" /\ attempt' = attempt + 1
  /\ job' = FromRecord(Fetched(payload))
  /\ UNCHANGED <<kind, payload>>

\* _execute: the handler returns, and mark_completed.
HandlerAccepts ==
  /\ status = "running" /\ Accepts(job)
  /\ status' = "completed" /\ job' = Nothing
  /\ UNCHANGED <<kind, attempt, payload>>

\* The handler raises, on a payload it cannot use or, the backup, for reasons
\* of its own; mark_failed.
HandlerRejects ==
  /\ status = "running" /\ (~Accepts(job) \/ kind = "database_backup")
  /\ status' = IF attempt < MaxRetries THEN "pending" ELSE "failed"
  /\ job' = Nothing
  /\ UNCHANGED <<kind, attempt, payload>>

PayloadNext == EnqueuePayload \/ ClaimPayload \/ HandlerAccepts \/ HandlerRejects
PayloadSpec == PayloadInit /\ [][PayloadNext]_payloadVars

-----------------------------------------------------------------------------
\* The guide's ping returns the payload it was enqueued with: nothing in it can
\* fail, and so the job never ends as failed.
PingsAnswered == kind = "ping" => status # "failed"
=============================================================================
