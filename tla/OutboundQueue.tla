---------------------------- MODULE OutboundQueue ----------------------------
(***************************************************************************)
(* Scripts/boundary/outbound.lua: requests to the host are staged while a  *)
(* command runs and handed over when it has been committed and its facts   *)
(* delivered.  Control requests and presentation effects wait in two queues *)
(* that the same calls run in the same way; here they are one queue.       *)
(***************************************************************************)
EXTENDS Integers, Sequences

CONSTANTS
    Requests,    \* records with the field "by", the command that made it
    MaxRequests  \* MAX_QUEUE_SIZE

VARIABLES
    staging,   \* staged_requests is not nil
    staged,
    committed  \* committed_requests

outboundVars == <<staging, staged, committed>>

OutboundInit == staging = FALSE /\ staged = <<>> /\ committed = <<>>

BeginStaging ==
    /\ staging' = TRUE
    /\ staged' = <<>>
    /\ UNCHANGED committed

HasRoom == Len(IF staging THEN staged ELSE committed) < MaxRequests

\* Mutant: a request is handed over before its command is committed.
RequestAtOnce(req) ==
    /\ HasRoom
    /\ committed' = Append(committed, req)
    /\ UNCHANGED <<staging, staged>>

\* request_save, publish_effect
Request(req) ==
    /\ HasRoom
    /\ IF staging
       THEN staged' = Append(staged, req) /\ UNCHANGED committed
       ELSE committed' = Append(committed, req) /\ UNCHANGED staged
    /\ UNCHANGED staging

\* commit_command_context: what does not fit is dropped
CommitStaged ==
    /\ committed' = SubSeq(committed \o staged, 1,
                           IF Len(committed \o staged) < MaxRequests
                           THEN Len(committed \o staged) ELSE MaxRequests)
    /\ staging' = FALSE
    /\ staged' = <<>>

\* rollback_command_context, discard_command_context
DropStaged ==
    /\ staging' = FALSE
    /\ staged' = <<>>
    /\ UNCHANGED committed

\* take_pending_requests
TakeRequests ==
    /\ committed' = <<>>
    /\ UNCHANGED <<staging, staged>>

OutboundType ==
    /\ staging \in BOOLEAN
    /\ staged \in Seq(Requests)
    /\ committed \in Seq(Requests)
=============================================================================
