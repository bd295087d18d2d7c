----------------------------- MODULE AmsUpload -----------------------------
(***************************************************************************)
(* `ags ams upload` from the packed archive on: the image record, the      *)
(* upload in one piece or in parts (one task per part, a semaphore for how *)
(* many run), finalize and complete.  A byte of the archive is its         *)
(* position, an ETag is the bytes it was given for, and the storage        *)
(* service joins the parts in the order finalize lists their ETags.        *)
(*                                                                         *)
(* put_file_range sends the whole range again after a timeout or a 5xx; it *)
(* is one step here, ending in what its last request ended in.             *)
(***************************************************************************)
EXTENDS Naturals, FiniteSets, SequencesExt

CONSTANTS
    Sizes,        \* bound: archive sizes
    Chunk,        \* MULTIPART_CHUNK_BYTES
    Concurrency   \* request.part_concurrency

UploadConstants ==
    /\ Sizes \subseteq Nat \ {0} /\ IsFiniteSet(Sizes)
    /\ Chunk \in Nat \ {0} /\ Concurrency \in Nat

VARIABLES
    size,      \* archive_bytes
    stage,     \* run_upload: the call it is in, or "returned"
    image,     \* the record in AMS: "none", "created" or "complete"
    object,    \* the bytes behind it
    task,      \* the task of each part
    etags,     \* by part number; <<>> is None
    outcome    \* what the command reports: "orphan" names the image

uploadVars == <<size, stage, image, object, task, etags, outcome>>

\* part_count
PartCount == IF size <= Chunk THEN 1 ELSE (size + Chunk - 1) \div Chunk
Parts == 1..PartCount

\* The bytes of a part's FileRange.
Bytes(p) ==
    LET offset == (p - 1) * Chunk
        rest   == size - offset
    IN  [i \in 1..(IF rest < Chunk THEN rest ELSE Chunk) |-> offset + i]

UploadInit ==
    /\ size \in Sizes
    /\ stage = "create"
    /\ image = "none"
    /\ object = <<>>
    /\ task = [p \in Parts |-> "none"]
    /\ etags = [p \in Parts |-> <<>>]
    /\ outcome = "none"

----------------------------------------------------------------------------
(* run_upload_with_chunk_size.                                             *)

Fails(how) == stage' = "returned" /\ outcome' = how

\* A call can fail although the service has done it: the answer is lost.
Create ==
    /\ stage = "create"
    /\ \/ /\ image' = "created"
          /\ stage' = IF PartCount > 1 THEN "initiate" ELSE "whole"
          /\ task' = IF PartCount > 1 THEN task ELSE [task EXCEPT ![1] = "presign"]
          /\ UNCHANGED outcome
       \/ Fails("error") /\ image' \in {"none", "created"} /\ UNCHANGED task
    /\ UNCHANGED <<size, object, etags>>

\* upload_whole, once its one transfer is over; an ETag is not needed.
Whole ==
    /\ stage = "whole"
    /\ \/ task[1] \in {"stored", "untagged"} /\ stage' = "complete" /\ UNCHANGED outcome
       \/ task[1] = "failed" /\ Fails("orphan")
    /\ UNCHANGED <<size, image, object, task, etags>>

\* upload_in_parts: the tasks are spawned.
Initiate ==
    /\ stage = "initiate"
    /\ \/ /\ task' = [p \in Parts |-> "queued"]
          /\ stage' = "join"
          /\ UNCHANGED outcome
       \/ Fails("orphan") /\ UNCHANGED task
    /\ UNCHANGED <<size, image, object, etags>>

\* Mutant: the ETags are listed in the order the parts complete.
JoinInOrder(p) ==
    /\ stage = "join" /\ task[p] = "stored"
    /\ task' = [task EXCEPT ![p] = "joined"]
    /\ etags' = [etags EXCEPT ![1 + Cardinality({q \in Parts : task[q] = "joined"})] = Bytes(p)]
    /\ UNCHANGED <<size, stage, image, object, outcome>>

\* join_next returns a finished task: its ETag goes to its part's place.
Join(p) ==
    /\ stage = "join" /\ task[p] = "stored"
    /\ task' = [task EXCEPT ![p] = "joined"]
    /\ etags' = [etags EXCEPT ![p] = Bytes(p)]
    /\ UNCHANGED <<size, stage, image, object, outcome>>

\* The first failure returns; dropping the JoinSet aborts the other tasks.
JoinFailed(p) ==
    /\ stage = "join" /\ task[p] \in {"failed", "untagged"}
    /\ Fails("orphan")
    /\ task' = [q \in Parts |-> IF task[q] \in {"joined", "stored"} THEN task[q] ELSE "failed"]
    /\ UNCHANGED <<size, image, object, etags>>

Finalize ==
    /\ stage = "join" /\ \A p \in Parts : task[p] = "joined"
    /\ \/ object' = FlattenSeq(etags) /\ stage' = "complete" /\ UNCHANGED outcome
       \/ object' \in {<<>>, FlattenSeq(etags)} /\ Fails("orphan")
    /\ UNCHANGED <<size, image, task, etags>>

Complete ==
    /\ stage = "complete"
    /\ \/ image' = "complete" /\ stage' = "returned" /\ outcome' = "uploaded"
       \/ image' \in {"created", "complete"} /\ Fails("orphan")
    /\ UNCHANGED <<size, object, task, etags>>

----------------------------------------------------------------------------
(* upload_part, and upload_whole's own transfer.                           *)

Running == {p \in Parts : task[p] \in {"presign", "put", "represign", "reput"}}

\* The semaphore; there is at least one permit.
Acquire(p) ==
    /\ task[p] = "queued"
    /\ Cardinality(Running) < (IF Concurrency = 0 THEN 1 ELSE Concurrency)
    /\ task' = [task EXCEPT ![p] = "presign"]
    /\ UNCHANGED <<size, stage, image, object, etags, outcome>>

Presign(p) ==
    /\ \/ task[p] = "presign" /\ task' = [task EXCEPT ![p] = "put"]
       \/ task[p] = "represign" /\ task' = [task EXCEPT ![p] = "reput"]
       \/ task[p] \in {"presign", "represign"} /\ task' = [task EXCEPT ![p] = "failed"]
    /\ UNCHANGED <<size, stage, image, object, etags, outcome>>

\* An expired signature is renewed once.  Without parts the PUT is the object.
Put(p) ==
    /\ task[p] \in {"put", "reput"}
    /\ \/ /\ task' \in {[task EXCEPT ![p] = t] : t \in {"stored", "untagged"}}
          /\ object' = IF stage = "whole" THEN Bytes(p) ELSE object
       \/ task[p] = "put" /\ task' = [task EXCEPT ![p] = "represign"] /\ UNCHANGED object
       \/ task' = [task EXCEPT ![p] = "failed"] /\ UNCHANGED object
    /\ UNCHANGED <<size, stage, image, etags, outcome>>

----------------------------------------------------------------------------
UploadNext ==
    \/ Create \/ Whole \/ Initiate \/ Finalize \/ Complete
    \/ \E p \in Parts : Join(p) \/ JoinFailed(p) \/ Acquire(p) \/ Presign(p) \/ Put(p)

UploadSpec == UploadInit /\ [][UploadNext]_uploadVars

\* An image that AMS lists as complete has the archive behind it, byte for byte:
\* no part is missing, short, long or out of place, in whatever order the parts
\* end, whichever are signed again, and however many tasks run at once.
ImageWhole == image = "complete" => object = [i \in 1..size |-> i]

============================================================================
