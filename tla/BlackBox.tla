------------------------------ MODULE BlackBox ------------------------------
(* The BlackBox commands (blackbox_operation.go, blackbox_write.go,           *)
(* blackbox_verify.go, blackbox_cos.go, blackbox_backup.go). "run" again does *)
(* what "operation resume" does. What is uploaded is copied beside the        *)
(* receipt first, by files that must not exist yet.                           *)
EXTENDS Publishing

BBChange == kind \in {"bb_edit", "bb_create"}
BBKinds == {"bb_edit", "bb_create", "bb_backup", "bb_delete", "bb_rename"}
BBSteps == MayMake \intersect (Deletes \union {Rename})
BBContinues(p) == Open(p) /\ Command(p, {"run", "resume"})
BBUnconfirmed(p, c) == Has(p, c, "uncertain") \/ Has(p, c, "submitted")

(* bbSnapshot, bbBackupCopy                                                   *)
BBSnapshot(p) ==
    /\ kind \in {"bb_edit", "bb_create", "bb_backup"} /\ New(p) /\ local = "none"
    /\ PrepareFiles(p, "made", FreshReceipt(MayMake))

BBPrepare(p) ==
    \/ /\ Preparing(p) /\ kind \in BBKinds
       /\ Create(p, prog[p].copy)
    \/ /\ BBChange /\ New(p)
       /\ Create(p, FreshReceipt(MayMake \ {Binary}))
    \/ /\ kind \in {"bb_delete", "bb_rename"} /\ New(p)
       /\ kind = "bb_delete" => \A c \in Deletes : ~Stored(c)
       /\ Create(p, FreshReceipt(MayMake))

(* uploadModule: an upload found uncertain is settled by its length and hash. *)
BBUpload(p) ==
    /\ BBChange /\ BBContinues(p) /\ Has(p, Binary, "unsent")
    /\ Intend(p, Binary, prog[p].copy)

BBUploaded(p) ==
    /\ BBChange
    /\ (Answered(p) /\ Does(p, Binary))
           \/ (BBContinues(p) /\ Has(p, Binary, "uncertain") /\ Stored(Binary))
    /\ Save(p, Settle(prog[p].copy, Binary))

BBPost(p) ==
    /\ BBChange /\ BBContinues(p)
    /\ Done(prog[p].copy, {Binary}) /\ Has(p, Post, "unsent")
    /\ Intend(p, Post, prog[p].copy)

(* The answer to a change, to a step of a deletion or rename, or to the save  *)
(* of a backup.                                                               *)
BBSubmitted(p) ==
    /\ kind \in BBKinds /\ Answered(p)
    /\ prog[p].call \in {Post, Finish, Rename} \union Deletes
    /\ Save(p, Mark(prog[p].copy, prog[p].call, "submitted"))

(* writeFailure; the storage gives no verdict.                                *)
BBReject(p) ==
    /\ kind \in BBKinds /\ Refused(p)
    /\ prog[p].call \notin Puts \union {Binary}
    /\ Save(p, Close(prog[p].copy, "rejected"))

(* verify, for a change; called by every command once the call may be made.   *)
BBVerify(p) ==
    /\ BBChange /\ Open(p)
    /\ BBUnconfirmed(p, Post) /\ Shows(Post)
    /\ Save(p, Complete(prog[p].copy))
-----------------------------------------------------------------------------
(* continueBackup of a deletion or a rename: one step after the other, each   *)
(* confirmed before the next.                                                 *)
BBStepPost(p, c) ==
    /\ kind \in BBKinds /\ BBContinues(p)
    /\ c \in BBSteps /\ Has(p, c, "unsent")
    /\ \A d \in BBSteps : d[2] < c[2] => Has(p, d, "settled")
    /\ kind = "bb_delete" => ~Stored(c)
    /\ Intend(p, c, prog[p].copy)

BBStepVerified(p, c) ==
    /\ kind \in BBKinds /\ BBContinues(p)
    /\ c \in BBSteps /\ BBUnconfirmed(p, c) /\ Stored(c)
    /\ Save(p, Settle(prog[p].copy, c))

(* verifyBackup: every step was made and every step shows.                    *)
BBStepsVerified(p) ==
    /\ kind \in {"bb_delete", "bb_rename"} /\ Open(p)
    /\ \A c \in BBSteps : ~Has(p, c, "unsent") /\ Stored(c)
    /\ Command(p, {"verify"}) \/ Done(prog[p].copy, BBSteps)
    /\ Save(p, Complete(prog[p].copy))
-----------------------------------------------------------------------------
(* continueBackup of an upload: without the answer to the allocation nothing  *)
(* continues; the archives; the save that makes the backup visible.           *)
BBAllocate(p) ==
    /\ kind = "bb_backup" /\ BBContinues(p) /\ Has(p, Allocate, "unsent")
    /\ Intend(p, Allocate, prog[p].copy)

BBAllocated(p) ==
    /\ kind = "bb_backup" /\ Answered(p) /\ Does(p, Allocate)
    /\ Save(p, Settle(prog[p].copy, Allocate))

BBArchives(p, i) ==
    /\ kind = "bb_backup" /\ BBContinues(p) /\ Has(p, Allocate, "settled")
    /\ \A j \in Files : j < i => Has(p, Put(j), "settled")

BBArchivePut(p, i) ==
    /\ BBArchives(p, i) /\ Has(p, Put(i), "unsent")
    /\ Intend(p, Put(i), prog[p].copy)

\* Mutation of BBArchiveDone: an upload found uncertain counts as made.
BBArchiveDoneUnseen(p, i) ==
    /\ kind = "bb_backup"
    /\ (Answered(p) /\ Does(p, Put(i)))
           \/ (BBArchives(p, i) /\ Has(p, Put(i), "uncertain"))
    /\ Save(p, Settle(prog[p].copy, Put(i)))

BBArchiveDone(p, i) ==
    /\ kind = "bb_backup"
    /\ (Answered(p) /\ Does(p, Put(i)))
           \/ (BBArchives(p, i) /\ Has(p, Put(i), "uncertain") /\ Stored(Put(i)))
    /\ Save(p, Settle(prog[p].copy, Put(i)))

BBSave(p) ==
    /\ kind = "bb_backup" /\ BBContinues(p)
    /\ Done(prog[p].copy, Puts \union {Allocate}) /\ Has(p, Finish, "unsent")
    /\ Intend(p, Finish, prog[p].copy)

BBVerifyBackup(p) ==
    /\ kind = "bb_backup" /\ Open(p)
    /\ BBUnconfirmed(p, Finish) /\ Stored(Finish)
    /\ Save(p, Complete(prog[p].copy))

BBStep(p) ==
    \/ BBSnapshot(p) \/ BBPrepare(p) \/ BBUpload(p) \/ BBUploaded(p) \/ BBPost(p)
    \/ BBSubmitted(p) \/ BBReject(p) \/ BBVerify(p) \/ BBStepsVerified(p)
    \/ BBAllocate(p) \/ BBAllocated(p) \/ BBSave(p) \/ BBVerifyBackup(p)
    \/ \E c \in Calls : BBStepPost(p, c) \/ BBStepVerified(p, c)
    \/ \E i \in Files : BBArchivePut(p, i) \/ BBArchiveDone(p, i)
=============================================================================
