--------------------------------- MODULE DD ---------------------------------
(* The DD commands (dd.go, dd_operation.go, dd_upload.go,                     *)
(* dd_backup_upload.go, dd_backup_resume.go, dd_backup_delete.go). The object *)
(* a form refers to is uploaded under a receipt and a lease of its own: kind  *)
(* "dd_object".                                                               *)
EXTENDS Publishing

(* The program that made the request goes on; "run" again changes nothing.    *)
DDActs(p) == Open(p) /\ Command(p, {"run"}) /\ prog[p].checked
DDUnconfirmed(p, c) == Has(p, c, "uncertain") \/ Has(p, c, "submitted")

(* ddUpload: a PUT without an answer is never repeated and never read back.   *)
DDUpload(p) ==
    /\ kind = "dd_object" /\ New(p)
    /\ Intend(p, Post, FreshReceipt(MayMake))

DDUploaded(p) ==
    /\ kind = "dd_object" /\ Answered(p)
    /\ Save(p, Complete(prog[p].copy))

(* ddMutationRun: the request is saved once before it is marked uncertain.    *)
DDRecord(p) ==
    /\ kind = "dd_change" /\ New(p)
    /\ Create(p, FreshReceipt(MayMake))

DDSubmit(p) ==
    /\ kind = "dd_change" /\ DDActs(p) /\ Has(p, Post, "unsent")
    /\ Intend(p, Post, prog[p].copy)

DDAcknowledge(p) ==
    /\ kind = "dd_change" /\ Answered(p)
    /\ Save(p, Mark(prog[p].copy, Post, "submitted"))

(* ddVerify, called by the command that posted and by "operation verify",     *)
(* which loaded the receipt without the lease.                                *)
DDVerify(p) ==
    /\ kind = "dd_change" /\ Open(p)
    /\ (Command(p, {"verify"}) /\ DDUnconfirmed(p, Post))
           \/ (DDActs(p) /\ Has(p, Post, "submitted"))
    /\ Stored(Post)
    /\ Save(p, Complete(prog[p].copy))

(* ddMutationFailure; of a component's PUT and of an object's there is no     *)
(* verdict.                                                                   *)
DDReject(p) ==
    /\ kind \in {"dd_change", "dd_backup", "dd_delete"} /\ Refused(p)
    /\ prog[p].call \notin Puts
    /\ Save(p, Close(prog[p].copy, "rejected"))
-----------------------------------------------------------------------------
(* ddBackupUpload and ddContinueBackup: the platform allocates a backup and   *)
(* names the components it lacks, they are uploaded, the backup is finished   *)
(* and renamed. Without the answer to the allocation nothing can continue.    *)
DDContinues(p) ==
    kind = "dd_backup" /\ Open(p) /\ (Command(p, {"resume"}) \/ DDActs(p))

DDAllocate(p) ==
    /\ kind = "dd_backup" /\ New(p)
    /\ \E unnamed \in SUBSET {Rename} :
           Intend(p, Allocate, FreshReceipt(MayMake \ unnamed))

DDAllocated(p) ==
    /\ kind = "dd_backup" /\ Answered(p) /\ Does(p, Allocate)
    /\ Save(p, Settle(prog[p].copy, Allocate))

DDNext(p, i) ==
    /\ DDContinues(p) /\ Has(p, Allocate, "settled")
    /\ \A j \in Files : j < i => Done(prog[p].copy, {Put(j)})

(* The platform asks for no upload of a component it has.                     *)
DDComponentSpared(p, i) ==
    /\ DDNext(p, i) /\ Has(p, Put(i), "unsent")
    /\ Save(p, Mark(prog[p].copy, Put(i), "spared"))

DDComponentPut(p, i) ==
    /\ DDNext(p, i) /\ Has(p, Put(i), "unsent")
    /\ Intend(p, Put(i), prog[p].copy)

DDComponentDone(p) ==
    /\ kind = "dd_backup" /\ Answered(p) /\ prog[p].call \in Puts
    /\ Save(p, Settle(prog[p].copy, prog[p].call))

(* A PUT found uncertain is settled by the bytes that are there.              *)
DDComponentFound(p, i) ==
    /\ DDNext(p, i) /\ Has(p, Put(i), "uncertain") /\ Stored(Put(i))
    /\ Save(p, Settle(prog[p].copy, Put(i)))

DDFinish(p) ==
    /\ DDContinues(p) /\ Done(prog[p].copy, Puts \union {Allocate})
    /\ Has(p, Finish, "unsent")
    /\ Intend(p, Finish, prog[p].copy)

DDFinished(p) ==
    /\ kind = "dd_backup"
    /\ (Answered(p) /\ Does(p, Finish))
           \/ (DDContinues(p) /\ Has(p, Finish, "uncertain") /\ Stored(Finish))
    /\ Save(p, Mark(prog[p].copy, Finish, "submitted"))

DDRename(p) ==
    /\ DDContinues(p) /\ Has(p, Finish, "submitted") /\ Has(p, Rename, "unsent")
    /\ Intend(p, Rename, prog[p].copy)

DDRenamed(p) ==
    /\ kind = "dd_backup" /\ Answered(p) /\ Does(p, Rename)
    /\ Save(p, Mark(prog[p].copy, Rename, "submitted"))

(* ddVerifyBackup: the backup is listed, has the content and the name. A      *)
(* command that continues comes here after the rename; "operation verify" as  *)
(* soon as the backup may be finished.                                        *)
DDVerifyBackup(p) ==
    /\ kind = "dd_backup" /\ Open(p)
    /\ (Command(p, {"verify"}) /\ DDUnconfirmed(p, Finish))
           \/ (DDContinues(p) /\ Has(p, Finish, "submitted")
                              /\ ~Has(p, Rename, "unsent"))
    /\ Stored(Finish) /\ (Has(p, Rename, "spared") \/ Stored(Rename))
    /\ Save(p, Complete(prog[p].copy))
-----------------------------------------------------------------------------
(* ddDeleteBackups, for "delete-many", "operation resume" and, reading only,  *)
(* "operation verify": all under the lease.                                   *)
DDDeletePrepare(p) ==
    /\ kind = "dd_delete" /\ New(p)
    /\ \A c \in Deletes : ~Stored(c)
    /\ Create(p, FreshReceipt(MayMake))

DDDelete(p, i) ==
    /\ kind = "dd_delete" /\ Open(p) /\ Command(p, {"run", "resume"})
    /\ Has(p, Delete(i), "unsent") /\ ~Stored(Delete(i))
    /\ \A j \in Files : j < i => Has(p, Delete(j), "settled")
    /\ Intend(p, Delete(i), prog[p].copy)

DDDeleteFound(p, i) ==
    /\ kind = "dd_delete" /\ (Open(p) \/ (Answered(p) /\ Does(p, Delete(i))))
    /\ Has(p, Delete(i), "uncertain") /\ Stored(Delete(i))
    /\ Save(p, Settle(prog[p].copy, Delete(i)))

DDDeleted(p) ==
    /\ kind = "dd_delete" /\ Open(p) /\ Done(prog[p].copy, Deletes)
    /\ Save(p, Complete(prog[p].copy))

DDStep(p) ==
    \/ DDUpload(p) \/ DDUploaded(p) \/ DDRecord(p) \/ DDSubmit(p)
    \/ DDAcknowledge(p) \/ DDVerify(p) \/ DDReject(p) \/ DDAllocate(p)
    \/ DDAllocated(p) \/ DDComponentDone(p) \/ DDFinish(p) \/ DDFinished(p)
    \/ DDRename(p) \/ DDRenamed(p) \/ DDVerifyBackup(p) \/ DDDeletePrepare(p)
    \/ DDDeleted(p)
    \/ \E i \in Files : \/ DDComponentSpared(p, i) \/ DDComponentPut(p, i)
                        \/ DDComponentFound(p, i) \/ DDDelete(p, i)
                        \/ DDDeleteFound(p, i)
=============================================================================
