------------------------------- MODULE NewBee -------------------------------
(* The NewBee Creator commands and the official command-line tool             *)
(* (newbee_creator_run.go, newbee_recovery.go, newbee_official.go,            *)
(* newbee_backup_delete.go, newbee_backup_upload.go).                         *)
EXTENDS Publishing

NBWrite == kind \in {"nb_edit", "nb_create", "nb_official"}
NBCreator == kind \in {"nb_edit", "nb_create"}

NBSubmit(p) ==
    /\ NBWrite /\ New(p)
    /\ Intend(p, Post, FreshReceipt(MayMake))

NBAccept(p) ==
    /\ NBCreator /\ Answered(p)
    /\ Save(p, Mark(prog[p].copy, Post, "submitted"))

NBReject(p) ==
    /\ NBCreator /\ Refused(p)
    /\ Save(p, Close(prog[p].copy, "rejected"))

(* The command that posted reads back at once.                                *)
NBReadBack(p) ==
    /\ NBCreator /\ Open(p) /\ Command(p, {"run"}) /\ prog[p].checked
    /\ Has(p, Post, "submitted") /\ Stored(Post)
    /\ Save(p, Complete(prog[p].copy))

(* verifyOriginal: what was created is found only through the answer in the   *)
(* receipt, what was edited also without it.                                  *)
NBVerify(p) ==
    /\ NBCreator /\ Open(p) /\ Command(p, {"verify"})
    /\ \/ Has(p, Post, "submitted")
       \/ kind = "nb_edit" /\ Has(p, Post, "uncertain")
    /\ Stored(Post)
    /\ Save(p, Complete(prog[p].copy))

(* The official tool's exit is the verdict; there is no readback.             *)
NBOfficial(p) ==
    /\ kind = "nb_official" /\ Answered(p)
    /\ Save(p, Complete(prog[p].copy))
-----------------------------------------------------------------------------
(* Backup deletion. A deletion left uncertain is settled by the absence of    *)
(* the item before anything else; an item that is still there stops the       *)
(* command.                                                                   *)
NBRemaining(p) ==
    IF prog[p].copy = None THEN Deletes
                           ELSE Those(prog[p].copy, Deletes, "unsent")
NBDeleted(r) == IF Done(r, Deletes) THEN Complete(r) ELSE r
NBDeletes(p) ==
    /\ kind = "nb_delete" /\ InTurn(p) /\ Command(p, {"run"})
    /\ New(p) \/ (Holding(p) /\ Those(prog[p].copy, Deletes, "uncertain") = {})

NBFindAbsent(p) ==
    /\ kind = "nb_delete" /\ Open(p) /\ Command(p, {"run"})
    /\ \E c \in Those(prog[p].copy, Deletes, "uncertain") :
           /\ Stored(c)
           /\ Save(p, NBDeleted(Settle(prog[p].copy, c)))

(* All that remain are present and unreferenced before the first goes.        *)
NBPreview(p) ==
    /\ NBDeletes(p) /\ ~prog[p].checked
    /\ \A c \in NBRemaining(p) : ~Stored(c)
    /\ Check(p)

NBDelete(p, i) ==
    /\ NBDeletes(p) /\ prog[p].checked
    /\ Delete(i) \in NBRemaining(p) /\ ~Stored(Delete(i))
    /\ \A j \in Files : j < i => Delete(j) \notin NBRemaining(p)
    /\ Intend(p, Delete(i), IF prog[p].copy = None THEN FreshReceipt(MayMake)
                                                   ELSE prog[p].copy)

(* After the answer the item must be gone from the list.                      *)
NBDeleteDone(p) ==
    /\ kind = "nb_delete" /\ Answered(p) /\ Stored(prog[p].call)
    /\ Save(p, NBDeleted(Settle(prog[p].copy, prog[p].call)))

NBDeleteReject(p) ==
    /\ kind = "nb_delete" /\ Refused(p)
    /\ Save(p, Close(prog[p].copy, "rejected"))
-----------------------------------------------------------------------------
(* Backup upload: objects one after the other, the backup, its name. A        *)
(* command stops at once when it finds an object upload that may have been    *)
(* made.                                                                      *)
NBUpload(p) == kind = "nb_backup" /\ Open(p) /\ Command(p, {"run"})

(* The backups that exist are listed before anything is sent.                 *)
NBBackupPrepare(p) ==
    /\ kind = "nb_backup" /\ New(p)
    /\ \E unnamed \in SUBSET {Rename} :
           Create(p, FreshReceipt(MayMake \ unnamed))

NBBackupPut(p, i) ==
    /\ NBUpload(p) /\ Has(p, Put(i), "unsent")
    /\ \A j \in Files : j < i => Has(p, Put(j), "settled")
    /\ Intend(p, Put(i), prog[p].copy)

NBBackupPutDone(p) ==
    /\ kind = "nb_backup" /\ Answered(p) /\ prog[p].call \in Puts
    /\ Save(p, Settle(prog[p].copy, prog[p].call))

NBBackupCreate(p) ==
    /\ NBUpload(p) /\ Done(prog[p].copy, Puts) /\ Has(p, Post, "unsent")
    /\ Intend(p, Post, prog[p].copy)

(* The one backup that was not there before and has this content.             *)
NBBackupFind(p) ==
    /\ NBUpload(p) \/ (kind = "nb_backup" /\ Answered(p))
    /\ Has(p, Post, "uncertain") /\ Shows(Post)
    /\ Save(p, Settle(prog[p].copy, Post))

NBBackupRename(p) ==
    /\ NBUpload(p) /\ Has(p, Post, "settled") /\ Has(p, Rename, "unsent")
    /\ Intend(p, Rename, prog[p].copy)

NBBackupRenamed(p) ==
    /\ kind = "nb_backup" /\ Answered(p) /\ Does(p, Rename)
    /\ Save(p, Mark(prog[p].copy, Rename, "submitted"))

(* A rename found uncertain is not sent again, only read back.                *)
NBBackupComplete(p) ==
    /\ NBUpload(p) /\ Has(p, Post, "settled") /\ ~Has(p, Rename, "unsent")
    /\ Has(p, Rename, "spared") \/ Stored(Rename)
    /\ Save(p, Complete(prog[p].copy))

NBBackupReject(p) ==
    /\ kind = "nb_backup" /\ Refused(p)
    /\ Save(p, Close(prog[p].copy, "rejected"))

NBStep(p) ==
    \/ NBSubmit(p) \/ NBAccept(p) \/ NBReject(p) \/ NBReadBack(p) \/ NBVerify(p)
    \/ NBOfficial(p) \/ NBFindAbsent(p) \/ NBPreview(p) \/ NBDeleteDone(p)
    \/ NBDeleteReject(p) \/ NBBackupPrepare(p) \/ NBBackupPutDone(p)
    \/ NBBackupCreate(p) \/ NBBackupFind(p) \/ NBBackupRename(p)
    \/ NBBackupRenamed(p) \/ NBBackupComplete(p) \/ NBBackupReject(p)
    \/ \E i \in Files : NBDelete(p, i) \/ NBBackupPut(p, i)
=============================================================================
