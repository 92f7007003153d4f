-------------------------------- MODULE ModUs -------------------------------
(* The ModUs commands (modus_operation.go, modus_write.go,                    *)
(* modus_main_write.go, modus_backup.go, modus_backup_upload.go,              *)
(* modus_backup_changes.go).                                                  *)
EXTENDS Publishing

MURequest == kind \in {"modus_change", "modus_release"}
MUBackup == kind \in {"modus_backup", "modus_rename", "modus_delete"}
MUUnconfirmed(p, c) == Has(p, c, "uncertain") \/ Has(p, c, "submitted")
MUVerifies(p) == Open(p) /\ Command(p, {"verify"})

(* A change goes on in the command that made it or by "resume", while none of *)
(* its calls is uncertain.                                                    *)
MUContinues(p) ==
    /\ MURequest /\ Open(p)
    /\ Command(p, {"resume"}) \/ (Command(p, {"run"}) /\ prog[p].checked)
    /\ Those(prog[p].copy, Calls, "uncertain") = {}

(* A release has an archive, an edited one may have; only a new one needs a   *)
(* number.                                                                    *)
MUNew(p) ==
    /\ MURequest \/ MUBackup
    /\ New(p)
    /\ \E spared \in IF kind = "modus_release"
                     THEN {{}, {Reserve}, {Reserve, Binary}} ELSE {{}} :
           Create(p, FreshReceipt(MayMake \ spared))

(* continueOperation, continueMain, continueMedia, continueRelease            *)
MUPost(p) ==
    /\ kind = "modus_change" /\ MUContinues(p) /\ Has(p, Post, "unsent")
    /\ Intend(p, Post, prog[p].copy)

MUReserve(p) ==
    /\ kind = "modus_release" /\ MUContinues(p) /\ Has(p, Reserve, "unsent")
    /\ Intend(p, Reserve, prog[p].copy)

MUReserved(p) ==
    /\ MURequest /\ Answered(p) /\ Does(p, Reserve)
    /\ Save(p, Settle(prog[p].copy, Reserve))

MUMetadata(p) ==
    /\ kind = "modus_release" /\ MUContinues(p)
    /\ Done(prog[p].copy, {Reserve}) /\ Has(p, Metadata, "unsent")
    /\ Intend(p, Metadata, prog[p].copy)

MUBinary(p) ==
    /\ kind = "modus_release" /\ MUContinues(p)
    /\ Has(p, Metadata, "submitted") /\ Has(p, Binary, "unsent")
    /\ Intend(p, Binary, prog[p].copy)

MUSubmitted(p) ==
    /\ MURequest /\ Answered(p) /\ prog[p].call \in {Post, Metadata, Binary}
    /\ Save(p, Mark(prog[p].copy, prog[p].call, "submitted"))

(* modusWriteFailure, modusBackupWriteFailure; the object storage gives no    *)
(* verdict.                                                                   *)
MUReject(p) ==
    /\ MURequest \/ MUBackup
    /\ Refused(p) /\ prog[p].call \notin Puts \union {Binary}
    /\ Save(p, Close(prog[p].copy, "rejected"))

(* verifyOperation, verifyMain: by "verify" once a call may have been made,   *)
(* and by the command that has made all of them.                              *)
MUVerify(p) ==
    /\ kind = "modus_change"
    /\ (MUVerifies(p) /\ MUUnconfirmed(p, Post))
           \/ (MUContinues(p) /\ Has(p, Post, "submitted"))
    /\ Stored(Post)
    /\ Save(p, Complete(prog[p].copy))

MUVerifyMetadata(p) ==
    /\ kind = "modus_release" /\ MUVerifies(p)
    /\ Has(p, Metadata, "uncertain") /\ ~Has(p, Binary, "spared")
    /\ Stored(Metadata)
    /\ Save(p, Mark(prog[p].copy, Metadata, "submitted"))

MUVerifyRelease(p) ==
    /\ kind = "modus_release"
    /\ \/ /\ MUVerifies(p)
          /\ \/ Has(p, Metadata, "submitted")
             \/ Has(p, Metadata, "uncertain") /\ Has(p, Binary, "spared")
       \/ /\ MUContinues(p)
          /\ Has(p, Metadata, "submitted") /\ ~Has(p, Binary, "unsent")
    /\ Stored(Metadata) /\ (Has(p, Binary, "spared") \/ Stored(Binary))
    /\ Save(p, Complete(prog[p].copy))
-----------------------------------------------------------------------------
(* Backups: "run" again, "resume" and "verify" all go through the same        *)
(* function; "verify" makes no call.                                          *)
MUActs(p) == MUBackup /\ Open(p) /\ Command(p, {"run", "resume"})

(* The manifest is claimed by a file that must not exist yet and is written   *)
(* after it was made; the request's own claim is recognised by its content.   *)
MUClaim(p) ==
    /\ kind = "modus_backup" /\ MUActs(p) /\ local = "none"
    /\ PrepareFiles(p, "made", prog[p].copy)

MUClaimed(p) ==
    /\ kind = "modus_backup" /\ Preparing(p)
    /\ local' = "whole"
    /\ prog' = [prog EXCEPT ![p].pc = "turn"]
    /\ UNCHANGED <<kind, receipt, holder, remote>>

(* Fonts the platform has need no upload.                                     *)
MUFontLookup(p) ==
    /\ kind = "modus_backup" /\ MUActs(p) /\ local = "whole"
    /\ \A c \in Puts : Has(p, c, "unsent")
    /\ \E F \in (SUBSET Files) \ {{}} :
           Save(p, [prog[p].copy EXCEPT !.says =
                        [c \in Calls |-> IF \E i \in F : c \in {Put(i), Store(i)}
                                         THEN "spared" ELSE @[c]]])

(* sendModusBackupObject: an upload found uncertain is settled by its bytes,  *)
(* a registration in the storage found uncertain stops the request for good.  *)
MUObject(p, i) ==
    /\ kind = "modus_backup" /\ Open(p) /\ local = "whole"
    /\ \A j \in Files : j < i => Done(prog[p].copy, {Put(j), Store(j)})

MUPut(p, i) ==
    /\ MUActs(p) /\ MUObject(p, i) /\ Has(p, Put(i), "unsent")
    /\ Intend(p, Put(i), prog[p].copy)

MUPutDone(p, i) ==
    /\ kind = "modus_backup"
    /\ (Answered(p) /\ Does(p, Put(i)))
           \/ (MUObject(p, i) /\ Has(p, Put(i), "uncertain") /\ Stored(Put(i)))
    /\ Save(p, Settle(prog[p].copy, Put(i)))

MUStore(p, i) ==
    /\ MUActs(p) /\ MUObject(p, i)
    /\ Has(p, Put(i), "settled") /\ Has(p, Store(i), "unsent")
    /\ Intend(p, Store(i), prog[p].copy)

MUStored(p) ==
    /\ kind = "modus_backup" /\ Answered(p) /\ prog[p].call \in Stores
    /\ Save(p, Settle(prog[p].copy, prog[p].call))

(* continueModusBackupUpload                                                  *)
MURegister(p) ==
    /\ kind = "modus_backup" /\ MUActs(p) /\ local = "whole"
    /\ Done(prog[p].copy, Puts \union Stores) /\ Has(p, Finish, "unsent")
    /\ Intend(p, Finish, prog[p].copy)

MURegistered(p) ==
    /\ kind = "modus_backup" /\ (Open(p) \/ Answered(p))
    /\ MUUnconfirmed(p, Finish) /\ Stored(Finish)
    /\ Save(p, Settle(prog[p].copy, Finish))

(* The backup's number is written into the manifest, before the request is    *)
(* complete.                                                                  *)
MULink(p) ==
    /\ kind = "modus_backup" /\ Open(p) /\ Has(p, Finish, "settled")
    /\ local = "whole" /\ local' = "linked"
    /\ UNCHANGED <<kind, receipt, prog, holder, remote>>

MULinked(p) ==
    /\ kind = "modus_backup" /\ Open(p) /\ Has(p, Finish, "settled")
    /\ local = "linked"
    /\ Save(p, Complete(prog[p].copy))
-----------------------------------------------------------------------------
(* continueModusBackupChange: a rename, and deletions one after the other,    *)
(* each confirmed before the next; a referenced backup is kept.               *)
MUChange(p, c) ==
    /\ MUActs(p) /\ Has(p, c, "unsent")
    /\ \/ kind = "modus_rename" /\ c = Rename
       \/ kind = "modus_delete" /\ c \in Deletes /\ ~Stored(c)
    /\ \A j \in Files : j < c[2] => Done(prog[p].copy, {Delete(j)})

MUChangePost(p, c) == MUChange(p, c) /\ Intend(p, c, prog[p].copy)

MUProtected(p, c) ==
    /\ MUChange(p, c) /\ c \in Deletes
    /\ Save(p, Mark(prog[p].copy, c, "spared"))

MUChanged(p) ==
    /\ MUBackup /\ Answered(p)
    /\ prog[p].call \in {Rename, Finish} \union Deletes
    /\ Save(p, Mark(prog[p].copy, prog[p].call, "submitted"))

MUChangeFound(p, c) ==
    /\ kind \in {"modus_rename", "modus_delete"} /\ Open(p)
    /\ MUUnconfirmed(p, c) /\ Stored(c)
    /\ Save(p, IF kind = "modus_rename" THEN Complete(prog[p].copy)
                                        ELSE Settle(prog[p].copy, c))

MUChangesDone(p) ==
    /\ kind = "modus_delete" /\ Open(p)
    /\ Done(prog[p].copy, Calls)
    /\ Save(p, Complete(prog[p].copy))

MUStep(p) ==
    \/ MUNew(p) \/ MUPost(p) \/ MUReserve(p) \/ MUReserved(p) \/ MUMetadata(p)
    \/ MUBinary(p) \/ MUSubmitted(p) \/ MUReject(p) \/ MUVerify(p)
    \/ MUVerifyMetadata(p) \/ MUVerifyRelease(p) \/ MUClaim(p) \/ MUClaimed(p)
    \/ MUFontLookup(p) \/ MUStored(p) \/ MURegister(p) \/ MURegistered(p)
    \/ MULink(p) \/ MULinked(p) \/ MUChanged(p) \/ MUChangesDone(p)
    \/ \E i \in Files : MUPut(p, i) \/ MUPutDone(p, i) \/ MUStore(p, i)
    \/ \E c \in Calls : \/ MUChangePost(p, c) \/ MUProtected(p, c)
                       \/ MUChangeFound(p, c)
=============================================================================
