----------------------------- MODULE CurseForge -----------------------------
(* "publish curseforge plugin upload" and "plugin verify" (curseforge.go).    *)
EXTENDS Publishing

CFUpload(p) == kind = "cf_upload" /\ Command(p, {"run"})

(* The intent is the first save; a request with a receipt is never replayed.  *)
CFIntend(p) ==
    /\ CFUpload(p) /\ New(p)
    /\ Intend(p, Post, FreshReceipt(MayMake))

CFAcknowledge(p) ==
    /\ CFUpload(p) /\ Answered(p)
    /\ Save(p, Mark(prog[p].copy, Post, "submitted"))

(* Only a refusal of the token is a verdict; after any other error the        *)
(* receipt stays as it is.                                                    *)
CFReject(p) ==
    /\ CFUpload(p) /\ Refused(p)
    /\ Save(p, Close(prog[p].copy, "rejected"))

\* Mutation of CFVerify: demands the answer to the upload.
CFVerifySubmitted(p) ==
    /\ kind = "cf_upload" /\ Command(p, {"verify"}) /\ Open(p)
    /\ Has(p, Post, "submitted") /\ Stored(Post)
    /\ Save(p, Complete(prog[p].copy))

(* The remote file has the bytes of the request; the original answer may have *)
(* been lost.                                                                 *)
CFVerify(p) ==
    /\ kind = "cf_upload" /\ Command(p, {"verify"}) /\ Open(p)
    /\ Stored(Post)
    /\ Save(p, Complete(prog[p].copy))

CFStep(p) == CFIntend(p) \/ CFAcknowledge(p) \/ CFReject(p) \/ CFVerify(p)
=============================================================================
