-------------------------- MODULE PublicationProofs -------------------------
(* Theorems about Publication, for any number of programs and files: types,   *)
(* no call posted twice, verdicts that stay, nothing missing.                 *)
EXTENDS Publication, TLAPS

-----------------------------------------------------------------------------
(* Receipts.                                                                  *)
LEMMA NamedCalls ==
    /\ {Post, Reserve, Metadata, Binary, Allocate, Finish, Rename} \subseteq Calls
    /\ Puts \subseteq Calls /\ Stores \subseteq Calls /\ Deletes \subseteq Calls
    /\ \A i \in Files : {Put(i), Store(i), Delete(i)} \subseteq Calls
BY DEF Calls, Puts, Stores, Deletes

LEMMA MarkIsReceipt ==
    ASSUME NEW r \in Receipts, NEW c, NEW m \in Marks
    PROVE  /\ Mark(r, c, m) \in Receipts /\ Mark(r, c, m).over = r.over
           /\ c \in Calls => Mark(r, c, m).says[c] = m
           /\ m # "unsent" =>
                \A d \in Calls : Mark(r, c, m).says[d] = "unsent"
                                    => r.says[d] = "unsent"
BY DEF Mark, Receipts

LEMMA CloseIsReceipt ==
    ASSUME NEW r \in Receipts
    PROVE  /\ Close(r, "rejected") \in Receipts
           /\ Close(r, "rejected").says = r.says
BY DEF Close, Receipts

LEMMA CompleteIsReceipt ==
    ASSUME NEW r \in Receipts
    PROVE  /\ Complete(r) \in Receipts /\ Complete(r).over = "complete"
           /\ \A c \in Calls : Complete(r).says[c] # "unsent"
BY DEF Complete, Receipts, Marks

LEMMA FreshIsReceipt ==
    ASSUME NEW C PROVE FreshReceipt(C) \in Receipts
BY DEF FreshReceipt, Receipts, Marks

-----------------------------------------------------------------------------
(* What every step of a program comes down to: its receipt is replaced by one *)
(* that follows it, or nothing but its own place changes.                     *)
Follows(p, r) ==
    \/ prog[p].copy = None /\ receipt = None
    \/ /\ prog[p].copy \in Receipts /\ prog[p].copy.over = "open"
       /\ \A c \in Calls : r.says[c] = "unsent"
                              => prog[p].copy.says[c] = "unsent"

Over(r) ==
    r.over = "complete" /\ \A c \in Calls : r.says[c] # "unsent"

Saved(p, r, x) == receipt' = r /\ x.pc = "turn"
Kept(p, r, x) ==
    /\ receipt' = receipt /\ x.pc = "preparing"
    /\ receipt \in Receipts => r = prog[p].copy
Intended(p, r, x) ==
    /\ receipt' = r /\ x.pc = "posting" /\ x.call \in Calls
    /\ r.says[x.call] # "unsent"
    /\ prog[p].copy \in Receipts => prog[p].copy.says[x.call] = "unsent"

Moved(p, x) ==
    prog' = [prog EXCEPT ![p] = x] /\ x.command = prog[p].command

Writes(p) ==
    \E r \in Receipts, x \in ProgramStates :
        /\ Follows(p, r) /\ Moved(p, x) /\ x.copy = r
        /\ Saved(p, r, x) \/ Kept(p, r, x) \/ Intended(p, r, x)
        /\ Unleased(prog[p].command) => Saved(p, r, x) /\ Over(r)

Keeps(p) ==
    \E x \in ProgramStates :
        /\ Moved(p, x) /\ x.copy = prog[p].copy /\ x.pc = "turn"
        /\ UNCHANGED receipt

Shape(p) ==
    /\ prog[p].pc # "idle"
    /\ UNCHANGED <<kind, holder, remote>>
    /\ local' \in {"none", "made", "whole", "linked"}
    /\ Writes(p) \/ Keeps(p)

LEMMA SaveShape ==
    ASSUME TypeOK, NEW p \in Programs, NEW r \in Receipts,
           prog[p].pc # "idle", Follows(p, r), Save(p, r),
           Unleased(prog[p].command) => Over(r)
    PROVE  Shape(p)
<1> DEFINE x == [prog[p] EXCEPT !.pc = "turn", !.copy = r, !.call = None]
<1>1. prog[p] \in ProgramStates BY DEF TypeOK
<1>2. x \in ProgramStates /\ x.copy = r /\ x.pc = "turn"
      /\ x.command = prog[p].command
  BY <1>1 DEF ProgramStates, Phases
<1>3. prog' = [prog EXCEPT ![p] = x] BY DEF Save, TypeOK
<1>4. Saved(p, r, x) BY <1>2 DEF Save, Saved
<1> HIDE DEF x
<1>5. Writes(p) BY <1>2, <1>3, <1>4 DEF Writes, Moved
<1> QED BY <1>5 DEF Shape, Save, TypeOK

LEMMA CreateShape ==
    ASSUME TypeOK, NEW p \in Programs, NEW r \in Receipts,
           prog[p].pc # "idle", Follows(p, r), Create(p, r),
           ~Unleased(prog[p].command)
    PROVE  Shape(p)
<1> DEFINE x == [prog[p] EXCEPT !.pc = "turn", !.copy = r, !.checked = TRUE]
<1>1. prog[p] \in ProgramStates BY DEF TypeOK
<1>2. x \in ProgramStates /\ x.copy = r /\ x.pc = "turn"
      /\ x.command = prog[p].command
  BY <1>1 DEF ProgramStates, Phases
<1>3. prog' = [prog EXCEPT ![p] = x] BY DEF Create, TypeOK
<1>4. Saved(p, r, x) BY <1>2 DEF Create, Saved
<1> HIDE DEF x
<1>5. Writes(p) BY <1>2, <1>3, <1>4 DEF Writes, Moved
<1> QED BY <1>5 DEF Shape, Create, TypeOK

LEMMA IntendShape ==
    ASSUME TypeOK, NEW p \in Programs, NEW r \in Receipts, NEW c \in Calls,
           prog[p].pc # "idle", Follows(p, r), Intend(p, c, r),
           prog[p].copy \in Receipts => prog[p].copy.says[c] = "unsent",
           ~Unleased(prog[p].command)
    PROVE  Shape(p)
<1> DEFINE s == Mark(r, c, "uncertain")
           x == [prog[p] EXCEPT !.pc = "posting", !.call = c, !.copy = s,
                                !.checked = TRUE]
<1>0. s \in Receipts /\ s.says[c] = "uncertain"
      /\ \A d \in Calls : s.says[d] = "unsent" => r.says[d] = "unsent"
  BY MarkIsReceipt DEF Marks
<1>1. prog[p] \in ProgramStates BY DEF TypeOK
<1>2. receipt' = s BY DEF Intend
<1>3. prog' = [prog EXCEPT ![p] = x] BY DEF Intend, TypeOK
<1> HIDE DEF s
<1>4. x \in ProgramStates /\ x.copy = s /\ x.pc = "posting" /\ x.call = c
      /\ x.command = prog[p].command
  BY <1>0, <1>1 DEF ProgramStates, Phases
<1>5. Intended(p, s, x) BY <1>0, <1>2, <1>4 DEF Intended
<1>6. Follows(p, s) BY <1>0 DEF Follows
<1> HIDE DEF x
<1>7. Writes(p) BY <1>0, <1>3, <1>4, <1>5, <1>6 DEF Writes, Moved
<1> QED BY <1>7 DEF Shape, Intend, TypeOK

LEMMA PrepareShape ==
    ASSUME TypeOK, NEW p \in Programs, NEW r \in Receipts,
           prog[p].pc # "idle", Follows(p, r), PrepareFiles(p, "made", r),
           receipt \in Receipts => r = prog[p].copy,
           ~Unleased(prog[p].command)
    PROVE  Shape(p)
<1> DEFINE x == [prog[p] EXCEPT !.pc = "preparing", !.copy = r]
<1>1. prog[p] \in ProgramStates BY DEF TypeOK
<1>2. x \in ProgramStates /\ x.copy = r /\ x.pc = "preparing"
      /\ x.command = prog[p].command
  BY <1>1 DEF ProgramStates, Phases
<1>3. prog' = [prog EXCEPT ![p] = x] BY DEF PrepareFiles, TypeOK
<1>4. Kept(p, r, x) BY <1>2 DEF PrepareFiles, Kept
<1> HIDE DEF x
<1>5. Writes(p) BY <1>2, <1>3, <1>4 DEF Writes, Moved
<1> QED BY <1>5 DEF Shape, PrepareFiles, TypeOK

(* The two ways in which a program has a receipt to go on from.               *)
LEMMA NewFollows ==
    ASSUME NEW p \in Programs, NEW r, New(p)
    PROVE  /\ Follows(p, r) /\ prog[p].pc # "idle"
           /\ prog[p].copy \notin Receipts /\ receipt \notin Receipts
           /\ prog[p].command = "run" /\ ~Unleased(prog[p].command)
BY ReceiptAssumption DEF New, InTurn, Follows, Unleased

LEMMA HoldingFollows ==
    ASSUME TypeOK, NEW p \in Programs, Holding(p), NEW r,
           \A c \in Calls : r.says[c] = "unsent"
                               => prog[p].copy.says[c] = "unsent"
    PROVE  prog[p].copy \in Receipts /\ Follows(p, r)
BY DEF TypeOK, ProgramStates, Holding, Follows

(* Saves of a receipt that is held: one call marked, the request rejected,    *)
(* the request complete.                                                      *)
LEMMA MarkShape ==
    ASSUME TypeOK, NEW p \in Programs, NEW c, NEW m \in Marks \ {"unsent"},
           Holding(p), prog[p].pc # "idle", ~Unleased(prog[p].command),
           Save(p, Mark(prog[p].copy, c, m))
    PROVE  Shape(p)
<1>1. prog[p].copy \in Receipts BY DEF TypeOK, ProgramStates, Holding
<1> DEFINE r == Mark(prog[p].copy, c, m)
<1>2. r \in Receipts
      /\ \A d \in Calls : r.says[d] = "unsent" => prog[p].copy.says[d] = "unsent"
  BY <1>1, MarkIsReceipt
<1>3. Save(p, r) OBVIOUS
<1> HIDE DEF r
<1>4. Follows(p, r) BY <1>2, HoldingFollows
<1> QED BY <1>2, <1>3, <1>4, SaveShape

LEMMA RejectShape ==
    ASSUME TypeOK, NEW p \in Programs,
           Holding(p), prog[p].pc # "idle", ~Unleased(prog[p].command),
           Save(p, Close(prog[p].copy, "rejected"))
    PROVE  Shape(p)
<1>1. prog[p].copy \in Receipts BY DEF TypeOK, ProgramStates, Holding
<1> DEFINE r == Close(prog[p].copy, "rejected")
<1>2. r \in Receipts /\ r.says = prog[p].copy.says BY <1>1, CloseIsReceipt
<1>3. Save(p, r) OBVIOUS
<1> HIDE DEF r
<1>4. Follows(p, r) BY <1>2, HoldingFollows
<1> QED BY <1>2, <1>3, <1>4, SaveShape

LEMMA CompleteShape ==
    ASSUME TypeOK, NEW p \in Programs, NEW s \in Receipts,
           Holding(p), prog[p].pc # "idle", Save(p, Complete(s))
    PROVE  Shape(p)
<1> DEFINE r == Complete(s)
<1>2. r \in Receipts /\ r.over = "complete"
      /\ \A d \in Calls : r.says[d] # "unsent"
  BY CompleteIsReceipt
<1>3. Save(p, r) OBVIOUS
<1> HIDE DEF r
<1>4. Follows(p, r) /\ Over(r) BY <1>2, HoldingFollows DEF Over
<1> QED BY <1>2, <1>3, <1>4, SaveShape

(* An intent that extends a receipt that is held.                             *)
LEMMA ContinueShape ==
    ASSUME TypeOK, NEW p \in Programs, NEW c \in Calls,
           Holding(p), prog[p].pc # "idle", ~Unleased(prog[p].command),
           Has(p, c, "unsent"), Intend(p, c, prog[p].copy)
    PROVE  Shape(p)
<1>1. prog[p].copy \in Receipts /\ Follows(p, prog[p].copy)
  BY HoldingFollows
<1> QED BY <1>1, IntendShape DEF Has

(* The first save, and the first intent, of a new request.                    *)
LEMMA NewShape ==
    ASSUME TypeOK, NEW p \in Programs, NEW C, New(p),
           \/ Create(p, FreshReceipt(C))
           \/ PrepareFiles(p, "made", FreshReceipt(C))
           \/ \E c \in Calls : Intend(p, c, FreshReceipt(C))
    PROVE  Shape(p)
<1> DEFINE r == FreshReceipt(C)
<1>1. r \in Receipts BY FreshIsReceipt
<1>2. CASE Create(p, r) BY <1>1, <1>2, NewFollows, CreateShape
<1>3. CASE PrepareFiles(p, "made", r) BY <1>1, <1>3, NewFollows, PrepareShape
<1>4. CASE \E c \in Calls : Intend(p, c, r)
  BY <1>1, <1>4, NewFollows, IntendShape
<1> QED BY <1>2, <1>3, <1>4

-----------------------------------------------------------------------------
(* CurseForge.                                                                *)
LEMMA CFShape ==
    ASSUME TypeOK, NEW p \in Programs, CFStep(p) PROVE Shape(p)
<1> USE NamedCalls
<1>1. CASE CFIntend(p) BY <1>1, NewShape DEF CFIntend
<1>2. CASE CFAcknowledge(p)
  BY <1>2, MarkShape
     DEF CFAcknowledge, CFUpload, Command, Answered, Unleased, Marks
<1>3. CASE CFReject(p)
  BY <1>3, RejectShape DEF CFReject, CFUpload, Command, Refused, Unleased
<1>4. CASE CFVerify(p)
  BY <1>4, HoldingFollows, CompleteShape DEF CFVerify, Open, InTurn
<1> QED BY <1>1, <1>2, <1>3, <1>4 DEF CFStep

-----------------------------------------------------------------------------
(* NewBee.                                                                    *)
LEMMA NBDoneShape ==
    ASSUME TypeOK, NEW p \in Programs, NEW c, kind = "nb_delete",
           Holding(p), prog[p].pc # "idle",
           Save(p, NBDeleted(Settle(prog[p].copy, c)))
    PROVE  Shape(p)
<1>1. prog[p].copy \in Receipts BY DEF TypeOK, ProgramStates, Holding
<1>2. Settle(prog[p].copy, c) \in Receipts
  BY <1>1, MarkIsReceipt DEF Settle, Marks
<1>3. CASE NBDeleted(Settle(prog[p].copy, c)) = Settle(prog[p].copy, c)
  BY <1>3, MarkShape DEF Settle, Marks, Unleased
<1>4. CASE NBDeleted(Settle(prog[p].copy, c))
              = Complete(Settle(prog[p].copy, c))
  BY <1>2, <1>4, CompleteShape
<1> QED BY <1>3, <1>4 DEF NBDeleted

LEMMA NBWriteShape ==
    ASSUME TypeOK, NEW p \in Programs,
           \/ NBSubmit(p) \/ NBAccept(p) \/ NBReject(p) \/ NBReadBack(p)
           \/ NBVerify(p) \/ NBOfficial(p)
    PROVE  Shape(p)
<1> USE NamedCalls
<1>1. CASE NBSubmit(p) BY <1>1, NewShape DEF NBSubmit
<1>2. CASE NBAccept(p)
  BY <1>2, MarkShape DEF NBAccept, NBCreator, Answered, Unleased, Marks
<1>3. CASE NBReject(p)
  BY <1>3, RejectShape DEF NBReject, NBCreator, Refused, Unleased
<1>4. CASE NBReadBack(p)
  BY <1>4, HoldingFollows, CompleteShape DEF NBReadBack, Open, InTurn
<1>5. CASE NBVerify(p)
  BY <1>5, HoldingFollows, CompleteShape DEF NBVerify, Open, InTurn
<1>6. CASE NBOfficial(p)
  BY <1>6, HoldingFollows, CompleteShape DEF NBOfficial, Answered
<1> QED BY <1>1, <1>2, <1>3, <1>4, <1>5, <1>6

LEMMA NBDeleteShape ==
    ASSUME TypeOK, NEW p \in Programs,
           \/ NBFindAbsent(p) \/ NBPreview(p) \/ NBDeleteDone(p)
           \/ NBDeleteReject(p) \/ \E i \in Files : NBDelete(p, i)
    PROVE  Shape(p)
<1> USE NamedCalls
<1>1. CASE NBFindAbsent(p)
  BY <1>1, NBDoneShape DEF NBFindAbsent, Open, InTurn
<1>2. CASE NBPreview(p)
  <2> DEFINE x == [prog[p] EXCEPT !.checked = TRUE]
  <2>1. prog[p] \in ProgramStates /\ prog[p].pc = "turn"
    BY <1>2 DEF TypeOK, NBPreview, NBDeletes, InTurn
  <2>2. x \in ProgramStates /\ x.copy = prog[p].copy /\ x.pc = "turn"
        /\ x.command = prog[p].command
    BY <2>1 DEF ProgramStates
  <2>3. prog' = [prog EXCEPT ![p] = x]
    BY <1>2 DEF NBPreview, Check, TypeOK
  <2>4. Keeps(p) BY <1>2, <2>2, <2>3 DEF Keeps, Moved, NBPreview, Check
  <2> QED BY <1>2, <2>1, <2>4 DEF Shape, NBPreview, Check, TypeOK
<1>3. CASE NBDeleteDone(p) BY <1>3, NBDoneShape DEF NBDeleteDone, Answered
<1>4. CASE NBDeleteReject(p)
  BY <1>4, RejectShape DEF NBDeleteReject, Refused, Unleased
<1>5. ASSUME NEW i \in Files, NBDelete(p, i) PROVE Shape(p)
  <2>1. CASE New(p) /\ prog[p].copy = None
    BY <1>5, <2>1, NewShape DEF NBDelete
  <2>2. CASE Holding(p) /\ prog[p].copy # None
    BY <1>5, <2>2, ContinueShape
       DEF NBDelete, NBDeletes, NBRemaining, Those, Has, InTurn, Unleased
  <2> QED BY <1>5, <2>1, <2>2 DEF NBDelete, NBDeletes, New, Holding
<1> QED BY <1>1, <1>2, <1>3, <1>4, <1>5

LEMMA NBBackupShape ==
    ASSUME TypeOK, NEW p \in Programs,
           \/ NBBackupPrepare(p) \/ NBBackupPutDone(p) \/ NBBackupCreate(p)
           \/ NBBackupFind(p) \/ NBBackupRename(p) \/ NBBackupRenamed(p)
           \/ NBBackupComplete(p) \/ NBBackupReject(p)
           \/ \E i \in Files : NBBackupPut(p, i)
    PROVE  Shape(p)
<1> USE NamedCalls DEF NBUpload, Open, InTurn, Answered, Unleased
<1>1. CASE NBBackupPrepare(p) BY <1>1, NewShape DEF NBBackupPrepare
<1>2. CASE NBBackupPutDone(p)
  BY <1>2, MarkShape DEF NBBackupPutDone, Settle, Marks
<1>3. CASE NBBackupCreate(p) BY <1>3, ContinueShape DEF NBBackupCreate
<1>4. CASE NBBackupFind(p)
  BY <1>4, MarkShape DEF NBBackupFind, Settle, Marks
<1>5. CASE NBBackupRename(p) BY <1>5, ContinueShape DEF NBBackupRename
<1>6. CASE NBBackupRenamed(p) BY <1>6, MarkShape DEF NBBackupRenamed, Marks
<1>7. CASE NBBackupComplete(p)
  BY <1>7, HoldingFollows, CompleteShape DEF NBBackupComplete
<1>8. CASE NBBackupReject(p) BY <1>8, RejectShape DEF NBBackupReject, Refused
<1>9. ASSUME NEW i \in Files, NBBackupPut(p, i) PROVE Shape(p)
  BY <1>9, ContinueShape DEF NBBackupPut
<1> QED BY <1>1, <1>2, <1>3, <1>4, <1>5, <1>6, <1>7, <1>8, <1>9

LEMMA NBShape ==
    ASSUME TypeOK, NEW p \in Programs, NBStep(p) PROVE Shape(p)
<1>1. CASE \/ NBSubmit(p) \/ NBAccept(p) \/ NBReject(p) \/ NBReadBack(p)
           \/ NBVerify(p) \/ NBOfficial(p)
  BY <1>1, NBWriteShape
<1>2. CASE \/ NBFindAbsent(p) \/ NBPreview(p) \/ NBDeleteDone(p)
           \/ NBDeleteReject(p) \/ \E i \in Files : NBDelete(p, i)
  BY <1>2, NBDeleteShape
<1>3. CASE \/ NBBackupPrepare(p) \/ NBBackupPutDone(p) \/ NBBackupCreate(p)
           \/ NBBackupFind(p) \/ NBBackupRename(p) \/ NBBackupRenamed(p)
           \/ NBBackupComplete(p) \/ NBBackupReject(p)
           \/ \E i \in Files : NBBackupPut(p, i)
  BY <1>3, NBBackupShape
<1> QED BY <1>1, <1>2, <1>3 DEF NBStep

-----------------------------------------------------------------------------
(* DD. A program without the lease only saves the verdict "complete".         *)
LEMMA DDObjectShape ==
    ASSUME TypeOK, NEW p \in Programs, DDUpload(p) \/ DDUploaded(p)
    PROVE  Shape(p)
<1> USE NamedCalls
<1>1. CASE DDUpload(p) BY <1>1, NewShape DEF DDUpload
<1>2. CASE DDUploaded(p)
  BY <1>2, HoldingFollows, CompleteShape DEF DDUploaded, Answered
<1> QED BY <1>1, <1>2

ReadsOnly ==
    \A p \in Programs :
        Unleased(prog[p].command) => prog[p].pc \in {"idle", "turn"}

LEMMA DDChangeShape ==
    ASSUME TypeOK, ReadsOnly, NEW p \in Programs,
           \/ DDRecord(p) \/ DDSubmit(p) \/ DDAcknowledge(p) \/ DDVerify(p)
           \/ DDReject(p)
    PROVE  Shape(p)
<1> USE NamedCalls DEF DDActs, Open, InTurn, Command
<1>1. CASE DDRecord(p) BY <1>1, NewShape DEF DDRecord
<1>2. CASE DDSubmit(p) BY <1>2, ContinueShape DEF DDSubmit, Unleased
<1>3. CASE DDAcknowledge(p)
  BY <1>3, MarkShape DEF DDAcknowledge, Answered, ReadsOnly, Marks
<1>4. CASE DDVerify(p) BY <1>4, HoldingFollows, CompleteShape DEF DDVerify
<1>5. CASE DDReject(p) BY <1>5, RejectShape DEF DDReject, Refused, ReadsOnly
<1> QED BY <1>1, <1>2, <1>3, <1>4, <1>5

LEMMA DDBackupShape ==
    ASSUME TypeOK, ReadsOnly, NEW p \in Programs,
           \/ DDAllocate(p) \/ DDAllocated(p) \/ DDComponentDone(p)
           \/ DDFinish(p) \/ DDFinished(p) \/ DDRename(p) \/ DDRenamed(p)
           \/ DDVerifyBackup(p)
           \/ \E i \in Files : \/ DDComponentSpared(p, i)
                               \/ DDComponentPut(p, i)
                               \/ DDComponentFound(p, i)
    PROVE  Shape(p)
<1> USE NamedCalls DEF DDNext, DDContinues, DDActs, Open, InTurn, Command
<1>1. CASE DDAllocate(p) BY <1>1, NewShape DEF DDAllocate
<1>2. CASE DDAllocated(p)
  BY <1>2, MarkShape DEF DDAllocated, Answered, ReadsOnly, Marks, Settle
<1>3. CASE DDComponentDone(p)
  BY <1>3, MarkShape DEF DDComponentDone, Answered, ReadsOnly, Marks, Settle
<1>4. CASE DDFinish(p) BY <1>4, ContinueShape DEF DDFinish, Unleased
<1>5. CASE DDFinished(p)
  <2>1. prog[p].pc # "idle" /\ Holding(p) /\ ~Unleased(prog[p].command)
    BY <1>5 DEF DDFinished, Answered, ReadsOnly, Unleased
  <2> QED BY <1>5, <2>1, MarkShape DEF DDFinished, Marks
<1>6. CASE DDRename(p) BY <1>6, ContinueShape DEF DDRename, Unleased
<1>7. CASE DDRenamed(p)
  BY <1>7, MarkShape DEF DDRenamed, Answered, ReadsOnly, Marks
<1>8. CASE DDVerifyBackup(p)
  BY <1>8, HoldingFollows, CompleteShape DEF DDVerifyBackup
<1>9. ASSUME NEW i \in Files,
             \/ DDComponentSpared(p, i) \/ DDComponentPut(p, i)
             \/ DDComponentFound(p, i)
      PROVE  Shape(p)
  <2>1. CASE DDComponentSpared(p, i)
    BY <2>1, MarkShape DEF DDComponentSpared, Unleased, Marks
  <2>2. CASE DDComponentPut(p, i)
    BY <2>2, ContinueShape DEF DDComponentPut, Unleased
  <2>3. CASE DDComponentFound(p, i)
    BY <2>3, MarkShape DEF DDComponentFound, Unleased, Marks, Settle
  <2> QED BY <1>9, <2>1, <2>2, <2>3
<1> QED BY <1>1, <1>2, <1>3, <1>4, <1>5, <1>6, <1>7, <1>8, <1>9

LEMMA DDDeleteShape ==
    ASSUME TypeOK, NEW p \in Programs,
           \/ DDDeletePrepare(p) \/ DDDeleted(p)
           \/ \E i \in Files : DDDelete(p, i) \/ DDDeleteFound(p, i)
    PROVE  Shape(p)
<1> USE NamedCalls DEF Open, InTurn, Answered, Unleased
<1>1. CASE DDDeletePrepare(p) BY <1>1, NewShape DEF DDDeletePrepare
<1>2. CASE DDDeleted(p) BY <1>2, HoldingFollows, CompleteShape DEF DDDeleted
<1>3. ASSUME NEW i \in Files, DDDelete(p, i) PROVE Shape(p)
  BY <1>3, ContinueShape DEF DDDelete
<1>4. ASSUME NEW i \in Files, DDDeleteFound(p, i) PROVE Shape(p)
  BY <1>4, MarkShape DEF DDDeleteFound, Marks, Settle
<1> QED BY <1>1, <1>2, <1>3, <1>4

LEMMA DDShape ==
    ASSUME TypeOK, ReadsOnly, NEW p \in Programs, DDStep(p) PROVE Shape(p)
<1>1. CASE DDUpload(p) \/ DDUploaded(p) BY <1>1, DDObjectShape
<1>2. CASE \/ DDRecord(p) \/ DDSubmit(p) \/ DDAcknowledge(p) \/ DDVerify(p)
           \/ DDReject(p)
  BY <1>2, DDChangeShape
<1>3. CASE \/ DDAllocate(p) \/ DDAllocated(p) \/ DDComponentDone(p)
           \/ DDFinish(p) \/ DDFinished(p) \/ DDRename(p) \/ DDRenamed(p)
           \/ DDVerifyBackup(p)
           \/ \E i \in Files : \/ DDComponentSpared(p, i)
                               \/ DDComponentPut(p, i)
                               \/ DDComponentFound(p, i)
  BY <1>3, DDBackupShape
<1>4. CASE \/ DDDeletePrepare(p) \/ DDDeleted(p)
           \/ \E i \in Files : DDDelete(p, i) \/ DDDeleteFound(p, i)
  BY <1>4, DDDeleteShape
<1> QED BY <1>1, <1>2, <1>3, <1>4 DEF DDStep

-----------------------------------------------------------------------------
(* BlackBox.                                                                  *)
LEMMA BBChangeShape ==
    ASSUME TypeOK, NEW p \in Programs,
           \/ BBSnapshot(p) \/ BBPrepare(p) \/ BBUpload(p) \/ BBUploaded(p)
           \/ BBPost(p) \/ BBSubmitted(p) \/ BBReject(p) \/ BBVerify(p)
    PROVE  Shape(p)
<1> USE NamedCalls DEF BBContinues, Open, InTurn, Answered, Unleased, BBKinds,
                       BBChange
<1>1. CASE BBSnapshot(p) BY <1>1, NewShape DEF BBSnapshot
<1>2. CASE BBPrepare(p)
  <2>1. CASE Preparing(p) /\ kind \in BBKinds /\ Create(p, prog[p].copy)
    BY <2>1, HoldingFollows, CreateShape DEF Preparing
  <2> QED BY <1>2, <2>1, NewShape DEF BBPrepare
<1>3. CASE BBUpload(p) BY <1>3, ContinueShape DEF BBUpload
<1>4. CASE BBUploaded(p) BY <1>4, MarkShape DEF BBUploaded, Settle, Marks
<1>5. CASE BBPost(p) BY <1>5, ContinueShape DEF BBPost
<1>6. CASE BBSubmitted(p) BY <1>6, MarkShape DEF BBSubmitted, Marks
<1>7. CASE BBReject(p) BY <1>7, RejectShape DEF BBReject, Refused
<1>8. CASE BBVerify(p) BY <1>8, HoldingFollows, CompleteShape DEF BBVerify
<1> QED BY <1>1, <1>2, <1>3, <1>4, <1>5, <1>6, <1>7, <1>8

LEMMA BBBackupShape ==
    ASSUME TypeOK, NEW p \in Programs,
           \/ BBStepsVerified(p) \/ BBAllocate(p) \/ BBAllocated(p)
           \/ BBSave(p) \/ BBVerifyBackup(p)
           \/ \E c \in Calls : BBStepPost(p, c) \/ BBStepVerified(p, c)
           \/ \E i \in Files : BBArchivePut(p, i) \/ BBArchiveDone(p, i)
    PROVE  Shape(p)
<1> USE NamedCalls DEF BBContinues, Open, InTurn, Answered, Unleased, BBKinds,
                       BBArchives
<1>1. CASE BBStepsVerified(p)
  BY <1>1, HoldingFollows, CompleteShape DEF BBStepsVerified
<1>2. CASE BBAllocate(p) BY <1>2, ContinueShape DEF BBAllocate
<1>3. CASE BBAllocated(p) BY <1>3, MarkShape DEF BBAllocated, Settle, Marks
<1>4. CASE BBSave(p) BY <1>4, ContinueShape DEF BBSave
<1>5. CASE BBVerifyBackup(p)
  BY <1>5, HoldingFollows, CompleteShape DEF BBVerifyBackup
<1>6. ASSUME NEW c \in Calls, BBStepPost(p, c) PROVE Shape(p)
  BY <1>6, ContinueShape DEF BBStepPost
<1>7. ASSUME NEW c \in Calls, BBStepVerified(p, c) PROVE Shape(p)
  BY <1>7, MarkShape DEF BBStepVerified, Settle, Marks
<1>8. ASSUME NEW i \in Files, BBArchivePut(p, i) PROVE Shape(p)
  BY <1>8, ContinueShape DEF BBArchivePut
<1>9. ASSUME NEW i \in Files, BBArchiveDone(p, i) PROVE Shape(p)
  BY <1>9, MarkShape DEF BBArchiveDone, Settle, Marks
<1> QED BY <1>1, <1>2, <1>3, <1>4, <1>5, <1>6, <1>7, <1>8, <1>9

LEMMA BBShape ==
    ASSUME TypeOK, NEW p \in Programs, BBStep(p) PROVE Shape(p)
<1>1. CASE \/ BBSnapshot(p) \/ BBPrepare(p) \/ BBUpload(p) \/ BBUploaded(p)
           \/ BBPost(p) \/ BBSubmitted(p) \/ BBReject(p) \/ BBVerify(p)
  BY <1>1, BBChangeShape
<1>2. CASE \/ BBStepsVerified(p) \/ BBAllocate(p) \/ BBAllocated(p)
           \/ BBSave(p) \/ BBVerifyBackup(p)
           \/ \E c \in Calls : BBStepPost(p, c) \/ BBStepVerified(p, c)
           \/ \E i \in Files : BBArchivePut(p, i) \/ BBArchiveDone(p, i)
  BY <1>2, BBBackupShape
<1> QED BY <1>1, <1>2 DEF BBStep

-----------------------------------------------------------------------------
(* ModUs.                                                                     *)
LEMMA MURequestShape ==
    ASSUME TypeOK, NEW p \in Programs,
           \/ MUNew(p) \/ MUPost(p) \/ MUReserve(p) \/ MUReserved(p)
           \/ MUMetadata(p) \/ MUBinary(p) \/ MUSubmitted(p) \/ MUReject(p)
           \/ MUVerify(p) \/ MUVerifyMetadata(p) \/ MUVerifyRelease(p)
    PROVE  Shape(p)
<1> USE NamedCalls DEF MUContinues, MUVerifies, Open, InTurn, Answered,
                       Unleased, MURequest, MUBackup
<1>1. CASE MUNew(p) BY <1>1, NewShape DEF MUNew
<1>2. CASE MUPost(p) BY <1>2, ContinueShape DEF MUPost
<1>3. CASE MUReserve(p) BY <1>3, ContinueShape DEF MUReserve
<1>4. CASE MUReserved(p) BY <1>4, MarkShape DEF MUReserved, Settle, Marks
<1>5. CASE MUMetadata(p) BY <1>5, ContinueShape DEF MUMetadata
<1>6. CASE MUBinary(p) BY <1>6, ContinueShape DEF MUBinary
<1>7. CASE MUSubmitted(p) BY <1>7, MarkShape DEF MUSubmitted, Marks
<1>8. CASE MUReject(p) BY <1>8, RejectShape DEF MUReject, Refused
<1>9. CASE MUVerify(p) BY <1>9, HoldingFollows, CompleteShape DEF MUVerify
<1>10. CASE MUVerifyMetadata(p)
  BY <1>10, MarkShape DEF MUVerifyMetadata, Marks
<1>11. CASE MUVerifyRelease(p)
  BY <1>11, HoldingFollows, CompleteShape DEF MUVerifyRelease
<1> QED BY <1>1, <1>2, <1>3, <1>4, <1>5, <1>6, <1>7, <1>8, <1>9, <1>10, <1>11

(* The steps of a backup that write the claim or the link beside the receipt. *)
LEMMA MULocalShape ==
    ASSUME TypeOK, NEW p \in Programs, MUClaim(p) \/ MUClaimed(p) \/ MULink(p)
    PROVE  Shape(p)
<1> USE DEF MUActs, MUBackup, Open, InTurn, Unleased
<1>1. prog[p] \in ProgramStates /\ prog = [prog EXCEPT ![p] = prog[p]]
  BY DEF TypeOK
<1>2. CASE MUClaim(p)
  BY <1>2, HoldingFollows, PrepareShape DEF MUClaim
<1>3. CASE MUClaimed(p)
  <2> DEFINE x == [prog[p] EXCEPT !.pc = "turn"]
  <2>1. x \in ProgramStates /\ x.copy = prog[p].copy /\ x.pc = "turn"
        /\ x.command = prog[p].command
    BY <1>1 DEF ProgramStates, Phases
  <2>2. prog' = [prog EXCEPT ![p] = x] BY <1>3 DEF MUClaimed, TypeOK
  <2>3. Keeps(p) BY <1>3, <2>1, <2>2 DEF Keeps, Moved, MUClaimed
  <2> QED BY <1>3, <2>3 DEF Shape, MUClaimed, Preparing
<1>4. CASE MULink(p)
  <2>1. Keeps(p) BY <1>1, <1>4 DEF Keeps, Moved, MULink
  <2> QED BY <1>4, <2>1 DEF Shape, MULink
<1> QED BY <1>2, <1>3, <1>4

LEMMA MUFontShape ==
    ASSUME TypeOK, NEW p \in Programs, MUFontLookup(p) PROVE Shape(p)
<1>1. prog[p].copy \in Receipts /\ Holding(p) /\ prog[p].pc # "idle"
      /\ ~Unleased(prog[p].command)
  BY DEF TypeOK, ProgramStates, MUFontLookup, MUActs, Open, InTurn, Holding,
         Unleased
<1>2. PICK F \in (SUBSET Files) \ {{}} :
          Save(p, [prog[p].copy EXCEPT !.says =
                       [c \in Calls |-> IF \E i \in F : c \in {Put(i), Store(i)}
                                        THEN "spared" ELSE @[c]]])
  BY DEF MUFontLookup
<1> DEFINE r == [prog[p].copy EXCEPT !.says =
                    [c \in Calls |-> IF \E i \in F : c \in {Put(i), Store(i)}
                                     THEN "spared" ELSE @[c]]]
<1>3. r \in Receipts
      /\ \A c \in Calls : r.says[c] = "unsent" => prog[p].copy.says[c] = "unsent"
  BY <1>1 DEF Receipts, Marks
<1>4. Save(p, r) BY <1>2
<1> HIDE DEF r
<1>5. Follows(p, r) BY <1>1, <1>3, HoldingFollows
<1> QED BY <1>1, <1>3, <1>4, <1>5, SaveShape

LEMMA MUBackupShape ==
    ASSUME TypeOK, NEW p \in Programs,
           \/ MUStored(p) \/ MURegister(p) \/ MURegistered(p) \/ MULinked(p)
           \/ MUChanged(p) \/ MUChangesDone(p)
           \/ \E i \in Files : MUPut(p, i) \/ MUPutDone(p, i) \/ MUStore(p, i)
           \/ \E c \in Calls : \/ MUChangePost(p, c) \/ MUProtected(p, c)
                               \/ MUChangeFound(p, c)
    PROVE  Shape(p)
<1> USE NamedCalls DEF MUActs, MUObject, MUChange, MUBackup, Open, InTurn,
                       Answered, Unleased
<1>1. CASE MUStored(p) BY <1>1, MarkShape DEF MUStored, Settle, Marks
<1>2. CASE MURegister(p) BY <1>2, ContinueShape DEF MURegister
<1>3. CASE MURegistered(p) BY <1>3, MarkShape DEF MURegistered, Settle, Marks
<1>4. CASE MULinked(p) BY <1>4, HoldingFollows, CompleteShape DEF MULinked
<1>5. CASE MUChanged(p) BY <1>5, MarkShape DEF MUChanged, Marks
<1>6. CASE MUChangesDone(p)
  BY <1>6, HoldingFollows, CompleteShape DEF MUChangesDone
<1>7. ASSUME NEW i \in Files, MUPut(p, i) \/ MUPutDone(p, i) \/ MUStore(p, i)
      PROVE  Shape(p)
  <2>1. CASE MUPut(p, i) BY <2>1, ContinueShape DEF MUPut
  <2>2. CASE MUPutDone(p, i) BY <2>2, MarkShape DEF MUPutDone, Settle, Marks
  <2>3. CASE MUStore(p, i) BY <2>3, ContinueShape DEF MUStore
  <2> QED BY <1>7, <2>1, <2>2, <2>3
<1>8. ASSUME NEW c \in Calls,
             MUChangePost(p, c) \/ MUProtected(p, c) \/ MUChangeFound(p, c)
      PROVE  Shape(p)
  <2>1. CASE MUChangePost(p, c) BY <2>1, ContinueShape DEF MUChangePost
  <2>2. CASE MUProtected(p, c) BY <2>2, MarkShape DEF MUProtected, Marks
  <2>3. CASE MUChangeFound(p, c)
    BY <2>3, HoldingFollows, MarkShape, CompleteShape
       DEF MUChangeFound, Settle, Marks
  <2> QED BY <1>8, <2>1, <2>2, <2>3
<1> QED BY <1>1, <1>2, <1>3, <1>4, <1>5, <1>6, <1>7, <1>8

LEMMA MUShape ==
    ASSUME TypeOK, NEW p \in Programs, MUStep(p) PROVE Shape(p)
<1>1. CASE \/ MUNew(p) \/ MUPost(p) \/ MUReserve(p) \/ MUReserved(p)
           \/ MUMetadata(p) \/ MUBinary(p) \/ MUSubmitted(p) \/ MUReject(p)
           \/ MUVerify(p) \/ MUVerifyMetadata(p) \/ MUVerifyRelease(p)
  BY <1>1, MURequestShape
<1>2. CASE MUClaim(p) \/ MUClaimed(p) \/ MULink(p) BY <1>2, MULocalShape
<1>3. CASE MUFontLookup(p) BY <1>3, MUFontShape
<1>4. CASE \/ MUStored(p) \/ MURegister(p) \/ MURegistered(p) \/ MULinked(p)
           \/ MUChanged(p) \/ MUChangesDone(p)
           \/ \E i \in Files : MUPut(p, i) \/ MUPutDone(p, i) \/ MUStore(p, i)
           \/ \E c \in Calls : \/ MUChangePost(p, c) \/ MUProtected(p, c)
                               \/ MUChangeFound(p, c)
  BY <1>4, MUBackupShape
<1> QED BY <1>1, <1>2, <1>3, <1>4 DEF MUStep

LEMMA StepShape ==
    ASSUME TypeOK, ReadsOnly, NEW p \in Programs, Step(p) PROVE Shape(p)
BY CFShape, NBShape, DDShape, BBShape, MUShape DEF Step

-----------------------------------------------------------------------------
(* The inductive invariant. Of a call that a receipt says is not sent nothing *)
(* was sent, in the file and in the copy of the program that holds the lease; *)
(* a call about to be posted was marked in both.                              *)
Leased(p) == prog[p].pc # "idle" /\ ~Unleased(prog[p].command)
LeaseHeld == \A p \in Programs : Leased(p) => holder = p

Truthful(r) ==
    r.over = "open" =>
        \A c \in Calls : r.says[c] = "unsent" => posted[c] = 0
ReceiptTruthful ==
    IF receipt \in Receipts THEN Truthful(receipt)
                            ELSE \A c \in Calls : posted[c] = 0
CopiesTruthful ==
    \A p \in Programs :
        Leased(p) /\ prog[p].copy \in Receipts => Truthful(prog[p].copy)

Marked(r, c) == r \in Receipts /\ r.says[c] # "unsent"
PostingMarked ==
    \A p \in Programs :
        prog[p].pc = "posting" =>
            /\ prog[p].call \in Calls /\ posted[prog[p].call] = 0
            /\ Marked(receipt, prog[p].call)
            /\ Marked(prog[p].copy, prog[p].call)

(* Where every command takes the lease, a program has the receipt on disk.    *)
CopiesCurrent ==
    kind \notin {"dd_change", "dd_backup"} =>
        \A p \in Programs :
            prog[p].pc # "idle" /\ receipt \in Receipts => prog[p].copy = receipt

IInv ==
    /\ TypeOK /\ SubmittedOnce
    /\ ReadsOnly /\ LeaseHeld
    /\ ReceiptTruthful /\ CopiesTruthful /\ PostingMarked /\ CopiesCurrent

LEMMA InitInvariant == Init => IInv
<1> SUFFICES ASSUME Init PROVE IInv OBVIOUS
<1>1. Idle \in ProgramStates BY DEF Idle, ProgramStates, Phases
<1>2. TypeOK BY <1>1 DEF Init, TypeOK
<1> QED
  BY <1>2, ReceiptAssumption
     DEF Init, IInv, SubmittedOnce, ReadsOnly, LeaseHeld, Leased, Idle,
         ReceiptTruthful, CopiesTruthful, PostingMarked, CopiesCurrent

(* A program that takes the lease knows what the file says.                   *)
LEMMA BeginKeeps ==
    ASSUME IInv, NEW p \in Programs, NEW cmd \in Commands, Begin(p, cmd)
    PROVE  IInv'
<1> DEFINE x == [Idle EXCEPT !.pc = "turn", !.command = cmd, !.copy = receipt]
<1>1. x \in ProgramStates /\ x.pc = "turn" /\ x.command = cmd
      /\ x.copy = receipt
  BY DEF IInv, TypeOK, Idle, ProgramStates, Phases
<1>2. prog' = [prog EXCEPT ![p] = x] BY DEF Begin
<1>3. UNCHANGED <<kind, receipt, local, wire, applied, already, posted>>
  BY DEF Begin, remote
<1> HIDE DEF x
<1>4. prog'[p] = x /\ \A q \in Programs \ {p} : prog'[q] = prog[q]
  BY <1>2 DEF IInv, TypeOK
<1>5. TypeOK' BY <1>1, <1>2, <1>3 DEF IInv, TypeOK, Begin
<1>6. ReadsOnly' BY <1>1, <1>3, <1>4 DEF IInv, ReadsOnly, Unleased
<1>7. LeaseHeld'
  <2> SUFFICES ASSUME NEW q \in Programs, Leased(q)' PROVE holder' = q
    BY DEF LeaseHeld
  <2>1. CASE q = p
    BY <1>1, <1>3, <1>4, <2>1 DEF Leased, Unleased, Begin
  <2>2. CASE q # p
    <3>1. Leased(q) BY <1>3, <1>4, <2>2 DEF Leased, Unleased
    <3>2. holder = q BY <3>1 DEF IInv, LeaseHeld
    <3> QED BY <3>2, PublishingAssumption DEF Begin
  <2> QED BY <2>1, <2>2
<1>8. CopiesTruthful'
  BY <1>1, <1>3, <1>4
     DEF IInv, CopiesTruthful, ReceiptTruthful, Truthful, Leased, Unleased
<1>9. PostingMarked' BY <1>1, <1>3, <1>4 DEF IInv, PostingMarked, Marked
<1>10. CopiesCurrent' BY <1>1, <1>3, <1>4 DEF IInv, CopiesCurrent
<1> QED BY <1>3, <1>5, <1>6, <1>7, <1>8, <1>9, <1>10
        DEF IInv, SubmittedOnce, ReceiptTruthful, Truthful

(* A step only marks: what it leaves unsent was unsent before, and nobody     *)
(* else holds the lease meanwhile.                                            *)
LEMMA StepKeeps ==
    ASSUME IInv, NEW p \in Programs, Step(p)
    PROVE  IInv'
<1>0. Shape(p) BY StepShape DEF IInv
<1>1. UNCHANGED <<kind, holder, wire, applied, already, posted>>
      /\ prog[p].pc # "idle"
      /\ local' \in {"none", "made", "whole", "linked"}
  BY <1>0 DEF Shape, remote
<1>2. CASE Writes(p)
  <2>1. PICK r \in Receipts, x \in ProgramStates :
            /\ Follows(p, r) /\ Moved(p, x) /\ x.copy = r
            /\ Saved(p, r, x) \/ Kept(p, r, x) \/ Intended(p, r, x)
            /\ Unleased(prog[p].command) => Saved(p, r, x) /\ Over(r)
    BY <1>2 DEF Writes
  <2>2. prog'[p] = x /\ \A q \in Programs \ {p} : prog'[q] = prog[q]
    BY <2>1 DEF IInv, TypeOK, Moved
  <2>3. TypeOK'
    BY <1>1, <2>1 DEF IInv, TypeOK, Moved, Saved, Kept, Intended
  <2>4. x.command = prog[p].command /\ x.pc \in {"turn", "preparing", "posting"}
    BY <2>1 DEF Moved, Saved, Kept, Intended
  <2>5. ReadsOnly'
    BY <1>1, <2>1, <2>2, <2>4 DEF IInv, ReadsOnly, Unleased, Saved
  <2>6. LeaseHeld'
    BY <1>1, <2>2, <2>4 DEF IInv, LeaseHeld, Leased, Unleased
  <2>7. Leased(p) => Truthful(r)
    <3>1. CASE prog[p].copy = None /\ receipt = None
      BY <3>1, ReceiptAssumption DEF IInv, ReceiptTruthful, Truthful
    <3>2. CASE /\ prog[p].copy \in Receipts /\ prog[p].copy.over = "open"
               /\ \A c \in Calls : r.says[c] = "unsent"
                                      => prog[p].copy.says[c] = "unsent"
      BY <3>2 DEF IInv, CopiesTruthful, Truthful
    <3> QED BY <2>1, <3>1, <3>2 DEF Follows
  <2>8. ReceiptTruthful'
    <3>1. CASE receipt' = receipt
      BY <1>1, <3>1 DEF IInv, ReceiptTruthful, Truthful
    <3>2. CASE receipt' = r /\ Leased(p)
      BY <1>1, <2>1, <2>7, <3>2 DEF ReceiptTruthful, Truthful
    <3>3. CASE receipt' = r /\ Over(r)
      BY <2>1, <3>3 DEF ReceiptTruthful, Truthful, Over
    <3> QED BY <1>1, <2>1, <3>1, <3>2, <3>3
            DEF Saved, Kept, Intended, Leased
  <2>9. CopiesTruthful'
    BY <1>1, <2>1, <2>2, <2>4, <2>7
       DEF IInv, CopiesTruthful, Truthful, Leased, Unleased
  <2>10. PostingMarked'
    <3> SUFFICES ASSUME NEW q \in Programs, prog'[q].pc = "posting"
                 PROVE  /\ prog'[q].call \in Calls
                        /\ posted'[prog'[q].call] = 0
                        /\ Marked(receipt', prog'[q].call)
                        /\ Marked(prog'[q].copy, prog'[q].call)
      BY DEF PostingMarked, Marked
    <3>1. CASE q = p
      <4>1. Intended(p, r, x) /\ Leased(p)
        BY <1>1, <2>1, <2>2, <3>1 DEF Saved, Kept, Leased
      <4>2. posted[x.call] = 0
        <5>1. CASE prog[p].copy = None /\ receipt = None
          BY <4>1, <5>1, ReceiptAssumption
             DEF IInv, Intended, ReceiptTruthful
        <5>2. CASE prog[p].copy \in Receipts /\ prog[p].copy.over = "open"
          BY <4>1, <5>2 DEF IInv, Intended, CopiesTruthful, Truthful
        <5> QED BY <2>1, <5>1, <5>2 DEF Follows
      <4> QED BY <1>1, <2>1, <2>2, <3>1, <4>1, <4>2 DEF Intended, Marked
    <3>2. CASE q # p
      <4>1. prog'[q] = prog[q] BY <2>2, <3>2
      <4>2. Leased(q) BY <4>1 DEF IInv, ReadsOnly, Leased
      <4>3. ~Leased(p) BY <3>2, <4>2 DEF IInv, LeaseHeld
      <4>4. receipt' = r /\ Over(r)
        BY <1>1, <2>1, <4>3 DEF Leased, Saved
      <4> QED
        BY <1>1, <2>1, <4>1, <4>4 DEF IInv, PostingMarked, Marked, Over
    <3> QED BY <3>1, <3>2
  <2>11. CopiesCurrent'
    <3> SUFFICES ASSUME kind \notin {"dd_change", "dd_backup"},
                        NEW q \in Programs, prog'[q].pc # "idle",
                        receipt' \in Receipts
                 PROVE  prog'[q].copy = receipt'
      BY <1>1 DEF CopiesCurrent
    <3>1. CASE q = p
      BY <1>1, <2>1, <2>2, <3>1
         DEF IInv, CopiesCurrent, Saved, Kept, Intended
    <3>2. CASE q # p
      BY <1>1, <2>2, <3>2 DEF IInv, LeaseHeld, Leased, Unleased
    <3> QED BY <3>1, <3>2
  <2> QED BY <1>1, <2>3, <2>5, <2>6, <2>8, <2>9, <2>10, <2>11
          DEF IInv, SubmittedOnce
<1>3. CASE Keeps(p)
  <2>1. PICK x \in ProgramStates :
            /\ Moved(p, x) /\ x.copy = prog[p].copy /\ x.pc = "turn"
            /\ UNCHANGED receipt
    BY <1>3 DEF Keeps
  <2>2. prog'[p] = x /\ \A q \in Programs \ {p} : prog'[q] = prog[q]
    BY <2>1 DEF IInv, TypeOK, Moved
  <2>3. TypeOK' BY <1>1, <2>1 DEF IInv, TypeOK, Moved
  <2>4. x.command = prog[p].command BY <2>1 DEF Moved
  <2>5. ReadsOnly' /\ LeaseHeld'
    BY <1>1, <2>1, <2>2, <2>4
       DEF IInv, ReadsOnly, LeaseHeld, Leased, Unleased
  <2>6. ReceiptTruthful' BY <1>1, <2>1 DEF IInv, ReceiptTruthful, Truthful
  <2>7. CopiesTruthful'
    BY <1>1, <2>1, <2>2, <2>4
       DEF IInv, CopiesTruthful, Truthful, Leased, Unleased
  <2>8. PostingMarked'
    BY <1>1, <2>1, <2>2 DEF IInv, PostingMarked, Marked
  <2>9. CopiesCurrent' BY <1>1, <2>1, <2>2 DEF IInv, CopiesCurrent
  <2> QED BY <1>1, <2>3, <2>5, <2>6, <2>7, <2>8, <2>9 DEF IInv, SubmittedOnce
<1> QED BY <1>0, <1>2, <1>3 DEF Shape

(* What is posted is marked in the file and in every copy that still counts.  *)
LEMMA PostKeeps ==
    ASSUME IInv, NEW p \in Programs, PostCall(p)
    PROVE  IInv'
<1> DEFINE x == [prog[p] EXCEPT !.pc = "waiting"]
           c == prog[p].call
<1>1. prog[p] \in ProgramStates /\ prog[p].pc = "posting"
      /\ c \in Calls /\ posted[c] = 0
  BY DEF IInv, TypeOK, PostCall, PostingMarked
<1>2. x \in ProgramStates /\ x.pc = "waiting" /\ x.copy = prog[p].copy
      /\ x.command = prog[p].command
  BY <1>1 DEF ProgramStates, Phases
<1>3. prog' = [prog EXCEPT ![p] = x] BY DEF PostCall, IInv, TypeOK
<1>4. UNCHANGED <<kind, receipt, local, holder, applied, already>>
      /\ wire' = wire \union {c}
      /\ posted' = [posted EXCEPT ![c] = @ + 1]
  BY DEF PostCall
<1> HIDE DEF x
<1>5. prog'[p] = x /\ \A q \in Programs \ {p} : prog'[q] = prog[q]
  BY <1>3 DEF IInv, TypeOK
<1>6. posted'[c] = 1 /\ \A d \in Calls \ {c} : posted'[d] = posted[d]
  BY <1>1, <1>4 DEF IInv, TypeOK
<1>7. posted' \in [Calls -> Nat] BY <1>1, <1>4 DEF IInv, TypeOK
<1>8. TypeOK' BY <1>1, <1>2, <1>3, <1>4, <1>7 DEF IInv, TypeOK
<1>9. SubmittedOnce' BY <1>6 DEF IInv, SubmittedOnce
<1>10. Leased(p) BY <1>1 DEF IInv, ReadsOnly, Leased
<1>11. ReadsOnly' /\ LeaseHeld'
  BY <1>1, <1>2, <1>4, <1>5, <1>10
     DEF IInv, ReadsOnly, LeaseHeld, Leased, Unleased
<1>12. ReceiptTruthful'
  BY <1>1, <1>4, <1>6
     DEF IInv, ReceiptTruthful, Truthful, PostingMarked, Marked
<1>13. CopiesTruthful'
  <2> SUFFICES ASSUME NEW q \in Programs, Leased(q)',
                      prog'[q].copy \in Receipts, prog'[q].copy.over = "open",
                      NEW d \in Calls, prog'[q].copy.says[d] = "unsent"
               PROVE  posted'[d] = 0
    BY DEF CopiesTruthful, Truthful
  <2>1. Leased(q) BY <1>1, <1>2, <1>4, <1>5 DEF Leased, Unleased
  <2>2. q = p BY <1>10, <2>1 DEF IInv, LeaseHeld
  <2> QED BY <1>1, <1>2, <1>5, <1>6, <1>10, <2>2
          DEF IInv, CopiesTruthful, Truthful, PostingMarked, Marked
<1>14. PostingMarked'
  <2> SUFFICES ASSUME NEW q \in Programs, prog'[q].pc = "posting" PROVE FALSE
    BY DEF PostingMarked
  <2>1. q # p BY <1>2, <1>5
  <2>2. Leased(q) BY <1>5, <2>1 DEF IInv, ReadsOnly, Leased
  <2> QED BY <1>10, <2>1, <2>2 DEF IInv, LeaseHeld
<1>15. CopiesCurrent' BY <1>1, <1>2, <1>4, <1>5 DEF IInv, CopiesCurrent
<1> QED BY <1>8, <1>9, <1>11, <1>12, <1>13, <1>14, <1>15 DEF IInv

LEMMA StopKeeps ==
    ASSUME IInv, NEW p \in Programs, Stop(p)
    PROVE  IInv'
<1>1. UNCHANGED <<kind, receipt, local, wire, applied, already, posted>>
      /\ prog' = [prog EXCEPT ![p] = Idle]
      /\ holder' = IF holder = p THEN None ELSE holder
  BY DEF Stop, remote
<1>2. Idle \in ProgramStates /\ Idle.pc = "idle"
  BY DEF Idle, ProgramStates, Phases
<1>3. prog'[p] = Idle /\ \A q \in Programs \ {p} : prog'[q] = prog[q]
  BY <1>1 DEF IInv, TypeOK
<1>4. TypeOK' BY <1>1, <1>2 DEF IInv, TypeOK
<1>5. ReadsOnly' /\ LeaseHeld'
  BY <1>1, <1>2, <1>3 DEF IInv, ReadsOnly, LeaseHeld, Leased, Unleased
<1>6. ReceiptTruthful' /\ CopiesTruthful' /\ PostingMarked' /\ CopiesCurrent'
  BY <1>1, <1>2, <1>3
     DEF IInv, ReceiptTruthful, CopiesTruthful, Truthful, PostingMarked, Marked,
         CopiesCurrent, Leased, Unleased
<1> QED BY <1>1, <1>4, <1>5, <1>6 DEF IInv, SubmittedOnce

(* The platform, and what others do there, only move the program that waits.  *)
LEMMA PlatformKeeps ==
    ASSUME IInv, NEW c \in Calls, Arrive(c) \/ Decline(c) \/ Outside(c)
    PROVE  IInv'
<1>1. UNCHANGED <<kind, receipt, local, holder, posted>>
      /\ wire' \subseteq Calls /\ applied' \subseteq Calls
      /\ already' \subseteq Calls
  BY DEF Arrive, Decline, Outside, IInv, TypeOK
<1>2. CASE UNCHANGED prog
  BY <1>1, <1>2
     DEF IInv, TypeOK, SubmittedOnce, ReadsOnly, LeaseHeld, ReceiptTruthful,
         CopiesTruthful, Truthful, PostingMarked, Marked, CopiesCurrent,
         Leased, Unleased
<1>3. ASSUME NEW p \in Programs, NEW pc \in {"answered", "refused"},
             prog[p].pc = "waiting", prog' = [prog EXCEPT ![p].pc = pc]
      PROVE  IInv'
  <2> DEFINE x == [prog[p] EXCEPT !.pc = pc]
  <2>1. x \in ProgramStates /\ x.pc = pc /\ x.copy = prog[p].copy
        /\ x.command = prog[p].command
    BY DEF IInv, TypeOK, ProgramStates, Phases
  <2>2. prog' = [prog EXCEPT ![p] = x] BY <1>3 DEF IInv, TypeOK
  <2> HIDE DEF x
  <2>3. prog'[p] = x /\ \A q \in Programs \ {p} : prog'[q] = prog[q]
    BY <2>2 DEF IInv, TypeOK
  <2>4. TypeOK' BY <1>1, <2>1, <2>2 DEF IInv, TypeOK
  <2>5. ReadsOnly' /\ LeaseHeld'
    BY <1>1, <1>3, <2>1, <2>3
       DEF IInv, ReadsOnly, LeaseHeld, Leased, Unleased
  <2>6. ReceiptTruthful' /\ CopiesTruthful'
    BY <1>1, <1>3, <2>1, <2>3
       DEF IInv, ReceiptTruthful, CopiesTruthful, Truthful, Leased, Unleased
  <2>7. PostingMarked' /\ CopiesCurrent'
    BY <1>1, <1>3, <2>1, <2>3 DEF IInv, PostingMarked, Marked, CopiesCurrent
  <2> QED BY <1>1, <2>4, <2>5, <2>6, <2>7 DEF IInv, SubmittedOnce
<1> QED BY <1>2, <1>3 DEF Arrive, Decline, Outside

LEMMA StutterKeeps == ASSUME IInv, UNCHANGED vars PROVE IInv'
BY DEF vars, IInv, TypeOK, SubmittedOnce, ReadsOnly, LeaseHeld,
       ReceiptTruthful, CopiesTruthful, Truthful, PostingMarked, Marked,
       CopiesCurrent, Leased, Unleased

LEMMA NextKeeps == ASSUME IInv, [Next]_vars PROVE IInv'
BY BeginKeeps, StepKeeps, PostKeeps, StopKeeps, PlatformKeeps, StutterKeeps
   DEF Next

THEOREM Invariance == Spec => []IInv
BY InitInvariant, NextKeeps, PTL DEF Spec

(* The request, its receipt, the programs and what is on its way keep their   *)
(* types, for any number of programs and files (internal/publish).            *)
THEOREM Typing == Spec => []TypeOK
<1>1. IInv => TypeOK BY DEF IInv
<1> QED BY <1>1, Invariance, PTL

(* No call of a request is posted twice, whatever commands follow one another *)
(* or overlap after whatever crash, refusal or lost answer: every platform's  *)
(* code saves the intent before the call and reads it back under the lease.   *)
THEOREM NothingSentTwice == Spec => []SubmittedOnce
<1>1. IInv => SubmittedOnce BY DEF IInv
<1> QED BY <1>1, Invariance, PTL

LEMMA StepRetainsVerdict ==
    ASSUME IInv, NEW p \in Programs, Step(p),
           kind \notin {"dd_change", "dd_backup"}
    PROVE  Final
<1> SUFFICES ASSUME receipt # None, receipt.over # "open"
             PROVE  receipt' = receipt
  BY DEF Final
<1>1. Shape(p) BY StepShape DEF IInv
<1>2. receipt \in Receipts BY DEF IInv, TypeOK
<1>3. prog[p].copy = receipt BY <1>1, <1>2 DEF IInv, CopiesCurrent, Shape
<1>4. ~Writes(p) \/ UNCHANGED receipt
  BY <1>3, ReceiptAssumption DEF Writes, Follows
<1> QED BY <1>1, <1>4 DEF Shape, Keeps

(* A verdict once on disk is never replaced where every command takes the     *)
(* lease: a rejection cannot become a success because somebody else brought   *)
(* the effect about, nor a success be reopened.                               *)
THEOREM VerdictsAreFinal == Spec => VerdictStays
<1>1. ASSUME IInv, [Next]_vars
      PROVE  [kind \notin {"dd_change", "dd_backup"} => Final]_vars
  <2>1. ASSUME NEW p \in Programs, Step(p)
        PROVE  kind \notin {"dd_change", "dd_backup"} => Final
    BY <1>1, <2>1, StepRetainsVerdict
  <2>2. ASSUME UNCHANGED receipt PROVE Final BY <2>2 DEF Final
  <2>3. ASSUME NEW p \in Programs, NEW cmd \in Commands,
               Begin(p, cmd) \/ PostCall(p) \/ Stop(p)
        PROVE  UNCHANGED receipt
    BY <2>3 DEF Begin, PostCall, Stop
  <2>4. ASSUME NEW c \in Calls, Arrive(c) \/ Decline(c) \/ Outside(c)
        PROVE  UNCHANGED receipt
    BY <2>4 DEF Arrive, Decline, Outside
  <2>5. Commands # {} BY DEF Commands
  <2> QED BY <1>1, <2>1, <2>2, <2>3, <2>4, <2>5 DEF Next, vars
<1> QED BY <1>1, Invariance, PTL DEF Spec, VerdictStays

-----------------------------------------------------------------------------
(* Nothing missing.  What a receipt says of its calls has to hold of every    *)
(* copy too, for a program may save the one it has long held.                 *)

(* The calls that make a request visible, and what has to be there first.     *)
Shown == {Post, Finish, Metadata}
Parts(c) ==
    Puts \union Stores \union {Allocate, Reserve}
        \union (IF c = Metadata THEN {} ELSE {Binary})
Made == {"uncertain", "submitted", "settled"}

(* A receipt that can be relied on, whoever still has a copy of it: what is   *)
(* settled is on the platform, what is complete is settled, only calls of the *)
(* kind are pending, and what shows was posted after its parts were settled.  *)
Sound(r) ==
    /\ \A c \in Calls : r.says[c] = "settled" => Stored(c)
    /\ r.over = "complete" => Done(r, Calls)
    /\ \A c \in Calls : r.says[c] # "spared" => c \in MayMake
    /\ \A c \in {Post, Finish} : c \in MayMake => r.says[c] # "spared"
    /\ \A c \in Shown : r.says[c] \in Made => Done(r, Parts(c))

(* The call a program is about to make, or has made and waits for.            *)
Asks(x) ==
    /\ x.call \in Calls \intersect MayMake
    /\ x.copy \in Receipts /\ x.copy.says[x.call] = "uncertain"
Asking == {"posting", "waiting", "answered", "refused"}

ReceiptSound == receipt # None => Sound(receipt)
CopiesSound == \A p \in Programs : prog[p].copy # None => Sound(prog[p].copy)
AskingKnown ==
    \A p \in Programs :
        /\ prog[p].pc \in Asking => Asks(prog[p])
        /\ prog[p].pc = "answered" => prog[p].call \in applied

(* Only calls of the kind that were posted are on their way or carried out.   *)
OnlyPosted == \A c \in wire \union applied : c \in MayMake /\ posted[c] > 0

(* Whatever the file says, open or over, what it calls unsent was not posted. *)
FileMarks ==
    receipt # None =>
        \A c \in Calls : receipt.says[c] = "unsent" => posted[c] = 0

Whole ==
    ReceiptSound /\ CopiesSound /\ AskingKnown /\ OnlyPosted /\ FileMarks

-----------------------------------------------------------------------------
(* What the steps make of a receipt keeps it sound.                           *)
LEMMA PartsAreCalls ==
    /\ Shown \subseteq Calls /\ Puts \subseteq Calls /\ Stores \subseteq Calls
    /\ {Allocate, Reserve, Binary} \subseteq Calls
    /\ \A c : Parts(c) \subseteq Calls
BY NamedCalls DEF Shown, Parts

LEMMA MarkSays ==
    ASSUME NEW r \in Receipts, NEW c \in Calls, NEW m
    PROVE  /\ Mark(r, c, m).says[c] = m /\ Mark(r, c, m).over = r.over
           /\ \A d \in Calls \ {c} : Mark(r, c, m).says[d] = r.says[d]
BY DEF Mark, Receipts

(* A call that is confirmed must show and must have been posted, and nothing  *)
(* else that was posted waited for it.                                        *)
LEMMA SettleSound ==
    ASSUME NEW r \in Receipts, NEW c \in Calls, Sound(r), r.over = "open",
           Stored(c), r.says[c] \in {"uncertain", "submitted"}
    PROVE  Sound(Settle(r, c))
<1> DEFINE s == Settle(r, c)
<1>1. /\ s.says[c] = "settled" /\ s.over = "open"
      /\ \A d \in Calls \ {c} : s.says[d] = r.says[d]
  BY MarkSays DEF Settle
<1> HIDE DEF s
<1>2. \A d \in Calls : r.says[d] \in {"settled", "spared"}
                          => s.says[d] \in {"settled", "spared"}
  BY <1>1
<1>3. ASSUME NEW d \in Shown, s.says[d] \in Made PROVE Done(s, Parts(d))
  <2>1. r.says[d] \in Made BY <1>1, <1>3, PartsAreCalls DEF Made
  <2> QED BY <1>2, <1>3, <2>1, PartsAreCalls DEF Sound, Done
<1>4. \A d \in {Post, Finish} : d \in MayMake => s.says[d] # "spared"
  BY <1>1, NamedCalls DEF Sound
<1>5. \A d \in Calls : s.says[d] # "spared" => d \in MayMake
  BY <1>1 DEF Sound
<1>6. \A d \in Calls : s.says[d] = "settled" => Stored(d)
  BY <1>1 DEF Sound
<1>7. Sound(s) BY <1>1, <1>3, <1>4, <1>5, <1>6 DEF Sound
<1> QED BY <1>7 DEF s

LEMMA SubmitSound ==
    ASSUME NEW r \in Receipts, NEW c \in Calls, Sound(r), r.over = "open",
           r.says[c] \in {"uncertain", "submitted"}
    PROVE  Sound(Mark(r, c, "submitted"))
<1> DEFINE s == Mark(r, c, "submitted")
<1>1. /\ s.says[c] = "submitted" /\ s.over = "open"
      /\ \A d \in Calls \ {c} : s.says[d] = r.says[d]
  BY MarkSays
<1> HIDE DEF s
<1>2. \A d \in Calls : r.says[d] \in {"settled", "spared"}
                          => s.says[d] \in {"settled", "spared"}
  BY <1>1
<1>3. ASSUME NEW d \in Shown, s.says[d] \in Made PROVE Done(s, Parts(d))
  <2>1. r.says[d] \in Made BY <1>1, <1>3, PartsAreCalls DEF Made
  <2> QED BY <1>2, <1>3, <2>1, PartsAreCalls DEF Sound, Done
<1>4. \A d \in {Post, Finish} : d \in MayMake => s.says[d] # "spared"
  BY <1>1, NamedCalls DEF Sound
<1>5. \A d \in Calls : s.says[d] # "spared" => d \in MayMake
  BY <1>1 DEF Sound
<1>6. \A d \in Calls : s.says[d] = "settled" => Stored(d)
  BY <1>1 DEF Sound
<1>7. Sound(s) BY <1>1, <1>3, <1>4, <1>5, <1>6 DEF Sound
<1> QED BY <1>7 DEF s

(* A call is only intended when its parts are settled or not needed.          *)
LEMMA IntendSound ==
    ASSUME NEW r \in Receipts, NEW c \in Calls, Sound(r), r.over = "open",
           r.says[c] = "unsent", c \in Shown => Done(r, Parts(c))
    PROVE  Sound(Mark(r, c, "uncertain")) /\ c \in MayMake
<1> DEFINE s == Mark(r, c, "uncertain")
<1>1. /\ s.says[c] = "uncertain" /\ s.over = "open"
      /\ \A d \in Calls \ {c} : s.says[d] = r.says[d]
  BY MarkSays
<1> HIDE DEF s
<1>2. \A d \in Calls : r.says[d] \in {"settled", "spared"}
                          => s.says[d] \in {"settled", "spared"}
  BY <1>1
<1>3. ASSUME NEW d \in Shown, s.says[d] \in Made PROVE Done(s, Parts(d))
  <2>1. Done(r, Parts(d))
    BY <1>1, <1>3, PartsAreCalls DEF Sound
  <2> QED BY <1>2, <1>3, <2>1, PartsAreCalls DEF Done
<1>4. \A d \in {Post, Finish} : d \in MayMake => s.says[d] # "spared"
  BY <1>1, NamedCalls DEF Sound
<1>5. c \in MayMake BY DEF Sound
<1>6. \A d \in Calls : s.says[d] # "spared" => d \in MayMake
  BY <1>1, <1>5 DEF Sound
<1>7. \A d \in Calls : s.says[d] = "settled" => Stored(d)
  BY <1>1 DEF Sound
<1>8. Sound(s) BY <1>1, <1>3, <1>4, <1>6, <1>7 DEF Sound
<1> QED BY <1>5, <1>8 DEF s

(* Parts the platform has already, and deletions of what is referenced, are   *)
(* not needed.                                                                *)
LEMMA SpareSound ==
    ASSUME NEW r \in Receipts, NEW s \in Receipts, Sound(r), r.over = "open",
           s.over = "open",
           NEW C \in SUBSET (Calls \ Shown), \A c \in C : s.says[c] = "spared",
           \A c \in Calls \ C : s.says[c] = r.says[c]
    PROVE  Sound(s)
<1>2. \A d \in Calls : r.says[d] \in {"settled", "spared"}
                          => s.says[d] \in {"settled", "spared"}
  OBVIOUS
<1>3. ASSUME NEW d \in Shown, s.says[d] \in Made PROVE Done(s, Parts(d))
  <2>1. d \in Calls \ C BY PartsAreCalls
  <2>2. Done(r, Parts(d)) BY <1>3, <2>1 DEF Sound
  <2> QED BY <1>2, <1>3, <2>2, PartsAreCalls DEF Done
<1>4. \A d \in {Post, Finish} : d \in MayMake => s.says[d] # "spared"
  BY NamedCalls DEF Sound, Shown
<1>5. \A d \in Calls : s.says[d] # "spared" => d \in MayMake
  BY DEF Sound
<1>6. \A d \in Calls : s.says[d] = "settled" => Stored(d)
  BY DEF Sound
<1> QED BY <1>3, <1>4, <1>5, <1>6 DEF Sound

LEMMA CloseSound ==
    ASSUME NEW r \in Receipts, Sound(r), r.over = "open"
    PROVE  Sound(Close(r, "rejected"))
<1>1. /\ Close(r, "rejected").says = r.says
      /\ Close(r, "rejected").over = "rejected"
  BY DEF Close, Receipts
<1> QED BY <1>1 DEF Sound, Done

(* The verdict on a request that had everything confirmed.                    *)
LEMMA CompleteSound ==
    ASSUME NEW r \in Receipts, Sound(r),
           \A c \in Calls : r.says[c] # "spared" => Stored(c)
    PROVE  Sound(Complete(r))
<1> DEFINE s == Complete(r)
<1>1. \A c \in Calls :
          s.says[c] = IF r.says[c] = "spared" THEN "spared" ELSE "settled"
  BY DEF Complete
<1> HIDE DEF s
<1>2. Done(s, Calls) BY <1>1 DEF Done
<1>3. \A d \in Shown : Done(s, Parts(d)) BY <1>2, PartsAreCalls DEF Done
<1>4. Sound(s) BY <1>1, <1>2, <1>3, NamedCalls DEF Sound
<1> QED BY <1>4 DEF s

LEMMA FreshSound ==
    ASSUME NEW C \in SUBSET MayMake, MayMake \intersect {Post, Finish} \subseteq C
    PROVE  Sound(FreshReceipt(C)) /\ FreshReceipt(C).over = "open"
<1>1. /\ FreshReceipt(C).over = "open"
      /\ \A c \in Calls : FreshReceipt(C).says[c] =
                             IF c \in C THEN "unsent" ELSE "spared"
  BY DEF FreshReceipt
<1> QED BY <1>1, NamedCalls, PartsAreCalls DEF Sound, Made

-----------------------------------------------------------------------------
(* The receipt a step leaves with its program is sound, and a call it is      *)
(* about to make is one of the kind, marked as uncertain.                     *)
Leaves(x) ==
    /\ x.copy # None => Sound(x.copy)
    /\ x.pc \in Asking => x.pc = "posting" /\ Asks(x)
Sounds(p) == Leaves(prog'[p])

LEMMA SaveSounds ==
    ASSUME TypeOK, NEW p \in Programs, NEW r, Sound(r), Save(p, r)
    PROVE  Sounds(p)
<1>1. prog'[p].pc = "turn" /\ prog'[p].copy = r
  BY DEF Save, TypeOK, ProgramStates
<1> QED BY <1>1 DEF Sounds, Leaves, Asking

LEMMA CreateSounds ==
    ASSUME TypeOK, NEW p \in Programs, NEW r, Sound(r), Create(p, r)
    PROVE  Sounds(p)
<1>1. prog'[p].pc = "turn" /\ prog'[p].copy = r
  BY DEF Create, TypeOK, ProgramStates
<1> QED BY <1>1 DEF Sounds, Leaves, Asking

LEMMA PrepareSounds ==
    ASSUME TypeOK, NEW p \in Programs, NEW r, Sound(r),
           PrepareFiles(p, "made", r)
    PROVE  Sounds(p)
<1>1. prog'[p].pc = "preparing" /\ prog'[p].copy = r
  BY DEF PrepareFiles, TypeOK, ProgramStates
<1> QED BY <1>1 DEF Sounds, Leaves, Asking

LEMMA IntendSounds ==
    ASSUME TypeOK, NEW p \in Programs, NEW r \in Receipts, NEW c \in Calls,
           Sound(r), r.over = "open", r.says[c] = "unsent",
           c \in Shown => Done(r, Parts(c)), Intend(p, c, r)
    PROVE  Sounds(p)
<1>1. /\ prog'[p].pc = "posting" /\ prog'[p].call = c
      /\ prog'[p].copy = Mark(r, c, "uncertain")
  BY DEF Intend, TypeOK, ProgramStates
<1>2. Sound(Mark(r, c, "uncertain")) /\ c \in MayMake BY IntendSound
<1>3. /\ Mark(r, c, "uncertain") \in Receipts
      /\ Mark(r, c, "uncertain").says[c] = "uncertain"
  BY MarkIsReceipt DEF Marks
<1> QED BY <1>1, <1>2, <1>3 DEF Sounds, Leaves, Asks

(* What a program can rely on in its turn and when it has an answer.          *)
LEMMA HeldSound ==
    ASSUME TypeOK, CopiesSound, NEW p \in Programs, Holding(p)
    PROVE  /\ prog[p].copy \in Receipts /\ prog[p].copy.over = "open"
           /\ Sound(prog[p].copy)
BY DEF TypeOK, ProgramStates, Holding, CopiesSound

LEMMA AnswerSound ==
    ASSUME TypeOK, CopiesSound, AskingKnown, NEW p \in Programs, Answered(p)
    PROVE  /\ Holding(p) /\ prog[p].call \in Calls \intersect MayMake
           /\ prog[p].copy.says[prog[p].call] = "uncertain"
           /\ Stored(prog[p].call)
BY DEF Answered, AskingKnown, Asking, Asks, Stored

(* Saves of a receipt that is held.                                           *)
LEMMA SettleSounds ==
    ASSUME TypeOK, CopiesSound, NEW p \in Programs, NEW c \in Calls, Holding(p),
           Stored(c), prog[p].copy.says[c] \in {"uncertain", "submitted"},
           Save(p, Settle(prog[p].copy, c))
    PROVE  Sounds(p)
BY HeldSound, SettleSound, SaveSounds

LEMMA SubmitSounds ==
    ASSUME TypeOK, CopiesSound, NEW p \in Programs, NEW c \in Calls, Holding(p),
           prog[p].copy.says[c] \in {"uncertain", "submitted"},
           Save(p, Mark(prog[p].copy, c, "submitted"))
    PROVE  Sounds(p)
BY HeldSound, SubmitSound, SaveSounds

LEMMA SpareSounds ==
    ASSUME TypeOK, CopiesSound, NEW p \in Programs, NEW c \in Calls \ Shown,
           Holding(p), Save(p, Mark(prog[p].copy, c, "spared"))
    PROVE  Sounds(p)
<1>1. prog[p].copy \in Receipts /\ prog[p].copy.over = "open"
      /\ Sound(prog[p].copy)
  BY HeldSound
<1> DEFINE s == Mark(prog[p].copy, c, "spared")
<1>2. s \in Receipts BY <1>1, MarkIsReceipt DEF Marks
<1>3. /\ s.says[c] = "spared" /\ s.over = "open"
      /\ \A d \in Calls \ {c} : s.says[d] = prog[p].copy.says[d]
  BY <1>1, MarkSays
<1>4. Save(p, s) OBVIOUS
<1> HIDE DEF s
<1>5. Sound(s)
  <2>1. {c} \in SUBSET (Calls \ Shown) OBVIOUS
  <2> QED BY <1>1, <1>2, <1>3, <2>1, SpareSound
<1> QED BY <1>4, <1>5, SaveSounds

LEMMA RejectSounds ==
    ASSUME TypeOK, CopiesSound, NEW p \in Programs, Holding(p),
           Save(p, Close(prog[p].copy, "rejected"))
    PROVE  Sounds(p)
BY HeldSound, CloseSound, SaveSounds

LEMMA CompleteSounds ==
    ASSUME TypeOK, CopiesSound, NEW p \in Programs, Holding(p),
           \A c \in Calls : prog[p].copy.says[c] # "spared" => Stored(c),
           Save(p, Complete(prog[p].copy))
    PROVE  Sounds(p)
BY HeldSound, CompleteSound, SaveSounds

LEMMA ContinueSounds ==
    ASSUME TypeOK, CopiesSound, NEW p \in Programs, NEW c \in Calls, Holding(p),
           Has(p, c, "unsent"), c \in Shown => Done(prog[p].copy, Parts(c)),
           Intend(p, c, prog[p].copy)
    PROVE  Sounds(p)
BY HeldSound, IntendSounds DEF Has

(* The first save of a request with these calls, or the intent to make one.   *)
LEMMA NewSounds ==
    ASSUME TypeOK, NEW p \in Programs, NEW C \in SUBSET MayMake,
           MayMake \intersect {Post, Finish} \subseteq C,
           \/ Create(p, FreshReceipt(C))
           \/ PrepareFiles(p, "made", FreshReceipt(C))
           \/ \E c \in C : /\ c \in Calls
                           /\ c \in Shown => C \intersect Parts(c) = {}
                           /\ Intend(p, c, FreshReceipt(C))
    PROVE  Sounds(p)
<1> DEFINE r == FreshReceipt(C)
<1>1. r \in Receipts BY FreshIsReceipt
<1>2. Sound(r) /\ r.over = "open" BY FreshSound
<1>3. \A c \in Calls : r.says[c] = IF c \in C THEN "unsent" ELSE "spared"
  BY DEF FreshReceipt
<1> HIDE DEF r
<1>4. ASSUME NEW c \in C, c \in Calls, c \in Shown => C \intersect Parts(c) = {},
             Intend(p, c, r)
      PROVE  Sounds(p)
  <2>1. r.says[c] = "unsent" BY <1>3, <1>4
  <2>2. c \in Shown => Done(r, Parts(c))
    BY <1>3, <1>4, PartsAreCalls DEF Done
  <2> QED BY <1>1, <1>2, <1>4, <2>1, <2>2, IntendSounds
<1> QED BY <1>2, <1>4, CreateSounds, PrepareSounds DEF r

(* A request that is to make one call, and what is only to be confirmed when  *)
(* a receipt has that call.                                                   *)
LEMMA OnlyOne ==
    ASSUME TypeOK, CopiesSound, NEW p \in Programs, Holding(p), NEW c,
           MayMake = {c}, Stored(c)
    PROVE  \A d \in Calls : prog[p].copy.says[d] # "spared" => Stored(d)
BY HeldSound DEF Sound

-----------------------------------------------------------------------------
(* The calls of each kind, and that they are told apart.                      *)
LEMMA CallsOfKind ==
    /\ kind \in {"cf_upload", "nb_edit", "nb_create", "nb_official", "dd_object",
                 "dd_change", "modus_change"} => MayMake = {Post}
    /\ kind \in {"nb_delete", "dd_delete", "bb_delete", "modus_delete"}
          => MayMake = Deletes
    /\ kind \in {"bb_rename", "modus_rename"} => MayMake = {Rename}
    /\ kind \in {"bb_edit", "bb_create"} => MayMake = {Binary, Post}
    /\ kind = "modus_release" => MayMake = {Reserve, Metadata, Binary}
    /\ kind = "nb_backup" => MayMake = Puts \union {Post, Rename}
    /\ kind = "dd_backup" => MayMake = Puts \union {Allocate, Finish, Rename}
    /\ kind = "bb_backup" => MayMake = Puts \union {Allocate, Finish}
    /\ kind = "modus_backup" => MayMake = Puts \union Stores \union {Finish}
BY DEF MayMake

LEMMA CallsDiffer ==
    /\ Post[1] = "post" /\ Reserve[1] = "reserve" /\ Metadata[1] = "metadata"
    /\ Binary[1] = "binary" /\ Allocate[1] = "allocate"
    /\ Finish[1] = "finish" /\ Rename[1] = "rename"
    /\ \A c \in Puts : c[1] = "put"
    /\ \A c \in Stores : c[1] = "store"
    /\ \A c \in Deletes : c[1] = "delete"
BY DEF Post, Reserve, Metadata, Binary, Allocate, Finish, Rename, Puts, Put,
       Stores, Store, Deletes, Delete

(* No call of these shows anything by itself.                                 *)
LEMMA HiddenCalls ==
    /\ {Reserve, Binary, Allocate, Rename} \subseteq Calls \ Shown
    /\ Puts \subseteq Calls \ Shown /\ Stores \subseteq Calls \ Shown
    /\ Deletes \subseteq Calls \ Shown
    /\ \A i \in Files : {Put(i), Store(i), Delete(i)} \subseteq Calls \ Shown
<1>1. \A i \in Files : Put(i) \in Puts /\ Store(i) \in Stores /\ Delete(i) \in Deletes
  BY DEF Puts, Stores, Deletes
<1> QED BY <1>1, NamedCalls, CallsDiffer DEF Shown

(* What has to be there before a call shows, as far as a kind makes it.       *)
LEMMA PartsOfKind ==
    ASSUME TypeOK, CopiesSound, NEW p \in Programs, Holding(p)
    PROVE  /\ \A c : Done(prog[p].copy, MayMake \intersect Parts(c))
                        => Done(prog[p].copy, Parts(c))
           /\ MayMake = {Post} => Done(prog[p].copy, Parts(Post))
           /\ kind \in {"bb_edit", "bb_create"}
                /\ Done(prog[p].copy, {Binary}) => Done(prog[p].copy, Parts(Post))
           /\ kind = "nb_backup" /\ Done(prog[p].copy, Puts)
                => Done(prog[p].copy, Parts(Post))
           /\ kind \in {"dd_backup", "bb_backup"}
                /\ Done(prog[p].copy, Puts \union {Allocate})
                => Done(prog[p].copy, Parts(Finish))
           /\ kind = "modus_backup" /\ Done(prog[p].copy, Puts \union Stores)
                => Done(prog[p].copy, Parts(Finish))
           /\ kind = "modus_release" /\ Done(prog[p].copy, {Reserve})
                => Done(prog[p].copy, Parts(Metadata))
<1> DEFINE r == prog[p].copy
<1>1. \A c \in Calls : r.says[c] # "spared" => c \in MayMake
  BY HeldSound DEF Sound
<1> HIDE DEF r
<1>2. \A c : Done(r, MayMake \intersect Parts(c)) => Done(r, Parts(c))
  BY <1>1, PartsAreCalls DEF Done
<1>3. MayMake = {Post} => MayMake \intersect Parts(Post) = {}
  BY CallsDiffer DEF Parts
<1>4. kind \in {"bb_edit", "bb_create"}
        => MayMake \intersect Parts(Post) \subseteq {Binary}
  BY CallsOfKind, CallsDiffer DEF Parts
<1>5. kind = "nb_backup" => MayMake \intersect Parts(Post) \subseteq Puts
  BY CallsOfKind, CallsDiffer DEF Parts
<1>6. kind \in {"dd_backup", "bb_backup"}
        => MayMake \intersect Parts(Finish) \subseteq Puts \union {Allocate}
  BY CallsOfKind, CallsDiffer DEF Parts
<1>7. kind = "modus_backup"
        => MayMake \intersect Parts(Finish) \subseteq Puts \union Stores
  BY CallsOfKind, CallsDiffer DEF Parts
<1>8. kind = "modus_release" => MayMake \intersect Parts(Metadata) \subseteq {Reserve}
  BY CallsOfKind, CallsDiffer DEF Parts
<1>9. /\ MayMake = {Post} => Done(r, Parts(Post))
      /\ kind \in {"bb_edit", "bb_create"} /\ Done(r, {Binary})
           => Done(r, Parts(Post))
      /\ kind = "nb_backup" /\ Done(r, Puts) => Done(r, Parts(Post))
  BY <1>2, <1>3, <1>4, <1>5 DEF Done
<1>10. /\ kind \in {"dd_backup", "bb_backup"} /\ Done(r, Puts \union {Allocate})
            => Done(r, Parts(Finish))
       /\ kind = "modus_backup" /\ Done(r, Puts \union Stores)
            => Done(r, Parts(Finish))
       /\ kind = "modus_release" /\ Done(r, {Reserve})
            => Done(r, Parts(Metadata))
  BY <1>2, <1>6, <1>7, <1>8 DEF Done
<1> QED BY <1>2, <1>9, <1>10 DEF r

(* A receipt that says a call was posted has its parts on the platform.       *)
LEMMA PostedHasParts ==
    ASSUME TypeOK, CopiesSound, NEW p \in Programs, Holding(p), NEW c \in Shown,
           Has(p, c, "uncertain") \/ Has(p, c, "submitted") \/ Has(p, c, "settled")
    PROVE  \A d \in Parts(c) : prog[p].copy.says[d] # "spared" => Stored(d)
BY HeldSound, PartsAreCalls DEF Sound, Has, Made, Done

-----------------------------------------------------------------------------
(* CurseForge.                                                                *)
LEMMA CFSounds ==
    ASSUME TypeOK, CopiesSound, AskingKnown, NEW p \in Programs, CFStep(p)
    PROVE  Sounds(p)
<1> USE NamedCalls
<1>0. MayMake = {Post}
  BY CallsOfKind
     DEF CFStep, CFIntend, CFAcknowledge, CFReject, CFVerify, CFUpload
<1>1. CASE CFIntend(p)
  <2>1. {Post} \intersect Parts(Post) = {} BY CallsDiffer DEF Parts
  <2> QED BY <1>0, <1>1, <2>1, NewSounds DEF CFIntend
<1>2. CASE CFAcknowledge(p)
  BY <1>0, <1>2, AnswerSound, SubmitSounds DEF CFAcknowledge
<1>3. CASE CFReject(p) BY <1>3, RejectSounds DEF CFReject, Refused
<1>4. CASE CFVerify(p)
  BY <1>0, <1>4, OnlyOne, CompleteSounds DEF CFVerify, Open
<1> QED BY <1>1, <1>2, <1>3, <1>4 DEF CFStep

-----------------------------------------------------------------------------
(* NewBee.                                                                    *)
LEMMA NBWriteSounds ==
    ASSUME TypeOK, CopiesSound, AskingKnown, NEW p \in Programs,
           \/ NBSubmit(p) \/ NBAccept(p) \/ NBReject(p) \/ NBReadBack(p)
           \/ NBVerify(p) \/ NBOfficial(p)
    PROVE  Sounds(p)
<1> USE NamedCalls
<1>0. MayMake = {Post}
  BY CallsOfKind
     DEF NBSubmit, NBAccept, NBReject, NBReadBack, NBVerify, NBOfficial,
         NBWrite, NBCreator
<1>1. CASE NBSubmit(p)
  <2>1. {Post} \intersect Parts(Post) = {} BY CallsDiffer DEF Parts
  <2> QED BY <1>0, <1>1, <2>1, NewSounds DEF NBSubmit
<1>2. CASE NBAccept(p)
  BY <1>0, <1>2, AnswerSound, SubmitSounds DEF NBAccept
<1>3. CASE NBReject(p) BY <1>3, RejectSounds DEF NBReject, Refused
<1>4. CASE NBReadBack(p)
  BY <1>0, <1>4, OnlyOne, CompleteSounds DEF NBReadBack, Open
<1>5. CASE NBVerify(p)
  BY <1>0, <1>5, OnlyOne, CompleteSounds DEF NBVerify, Open
<1>6. CASE NBOfficial(p)
  BY <1>0, <1>6, AnswerSound, OnlyOne, CompleteSounds DEF NBOfficial
<1> QED BY <1>1, <1>2, <1>3, <1>4, <1>5, <1>6

(* Every deletion confirmed, the request is complete.                         *)
LEMMA NBDoneSounds ==
    ASSUME TypeOK, CopiesSound, NEW p \in Programs, kind = "nb_delete",
           NEW c \in Calls, Holding(p), Stored(c),
           prog[p].copy.says[c] \in {"uncertain", "submitted"},
           Save(p, NBDeleted(Settle(prog[p].copy, c)))
    PROVE  Sounds(p)
<1> DEFINE s == Settle(prog[p].copy, c)
<1>1. s \in Receipts BY HeldSound, MarkIsReceipt DEF Settle, Marks
<1>2. Sound(s) BY HeldSound, SettleSound
<1>3. Save(p, NBDeleted(s)) OBVIOUS
<1> HIDE DEF s
<1>4. Done(s, Deletes) => \A d \in Calls : s.says[d] # "spared" => Stored(d)
  BY <1>2, CallsOfKind DEF Sound, Done
<1>5. Sound(NBDeleted(s))
  BY <1>1, <1>2, <1>4, CompleteSound DEF NBDeleted
<1> QED BY <1>3, <1>5, SaveSounds

LEMMA NBDeleteSounds ==
    ASSUME TypeOK, CopiesSound, AskingKnown, NEW p \in Programs,
           \/ NBFindAbsent(p) \/ NBPreview(p) \/ NBDeleteDone(p)
           \/ NBDeleteReject(p) \/ \E i \in Files : NBDelete(p, i)
    PROVE  Sounds(p)
<1> USE NamedCalls
<1>0. MayMake = Deletes
  BY CallsOfKind
     DEF NBFindAbsent, NBPreview, NBDeleteDone, NBDeleteReject, NBDelete, NBDeletes
<1>1. CASE NBFindAbsent(p)
  BY <1>1, NBDoneSounds DEF NBFindAbsent, Open, Those
<1>2. CASE NBPreview(p)
  <2>1. prog'[p].copy = prog[p].copy /\ prog'[p].pc = "turn"
    BY <1>2 DEF NBPreview, NBDeletes, InTurn, Check, TypeOK, ProgramStates
  <2> QED BY <2>1 DEF Sounds, Leaves, Asking, CopiesSound
<1>3. CASE NBDeleteDone(p)
  BY <1>3, AnswerSound, NBDoneSounds DEF NBDeleteDone
<1>4. CASE NBDeleteReject(p)
  BY <1>4, RejectSounds DEF NBDeleteReject, Refused
<1>5. ASSUME NEW i \in Files, NBDelete(p, i) PROVE Sounds(p)
  <2>1. CASE New(p) /\ prog[p].copy = None
    <3>1. Delete(i) \in MayMake /\ Delete(i) \notin Shown
          /\ MayMake \intersect {Post, Finish} = {}
      BY <1>0, HiddenCalls, CallsDiffer DEF Deletes
    <3> QED BY <1>5, <2>1, <3>1, NewSounds DEF NBDelete
  <2>2. CASE Holding(p) /\ prog[p].copy # None
    BY <1>5, <2>2, ContinueSounds, HiddenCalls
       DEF NBDelete, NBRemaining, Those, Has
  <2> QED BY <1>5, <2>1, <2>2 DEF NBDelete, NBDeletes, New, Holding
<1> QED BY <1>1, <1>2, <1>3, <1>4, <1>5

LEMMA NBBackupSounds ==
    ASSUME TypeOK, CopiesSound, AskingKnown, NEW p \in Programs,
           \/ NBBackupPrepare(p) \/ NBBackupPutDone(p) \/ NBBackupCreate(p)
           \/ NBBackupFind(p) \/ NBBackupRename(p) \/ NBBackupRenamed(p)
           \/ NBBackupComplete(p) \/ NBBackupReject(p)
           \/ \E i \in Files : NBBackupPut(p, i)
    PROVE  Sounds(p)
<1> USE NamedCalls DEF NBUpload, Open
<1>0. kind = "nb_backup" /\ MayMake = Puts \union {Post, Rename}
  BY CallsOfKind
     DEF NBBackupPrepare, NBBackupPutDone, NBBackupCreate, NBBackupFind,
         NBBackupRename, NBBackupRenamed, NBBackupComplete, NBBackupReject,
         NBBackupPut
<1>1. CASE NBBackupPrepare(p)
  <2>1. PICK unnamed \in SUBSET {Rename} :
            Create(p, FreshReceipt(MayMake \ unnamed))
    BY <1>1 DEF NBBackupPrepare
  <2>2. MayMake \intersect {Post, Finish} \subseteq MayMake \ unnamed
    BY CallsDiffer
  <2> QED BY <2>1, <2>2, <1>1, NewSounds DEF NBBackupPrepare
<1>2. CASE NBBackupPutDone(p)
  BY <1>2, AnswerSound, SettleSounds DEF NBBackupPutDone
<1>3. CASE NBBackupCreate(p)
  BY <1>0, <1>3, ContinueSounds, PartsOfKind DEF NBBackupCreate
<1>4. CASE NBBackupFind(p)
  BY <1>4, AnswerSound, SettleSounds DEF NBBackupFind, Has, Shows
<1>5. CASE NBBackupRename(p)
  BY <1>5, ContinueSounds, HiddenCalls DEF NBBackupRename
<1>6. CASE NBBackupRenamed(p)
  BY <1>6, AnswerSound, SubmitSounds DEF NBBackupRenamed, Does
<1>7. CASE NBBackupComplete(p)
  <2>1. Post \in Shown /\ Puts \subseteq Parts(Post) BY DEF Shown, Parts
  <2>2. \A d \in Puts : prog[p].copy.says[d] # "spared" => Stored(d)
    BY <1>7, <2>1, PostedHasParts DEF NBBackupComplete
  <2>3. Stored(Post) BY <1>7, HeldSound DEF NBBackupComplete, Has, Sound
  <2>4. prog[p].copy.says[Rename] # "spared" => Stored(Rename)
    BY <1>7 DEF NBBackupComplete, Has
  <2>5. \A d \in Calls : prog[p].copy.says[d] # "spared" => Stored(d)
    BY <1>0, <1>7, <2>2, <2>3, <2>4, HeldSound DEF NBBackupComplete, Sound
  <2> QED BY <1>7, <2>5, CompleteSounds DEF NBBackupComplete
<1>8. CASE NBBackupReject(p) BY <1>8, RejectSounds DEF NBBackupReject, Refused
<1>9. ASSUME NEW i \in Files, NBBackupPut(p, i) PROVE Sounds(p)
  BY <1>9, ContinueSounds, HiddenCalls DEF NBBackupPut
<1> QED BY <1>1, <1>2, <1>3, <1>4, <1>5, <1>6, <1>7, <1>8, <1>9

LEMMA NBSounds ==
    ASSUME TypeOK, CopiesSound, AskingKnown, NEW p \in Programs, NBStep(p)
    PROVE  Sounds(p)
<1>1. CASE \/ NBSubmit(p) \/ NBAccept(p) \/ NBReject(p) \/ NBReadBack(p)
           \/ NBVerify(p) \/ NBOfficial(p)
  BY <1>1, NBWriteSounds
<1>2. CASE \/ NBFindAbsent(p) \/ NBPreview(p) \/ NBDeleteDone(p)
           \/ NBDeleteReject(p) \/ \E i \in Files : NBDelete(p, i)
  BY <1>2, NBDeleteSounds
<1>3. CASE \/ NBBackupPrepare(p) \/ NBBackupPutDone(p) \/ NBBackupCreate(p)
           \/ NBBackupFind(p) \/ NBBackupRename(p) \/ NBBackupRenamed(p)
           \/ NBBackupComplete(p) \/ NBBackupReject(p)
           \/ \E i \in Files : NBBackupPut(p, i)
  BY <1>3, NBBackupSounds
<1> QED BY <1>1, <1>2, <1>3 DEF NBStep

-----------------------------------------------------------------------------
(* DD.                                                                        *)
LEMMA DDChangeSounds ==
    ASSUME TypeOK, CopiesSound, AskingKnown, NEW p \in Programs,
           \/ DDUpload(p) \/ DDUploaded(p) \/ DDRecord(p) \/ DDSubmit(p)
           \/ DDAcknowledge(p) \/ DDVerify(p)
    PROVE  Sounds(p)
<1> USE NamedCalls DEF DDActs, Open
<1>0. MayMake = {Post}
  BY CallsOfKind
     DEF DDUpload, DDUploaded, DDRecord, DDSubmit, DDAcknowledge, DDVerify
<1>1. CASE DDUpload(p)
  <2>1. {Post} \intersect Parts(Post) = {} BY CallsDiffer DEF Parts
  <2> QED BY <1>0, <1>1, <2>1, NewSounds DEF DDUpload
<1>2. CASE DDUploaded(p)
  BY <1>0, <1>2, AnswerSound, OnlyOne, CompleteSounds DEF DDUploaded
<1>3. CASE DDRecord(p) BY <1>0, <1>3, NewSounds DEF DDRecord
<1>4. CASE DDSubmit(p)
  BY <1>0, <1>4, PartsOfKind, ContinueSounds DEF DDSubmit
<1>5. CASE DDAcknowledge(p)
  BY <1>0, <1>5, AnswerSound, SubmitSounds DEF DDAcknowledge
<1>6. CASE DDVerify(p)
  BY <1>0, <1>6, OnlyOne, CompleteSounds DEF DDVerify
<1> QED BY <1>1, <1>2, <1>3, <1>4, <1>5, <1>6

LEMMA DDBackupSounds ==
    ASSUME TypeOK, CopiesSound, AskingKnown, NEW p \in Programs,
           \/ DDAllocate(p) \/ DDAllocated(p) \/ DDComponentDone(p)
           \/ DDFinish(p) \/ DDFinished(p) \/ DDRename(p) \/ DDRenamed(p)
           \/ DDVerifyBackup(p)
           \/ \E i \in Files : \/ DDComponentSpared(p, i) \/ DDComponentPut(p, i)
                               \/ DDComponentFound(p, i)
    PROVE  Sounds(p)
<1> USE NamedCalls DEF DDContinues, Open
<1>0. kind = "dd_backup" /\ MayMake = Puts \union {Allocate, Finish, Rename}
  BY CallsOfKind
     DEF DDAllocate, DDAllocated, DDComponentDone, DDFinish, DDFinished,
         DDRename, DDRenamed, DDVerifyBackup, DDComponentSpared,
         DDComponentPut, DDComponentFound, DDNext
<1>1. CASE DDAllocate(p)
  <2>1. PICK unnamed \in SUBSET {Rename} :
            Intend(p, Allocate, FreshReceipt(MayMake \ unnamed))
    BY <1>1 DEF DDAllocate
  <2>2. MayMake \intersect {Post, Finish} \subseteq MayMake \ unnamed
        /\ Allocate \in MayMake \ unnamed /\ Allocate \notin Shown
    BY <1>0, CallsDiffer, HiddenCalls
  <2> QED BY <2>1, <2>2, <1>1, NewSounds DEF DDAllocate
<1>2. CASE DDAllocated(p)
  BY <1>2, AnswerSound, SettleSounds DEF DDAllocated, Does
<1>3. CASE DDComponentDone(p)
  BY <1>3, AnswerSound, SettleSounds DEF DDComponentDone
<1>4. CASE DDFinish(p)
  BY <1>0, <1>4, PartsOfKind, ContinueSounds DEF DDFinish
<1>5. CASE DDFinished(p)
  BY <1>5, AnswerSound, SubmitSounds DEF DDFinished, Does, Has
<1>6. CASE DDRename(p)
  BY <1>6, ContinueSounds, HiddenCalls DEF DDRename
<1>7. CASE DDRenamed(p)
  BY <1>7, AnswerSound, SubmitSounds DEF DDRenamed, Does
<1>8. CASE DDVerifyBackup(p)
  <2>1. Finish \in Shown /\ Puts \union {Allocate} \subseteq Parts(Finish)
    BY DEF Shown, Parts
  <2>2. \A d \in Puts \union {Allocate} :
            prog[p].copy.says[d] # "spared" => Stored(d)
    BY <1>8, <2>1, PostedHasParts DEF DDVerifyBackup, DDUnconfirmed
  <2>3. Stored(Finish)
        /\ (prog[p].copy.says[Rename] # "spared" => Stored(Rename))
    BY <1>8 DEF DDVerifyBackup, Has
  <2>4. \A d \in Calls : prog[p].copy.says[d] # "spared" => Stored(d)
    BY <1>0, <1>8, <2>2, <2>3, HeldSound DEF DDVerifyBackup, Sound
  <2> QED BY <1>8, <2>4, CompleteSounds DEF DDVerifyBackup
<1>9. ASSUME NEW i \in Files, DDComponentSpared(p, i) PROVE Sounds(p)
  BY <1>9, SpareSounds, HiddenCalls DEF DDComponentSpared, DDNext
<1>10. ASSUME NEW i \in Files, DDComponentPut(p, i) PROVE Sounds(p)
  BY <1>10, ContinueSounds, HiddenCalls DEF DDComponentPut, DDNext
<1>11. ASSUME NEW i \in Files, DDComponentFound(p, i) PROVE Sounds(p)
  BY <1>11, SettleSounds DEF DDComponentFound, DDNext, Has
<1> QED BY <1>1, <1>2, <1>3, <1>4, <1>5, <1>6, <1>7, <1>8, <1>9, <1>10, <1>11

LEMMA DDDeleteSounds ==
    ASSUME TypeOK, CopiesSound, AskingKnown, NEW p \in Programs,
           \/ DDDeletePrepare(p) \/ DDDeleted(p)
           \/ \E i \in Files : DDDelete(p, i) \/ DDDeleteFound(p, i)
    PROVE  Sounds(p)
<1> USE NamedCalls DEF Open
<1>0. kind = "dd_delete" /\ MayMake = Deletes
  BY CallsOfKind DEF DDDeletePrepare, DDDeleted, DDDelete, DDDeleteFound
<1>1. CASE DDDeletePrepare(p) BY <1>1, NewSounds DEF DDDeletePrepare
<1>2. CASE DDDeleted(p)
  <2>1. \A d \in Calls : prog[p].copy.says[d] # "spared" => Stored(d)
    BY <1>0, <1>2, HeldSound DEF DDDeleted, Done, Sound
  <2> QED BY <1>2, <2>1, CompleteSounds DEF DDDeleted
<1>3. ASSUME NEW i \in Files, DDDelete(p, i) PROVE Sounds(p)
  BY <1>3, ContinueSounds, HiddenCalls DEF DDDelete
<1>4. ASSUME NEW i \in Files, DDDeleteFound(p, i) PROVE Sounds(p)
  BY <1>4, AnswerSound, SettleSounds DEF DDDeleteFound, Has
<1> QED BY <1>1, <1>2, <1>3, <1>4

LEMMA DDSounds ==
    ASSUME TypeOK, CopiesSound, AskingKnown, NEW p \in Programs, DDStep(p)
    PROVE  Sounds(p)
<1>1. CASE \/ DDUpload(p) \/ DDUploaded(p) \/ DDRecord(p) \/ DDSubmit(p)
           \/ DDAcknowledge(p) \/ DDVerify(p)
  BY <1>1, DDChangeSounds
<1>2. CASE \/ DDAllocate(p) \/ DDAllocated(p) \/ DDComponentDone(p)
           \/ DDFinish(p) \/ DDFinished(p) \/ DDRename(p) \/ DDRenamed(p)
           \/ DDVerifyBackup(p)
           \/ \E i \in Files : \/ DDComponentSpared(p, i) \/ DDComponentPut(p, i)
                               \/ DDComponentFound(p, i)
  BY <1>2, DDBackupSounds
<1>3. CASE \/ DDDeletePrepare(p) \/ DDDeleted(p)
           \/ \E i \in Files : DDDelete(p, i) \/ DDDeleteFound(p, i)
  BY <1>3, DDDeleteSounds
<1>4. CASE DDReject(p) BY <1>4, RejectSounds DEF DDReject, Refused
<1> QED BY <1>1, <1>2, <1>3, <1>4 DEF DDStep

-----------------------------------------------------------------------------
(* BlackBox.                                                                  *)
LEMMA BBPrepareSounds ==
    ASSUME TypeOK, CopiesSound, NEW p \in Programs, BBSnapshot(p) \/ BBPrepare(p)
    PROVE  Sounds(p)
<1>1. CASE BBSnapshot(p) BY <1>1, NewSounds DEF BBSnapshot
<1>2. ASSUME Preparing(p), Create(p, prog[p].copy) PROVE Sounds(p)
  BY <1>2, HeldSound, CreateSounds DEF Preparing
<1>3. ASSUME New(p), Create(p, FreshReceipt(MayMake \ {Binary})) PROVE Sounds(p)
  <2>1. MayMake \intersect {Post, Finish} \subseteq MayMake \ {Binary}
    BY CallsDiffer
  <2> QED BY <1>3, <2>1, NewSounds
<1>4. ASSUME New(p), Create(p, FreshReceipt(MayMake)) PROVE Sounds(p)
  BY <1>4, NewSounds
<1> QED BY <1>1, <1>2, <1>3, <1>4 DEF BBPrepare

LEMMA BBChangeSounds ==
    ASSUME TypeOK, CopiesSound, AskingKnown, NEW p \in Programs,
           BBUpload(p) \/ BBUploaded(p) \/ BBPost(p) \/ BBVerify(p)
    PROVE  Sounds(p)
<1> USE NamedCalls DEF BBContinues, Open
<1>0. kind \in {"bb_edit", "bb_create"} /\ MayMake = {Binary, Post}
  BY CallsOfKind DEF BBUpload, BBUploaded, BBPost, BBVerify, BBChange
<1>1. CASE BBUpload(p) BY <1>1, ContinueSounds, HiddenCalls DEF BBUpload
<1>2. CASE BBUploaded(p)
  BY <1>2, AnswerSound, SettleSounds DEF BBUploaded, Does, Has
<1>3. CASE BBPost(p) BY <1>0, <1>3, PartsOfKind, ContinueSounds DEF BBPost
<1>4. CASE BBVerify(p)
  <2>1. Post \in Shown /\ Binary \in Parts(Post)
    BY CallsDiffer DEF Shown, Parts
  <2>2. prog[p].copy.says[Binary] # "spared" => Stored(Binary)
    BY <1>4, <2>1, PostedHasParts DEF BBVerify, BBUnconfirmed
  <2>3. \A d \in Calls : prog[p].copy.says[d] # "spared" => Stored(d)
    BY <1>0, <1>4, <2>2, HeldSound DEF BBVerify, Shows, Sound
  <2> QED BY <1>4, <2>3, CompleteSounds DEF BBVerify
<1> QED BY <1>1, <1>2, <1>3, <1>4

LEMMA BBStepsSounds ==
    ASSUME TypeOK, CopiesSound, AskingKnown, NEW p \in Programs,
           \/ BBSubmitted(p) \/ BBReject(p) \/ BBStepsVerified(p)
           \/ \E c \in Calls : BBStepPost(p, c) \/ BBStepVerified(p, c)
    PROVE  Sounds(p)
<1> USE NamedCalls DEF BBContinues, Open
<1>1. CASE BBSubmitted(p)
  BY <1>1, AnswerSound, SubmitSounds DEF BBSubmitted
<1>2. CASE BBReject(p) BY <1>2, RejectSounds DEF BBReject, Refused
<1>3. CASE BBStepsVerified(p)
  <2>1. MayMake \subseteq BBSteps
    BY <1>3, CallsOfKind DEF BBStepsVerified, BBSteps
  <2>2. \A d \in Calls : prog[p].copy.says[d] # "spared" => Stored(d)
    BY <1>3, <2>1, HeldSound DEF BBStepsVerified, Sound
  <2> QED BY <1>3, <2>2, CompleteSounds DEF BBStepsVerified
<1>4. ASSUME NEW c \in Calls, BBStepPost(p, c) PROVE Sounds(p)
  BY <1>4, ContinueSounds, HiddenCalls DEF BBStepPost, BBSteps
<1>5. ASSUME NEW c \in Calls, BBStepVerified(p, c) PROVE Sounds(p)
  BY <1>5, SettleSounds DEF BBStepVerified, BBUnconfirmed, Has
<1> QED BY <1>1, <1>2, <1>3, <1>4, <1>5

LEMMA BBBackupSounds ==
    ASSUME TypeOK, CopiesSound, AskingKnown, NEW p \in Programs,
           \/ BBAllocate(p) \/ BBAllocated(p) \/ BBSave(p) \/ BBVerifyBackup(p)
           \/ \E i \in Files : BBArchivePut(p, i) \/ BBArchiveDone(p, i)
    PROVE  Sounds(p)
<1> USE NamedCalls DEF BBContinues, Open
<1>0. kind = "bb_backup" /\ MayMake = Puts \union {Allocate, Finish}
  BY CallsOfKind
     DEF BBAllocate, BBAllocated, BBSave, BBVerifyBackup, BBArchivePut,
         BBArchiveDone, BBArchives
<1>1. CASE BBAllocate(p) BY <1>1, ContinueSounds, HiddenCalls DEF BBAllocate
<1>2. CASE BBAllocated(p)
  BY <1>2, AnswerSound, SettleSounds DEF BBAllocated, Does
<1>3. CASE BBSave(p) BY <1>0, <1>3, PartsOfKind, ContinueSounds DEF BBSave
<1>4. CASE BBVerifyBackup(p)
  <2>1. Finish \in Shown /\ Puts \union {Allocate} \subseteq Parts(Finish)
    BY DEF Shown, Parts
  <2>2. \A d \in Puts \union {Allocate} :
            prog[p].copy.says[d] # "spared" => Stored(d)
    BY <1>4, <2>1, PostedHasParts DEF BBVerifyBackup, BBUnconfirmed
  <2>3. \A d \in Calls : prog[p].copy.says[d] # "spared" => Stored(d)
    BY <1>0, <1>4, <2>2, HeldSound DEF BBVerifyBackup, Sound
  <2> QED BY <1>4, <2>3, CompleteSounds DEF BBVerifyBackup
<1>5. ASSUME NEW i \in Files, BBArchivePut(p, i) PROVE Sounds(p)
  BY <1>5, ContinueSounds, HiddenCalls DEF BBArchivePut, BBArchives
<1>6. ASSUME NEW i \in Files, BBArchiveDone(p, i) PROVE Sounds(p)
  BY <1>6, AnswerSound, SettleSounds
     DEF BBArchiveDone, BBArchives, Does, Has
<1> QED BY <1>1, <1>2, <1>3, <1>4, <1>5, <1>6

LEMMA BBSounds ==
    ASSUME TypeOK, CopiesSound, AskingKnown, NEW p \in Programs, BBStep(p)
    PROVE  Sounds(p)
BY BBPrepareSounds, BBChangeSounds, BBStepsSounds, BBBackupSounds DEF BBStep

-----------------------------------------------------------------------------
(* ModUs.                                                                     *)
LEMMA MUNewSounds ==
    ASSUME TypeOK, CopiesSound, NEW p \in Programs, MUNew(p) PROVE Sounds(p)
<1>1. PICK spared \in {{}, {Reserve}, {Reserve, Binary}} :
          New(p) /\ Create(p, FreshReceipt(MayMake \ spared))
  BY DEF MUNew
<1>2. MayMake \intersect {Post, Finish} \subseteq MayMake \ spared
  BY CallsDiffer
<1> QED BY <1>1, <1>2, NewSounds

LEMMA MURequestSounds ==
    ASSUME TypeOK, CopiesSound, AskingKnown, NEW p \in Programs,
           \/ MUPost(p) \/ MUReserve(p) \/ MUReserved(p) \/ MUMetadata(p)
           \/ MUBinary(p) \/ MUSubmitted(p) \/ MUVerify(p)
           \/ MUVerifyMetadata(p) \/ MUVerifyRelease(p)
    PROVE  Sounds(p)
<1> USE NamedCalls DEF MUContinues, MUVerifies, Open
<1>1. CASE MUPost(p)
  BY <1>1, CallsOfKind, PartsOfKind, ContinueSounds DEF MUPost
<1>2. CASE MUReserve(p) BY <1>2, ContinueSounds, HiddenCalls DEF MUReserve
<1>3. CASE MUReserved(p)
  BY <1>3, AnswerSound, SettleSounds DEF MUReserved, Does
<1>4. CASE MUMetadata(p)
  BY <1>4, PartsOfKind, ContinueSounds DEF MUMetadata
<1>5. CASE MUBinary(p) BY <1>5, ContinueSounds, HiddenCalls DEF MUBinary
<1>6. CASE MUSubmitted(p)
  BY <1>6, AnswerSound, SubmitSounds DEF MUSubmitted
<1>7. CASE MUVerify(p)
  BY <1>7, CallsOfKind, OnlyOne, CompleteSounds DEF MUVerify
<1>8. CASE MUVerifyMetadata(p)
  BY <1>8, SubmitSounds DEF MUVerifyMetadata, Has
<1>9. CASE MUVerifyRelease(p)
  <2>1. MayMake = {Reserve, Metadata, Binary} /\ Holding(p)
    BY <1>9, CallsOfKind DEF MUVerifyRelease
  <2>2. Metadata \in Shown /\ Reserve \in Parts(Metadata)
    BY DEF Shown, Parts
  <2>3. prog[p].copy.says[Reserve] # "spared" => Stored(Reserve)
    BY <1>9, <2>1, <2>2, PostedHasParts DEF MUVerifyRelease
  <2>4. Stored(Metadata)
        /\ (prog[p].copy.says[Binary] # "spared" => Stored(Binary))
    BY <1>9 DEF MUVerifyRelease, Has
  <2>5. \A d \in Calls : prog[p].copy.says[d] # "spared" => Stored(d)
    BY <2>1, <2>3, <2>4, HeldSound DEF Sound
  <2> QED BY <1>9, <2>1, <2>5, CompleteSounds DEF MUVerifyRelease
<1> QED BY <1>1, <1>2, <1>3, <1>4, <1>5, <1>6, <1>7, <1>8, <1>9

(* The lookup leaves out the files the platform has, before any is sent.      *)
LEMMA MULookupSounds ==
    ASSUME TypeOK, CopiesSound, NEW p \in Programs, MUFontLookup(p)
    PROVE  Sounds(p)
<1>1. Holding(p) BY DEF MUFontLookup, MUActs, Open
<1>2. prog[p].copy \in Receipts /\ prog[p].copy.over = "open"
      /\ Sound(prog[p].copy)
  BY <1>1, HeldSound
<1>3. PICK F \in SUBSET Files :
          Save(p, [prog[p].copy EXCEPT !.says =
                      [c \in Calls |-> IF \E i \in F : c \in {Put(i), Store(i)}
                                       THEN "spared" ELSE @[c]]])
  BY DEF MUFontLookup
<1> DEFINE C == {c \in Calls : \E i \in F : c \in {Put(i), Store(i)}}
           m == [c \in Calls |-> IF \E i \in F : c \in {Put(i), Store(i)}
                                 THEN "spared" ELSE prog[p].copy.says[c]]
           s == [prog[p].copy EXCEPT !.says = m]
<1>4. m \in [Calls -> Marks] BY <1>2 DEF Receipts, Marks
<1>5. \A c \in Calls : m[c] = IF c \in C THEN "spared" ELSE prog[p].copy.says[c]
  OBVIOUS
<1>6. Save(p, s) BY <1>3
<1> HIDE DEF m
<1>7. s \in Receipts /\ s.says = m /\ s.over = "open"
  BY <1>2, <1>4 DEF Receipts
<1>8. C \in SUBSET (Calls \ Shown) BY HiddenCalls
<1> HIDE DEF s, C
<1>9. Sound(s) BY <1>2, <1>5, <1>7, <1>8, SpareSound
<1> QED BY <1>6, <1>9, SaveSounds

LEMMA MUUploadSounds ==
    ASSUME TypeOK, CopiesSound, AskingKnown, NEW p \in Programs,
           \/ MUClaim(p) \/ MUClaimed(p) \/ MUStored(p) \/ MURegister(p)
           \/ MURegistered(p) \/ MULink(p) \/ MULinked(p)
           \/ \E i \in Files : MUPut(p, i) \/ MUPutDone(p, i) \/ MUStore(p, i)
    PROVE  Sounds(p)
<1> USE NamedCalls DEF MUActs, MUObject, Open
<1>0. kind = "modus_backup" /\ MayMake = Puts \union Stores \union {Finish}
  BY CallsOfKind
     DEF MUClaim, MUClaimed, MUStored, MURegister, MURegistered, MULink,
         MULinked, MUPut, MUPutDone, MUStore
<1>1. CASE MUClaim(p) BY <1>1, HeldSound, PrepareSounds DEF MUClaim
<1>2. CASE MUClaimed(p)
  <2>1. prog'[p].copy = prog[p].copy /\ prog'[p].pc = "turn"
    BY <1>2 DEF MUClaimed, TypeOK, ProgramStates
  <2> QED BY <2>1 DEF Sounds, Leaves, Asking, CopiesSound
<1>3. CASE MUStored(p)
  BY <1>3, AnswerSound, SettleSounds DEF MUStored
<1>4. CASE MURegister(p)
  BY <1>0, <1>4, PartsOfKind, ContinueSounds DEF MURegister
<1>5. CASE MURegistered(p)
  BY <1>5, AnswerSound, SettleSounds DEF MURegistered, MUUnconfirmed, Has
<1>6. CASE MULink(p)
  BY <1>6 DEF MULink, InTurn, Sounds, Leaves, Asking, CopiesSound
<1>7. CASE MULinked(p)
  <2>1. Finish \in Shown /\ Puts \union Stores \subseteq Parts(Finish)
    BY DEF Shown, Parts
  <2>2. \A d \in Puts \union Stores : prog[p].copy.says[d] # "spared" => Stored(d)
    BY <1>7, <2>1, PostedHasParts DEF MULinked
  <2>3. \A d \in Calls : prog[p].copy.says[d] # "spared" => Stored(d)
    BY <1>0, <1>7, <2>2, HeldSound DEF MULinked, Has, Sound
  <2> QED BY <1>7, <2>3, CompleteSounds DEF MULinked
<1>8. ASSUME NEW i \in Files, MUPut(p, i) PROVE Sounds(p)
  BY <1>8, ContinueSounds, HiddenCalls DEF MUPut
<1>9. ASSUME NEW i \in Files, MUPutDone(p, i) PROVE Sounds(p)
  BY <1>9, AnswerSound, SettleSounds DEF MUPutDone, Does, Has
<1>10. ASSUME NEW i \in Files, MUStore(p, i) PROVE Sounds(p)
  BY <1>10, ContinueSounds, HiddenCalls DEF MUStore
<1> QED BY <1>1, <1>2, <1>3, <1>4, <1>5, <1>6, <1>7, <1>8, <1>9, <1>10

LEMMA MUChangeSounds ==
    ASSUME TypeOK, CopiesSound, AskingKnown, NEW p \in Programs,
           \/ MUReject(p) \/ MUChanged(p) \/ MUChangesDone(p)
           \/ \E c \in Calls : \/ MUChangePost(p, c) \/ MUProtected(p, c)
                               \/ MUChangeFound(p, c)
    PROVE  Sounds(p)
<1> USE NamedCalls DEF MUActs, Open
<1>1. CASE MUReject(p) BY <1>1, RejectSounds DEF MUReject, Refused
<1>2. CASE MUChanged(p) BY <1>2, AnswerSound, SubmitSounds DEF MUChanged
<1>3. CASE MUChangesDone(p)
  <2>1. \A d \in Calls : prog[p].copy.says[d] # "spared" => Stored(d)
    BY <1>3, HeldSound DEF MUChangesDone, Done, Sound
  <2> QED BY <1>3, <2>1, CompleteSounds DEF MUChangesDone
<1>4. ASSUME NEW c \in Calls, MUChangePost(p, c) PROVE Sounds(p)
  BY <1>4, ContinueSounds, HiddenCalls DEF MUChangePost, MUChange
<1>5. ASSUME NEW c \in Calls, MUProtected(p, c) PROVE Sounds(p)
  BY <1>5, SpareSounds, HiddenCalls DEF MUProtected, MUChange
<1>6. ASSUME NEW c \in Calls, MUChangeFound(p, c) PROVE Sounds(p)
  <2>1. prog[p].copy.says[c] \in {"uncertain", "submitted"} /\ Stored(c)
        /\ Holding(p)
    BY <1>6 DEF MUChangeFound, MUUnconfirmed, Has
  <2>2. CASE kind = "modus_rename"
    <3>1. MayMake = {Rename} BY <2>2, CallsOfKind
    <3>2. c = Rename BY <2>1, <3>1, HeldSound DEF Sound
    <3> QED BY <1>6, <2>1, <2>2, <3>1, <3>2, OnlyOne, CompleteSounds
            DEF MUChangeFound
  <2>3. CASE kind # "modus_rename"
    BY <1>6, <2>1, <2>3, SettleSounds DEF MUChangeFound
  <2> QED BY <2>2, <2>3
<1> QED BY <1>1, <1>2, <1>3, <1>4, <1>5, <1>6

LEMMA MUSounds ==
    ASSUME TypeOK, CopiesSound, AskingKnown, NEW p \in Programs, MUStep(p)
    PROVE  Sounds(p)
<1>1. CASE \/ MUPost(p) \/ MUReserve(p) \/ MUReserved(p) \/ MUMetadata(p)
           \/ MUBinary(p) \/ MUSubmitted(p) \/ MUVerify(p)
           \/ MUVerifyMetadata(p) \/ MUVerifyRelease(p)
  BY <1>1, MURequestSounds
<1>2. CASE \/ MUClaim(p) \/ MUClaimed(p) \/ MUStored(p) \/ MURegister(p)
           \/ MURegistered(p) \/ MULink(p) \/ MULinked(p)
           \/ \E i \in Files : MUPut(p, i) \/ MUPutDone(p, i) \/ MUStore(p, i)
  BY <1>2, MUUploadSounds
<1>3. CASE \/ MUReject(p) \/ MUChanged(p) \/ MUChangesDone(p)
           \/ \E c \in Calls : \/ MUChangePost(p, c) \/ MUProtected(p, c)
                               \/ MUChangeFound(p, c)
  BY <1>3, MUChangeSounds
<1> QED BY <1>1, <1>2, <1>3, MUNewSounds, MULookupSounds DEF MUStep

LEMMA StepSounds ==
    ASSUME TypeOK, CopiesSound, AskingKnown, NEW p \in Programs, Step(p)
    PROVE  Sounds(p)
BY CFSounds, NBSounds, DDSounds, BBSounds, MUSounds DEF Step

-----------------------------------------------------------------------------
(* Whatever happens, every receipt and every copy of one stays sound.         *)
LEMMA InitWhole == Init => Whole
BY DEF Init, Whole, ReceiptSound, CopiesSound, AskingKnown, OnlyPosted,
       FileMarks, Idle, Asking

\* What is on the platform stays there.
LEMMA SoundStays ==
    ASSUME NEW r, Sound(r), UNCHANGED kind,
           applied \subseteq applied', already \subseteq already'
    PROVE  Sound(r)'
<1>1. \A c : Stored(c) => Stored(c)' BY DEF Stored
<1>2. MayMake' = MayMake BY DEF MayMake
<1> QED BY <1>1, <1>2 DEF Sound, Done, Parts

LEMMA BeginWhole ==
    ASSUME IInv, Whole, NEW p \in Programs, NEW cmd \in Commands, Begin(p, cmd)
    PROVE  Whole'
<1>1. UNCHANGED <<kind, receipt, wire, applied, already, posted>>
  BY DEF Begin, remote
<1>2. /\ prog'[p].copy = receipt /\ prog'[p].pc = "turn"
      /\ \A q \in Programs \ {p} : prog'[q] = prog[q]
  BY DEF Begin, Idle, IInv, TypeOK
<1>3. UNCHANGED MayMake BY <1>1 DEF MayMake
<1>4. CopiesSound'
  BY <1>1, <1>2, SoundStays DEF Whole, ReceiptSound, CopiesSound
<1>5. ReceiptSound' BY <1>1, SoundStays DEF Whole, ReceiptSound
<1>6. AskingKnown'
  BY <1>1, <1>2, <1>3 DEF Whole, AskingKnown, Asking, Asks
<1>7. OnlyPosted' /\ FileMarks'
  BY <1>1, <1>3 DEF Whole, OnlyPosted, FileMarks
<1> QED BY <1>4, <1>5, <1>6, <1>7 DEF Whole

LEMMA StepWhole ==
    ASSUME IInv, Whole, NEW p \in Programs, Step(p)
    PROVE  Whole'
<1>0. Shape(p) /\ Sounds(p)
  BY StepShape, StepSounds DEF IInv, Whole
<1>1. UNCHANGED <<kind, wire, applied, already, posted>> /\ prog[p].pc # "idle"
  BY <1>0 DEF Shape, remote
<1>2. UNCHANGED MayMake BY <1>1 DEF MayMake
<1>3. \A q \in Programs \ {p} : prog'[q] = prog[q]
  BY <1>0 DEF Shape, Writes, Keeps, Moved, IInv, TypeOK
<1>4. receipt' = receipt \/ receipt' = prog'[p].copy
  BY <1>0 DEF Shape, Writes, Keeps, Moved, Saved, Kept, Intended, IInv, TypeOK
<1>5. prog'[p].copy # None => Sound(prog'[p].copy)
  BY <1>0 DEF Sounds, Leaves
<1>6. CopiesSound'
  <2> SUFFICES ASSUME NEW q \in Programs, prog'[q].copy # None
               PROVE  Sound(prog[q].copy)'
    BY DEF CopiesSound
  <2>1. PICK r : r = prog'[q].copy OBVIOUS
  <2>2. Sound(r) BY <1>3, <1>5, <2>1 DEF Whole, CopiesSound
  <2>3. Sound(r)' BY <1>1, <2>2, SoundStays
  <2> QED BY <2>1, <2>3 DEF Sound, Done
<1>7. ReceiptSound'
  <2> SUFFICES ASSUME receipt' # None PROVE Sound(receipt)'
    BY DEF ReceiptSound
  <2>1. PICK r : r = receipt' OBVIOUS
  <2>2. Sound(r) BY <1>4, <1>5, <2>1 DEF Whole, ReceiptSound
  <2>3. Sound(r)' BY <1>1, <2>2, SoundStays
  <2> QED BY <2>1, <2>3 DEF Sound, Done
<1>8. AskingKnown'
  <2>1. /\ prog'[p].pc \in Asking => Asks(prog'[p])
        /\ prog'[p].pc # "answered"
    BY <1>0 DEF Sounds, Leaves, Asking
  <2> QED BY <1>1, <1>2, <1>3, <2>1 DEF Whole, AskingKnown, Asking, Asks
<1>9. OnlyPosted' BY <1>1, <1>2 DEF Whole, OnlyPosted
<1>10. FileMarks'
  <2>1. CASE receipt' = receipt
    BY <1>1, <2>1 DEF Whole, FileMarks
  <2>2. CASE receipt' # receipt
    <3>1. PICK r \in Receipts, x \in ProgramStates :
              /\ Follows(p, r) /\ x.copy = r
              /\ Saved(p, r, x) \/ Kept(p, r, x) \/ Intended(p, r, x)
              /\ Unleased(prog[p].command) => Saved(p, r, x) /\ Over(r)
      BY <1>0, <2>2 DEF Shape, Writes, Keeps
    <3>2. receipt' = r BY <2>2, <3>1 DEF Saved, Kept, Intended
    <3>3. ASSUME NEW c \in Calls, r.says[c] = "unsent" PROVE posted[c] = 0
      <4>1. CASE prog[p].copy = None /\ receipt = None
        BY <4>1, ReceiptAssumption DEF IInv, ReceiptTruthful
      <4>2. CASE prog[p].copy \in Receipts /\ prog[p].copy.over = "open"
                 /\ prog[p].copy.says[c] = "unsent"
        <5>1. Leased(p) BY <1>1, <3>1, <3>3 DEF Over, Leased
        <5> QED BY <4>2, <5>1 DEF IInv, CopiesTruthful, Truthful
      <4> QED BY <3>1, <3>3, <4>1, <4>2 DEF Follows
    <3> QED BY <1>1, <3>2, <3>3 DEF FileMarks
  <2> QED BY <2>1, <2>2
<1> QED BY <1>6, <1>7, <1>8, <1>9, <1>10 DEF Whole

LEMMA PostWhole ==
    ASSUME IInv, Whole, NEW p \in Programs, PostCall(p)
    PROVE  Whole'
<1> DEFINE c == prog[p].call
<1>1. /\ UNCHANGED <<kind, receipt, applied, already>>
      /\ wire' = wire \union {c} /\ posted' = [posted EXCEPT ![c] = @ + 1]
      /\ prog[p].pc = "posting"
  BY DEF PostCall
<1>2. /\ prog'[p].pc = "waiting" /\ prog'[p].call = c
      /\ prog'[p].copy = prog[p].copy
      /\ \A q \in Programs \ {p} : prog'[q] = prog[q]
  BY DEF PostCall, IInv, TypeOK, ProgramStates
<1>3. UNCHANGED MayMake BY <1>1 DEF MayMake
<1>4. c \in Calls /\ c \in MayMake /\ posted[c] = 0
  BY <1>1 DEF Whole, AskingKnown, Asking, Asks, IInv, PostingMarked
<1>5. posted'[c] = 1 /\ \A d \in Calls \ {c} : posted'[d] = posted[d]
  BY <1>1, <1>4 DEF IInv, TypeOK
<1>6. CopiesSound'
  BY <1>1, <1>2, SoundStays DEF Whole, CopiesSound
<1>7. ReceiptSound' BY <1>1, SoundStays DEF Whole, ReceiptSound
<1>8. AskingKnown'
  BY <1>1, <1>2, <1>3 DEF Whole, AskingKnown, Asking, Asks
<1>9. OnlyPosted'
  BY <1>1, <1>3, <1>4, <1>5 DEF Whole, OnlyPosted, IInv, TypeOK
<1>10. FileMarks'
  BY <1>1, <1>5 DEF Whole, FileMarks, IInv, PostingMarked, Marked
<1> QED BY <1>6, <1>7, <1>8, <1>9, <1>10 DEF Whole

LEMMA StopWhole ==
    ASSUME IInv, Whole, NEW p \in Programs, Stop(p)
    PROVE  Whole'
<1>1. UNCHANGED <<kind, receipt, wire, applied, already, posted>>
  BY DEF Stop, remote
<1>2. /\ prog'[p].copy = None /\ prog'[p].pc = "idle"
      /\ \A q \in Programs \ {p} : prog'[q] = prog[q]
  BY DEF Stop, Idle, IInv, TypeOK
<1>3. UNCHANGED MayMake BY <1>1 DEF MayMake
<1>4. CopiesSound' BY <1>1, <1>2, SoundStays DEF Whole, CopiesSound
<1>5. ReceiptSound' BY <1>1, SoundStays DEF Whole, ReceiptSound
<1>6. AskingKnown'
  BY <1>1, <1>2, <1>3 DEF Whole, AskingKnown, Asking, Asks
<1>7. OnlyPosted' /\ FileMarks'
  BY <1>1, <1>3 DEF Whole, OnlyPosted, FileMarks
<1> QED BY <1>4, <1>5, <1>6, <1>7 DEF Whole

LEMMA PlatformWhole ==
    ASSUME IInv, Whole, NEW c \in Calls, Arrive(c) \/ Decline(c) \/ Outside(c)
    PROVE  Whole'
<1>1. /\ UNCHANGED <<kind, receipt, posted>>
      /\ applied \subseteq applied' /\ already \subseteq already'
      /\ wire' \union applied' \subseteq wire \union applied
  BY DEF Arrive, Decline, Outside
<1>2. UNCHANGED MayMake BY <1>1 DEF MayMake
<1>3. \A q \in Programs :
          /\ prog'[q].copy = prog[q].copy /\ prog'[q].call = prog[q].call
          /\ prog'[q].pc \in Asking => prog[q].pc \in Asking
          /\ prog'[q].pc = "answered" => prog[q].pc = "answered"
                                         \/ prog[q].call \in applied'
  BY DEF Arrive, Decline, Outside, IInv, TypeOK, ProgramStates, Asking
<1>4. CopiesSound' BY <1>1, <1>3, SoundStays DEF Whole, CopiesSound
<1>5. ReceiptSound' BY <1>1, SoundStays DEF Whole, ReceiptSound
<1>6. AskingKnown'
  BY <1>1, <1>2, <1>3 DEF Whole, AskingKnown, Asks
<1>7. OnlyPosted' /\ FileMarks'
  BY <1>1, <1>2 DEF Whole, OnlyPosted, FileMarks
<1> QED BY <1>4, <1>5, <1>6, <1>7 DEF Whole

LEMMA StutterWhole == ASSUME IInv, Whole, UNCHANGED vars PROVE Whole'
<1>1. UNCHANGED <<kind, receipt, prog, wire, applied, already, posted>>
  BY DEF vars
<1>2. UNCHANGED MayMake BY <1>1 DEF MayMake
<1>3. CopiesSound' BY <1>1, SoundStays DEF Whole, CopiesSound
<1>4. ReceiptSound' BY <1>1, SoundStays DEF Whole, ReceiptSound
<1>5. AskingKnown' /\ OnlyPosted' /\ FileMarks'
  BY <1>1, <1>2 DEF Whole, AskingKnown, Asks, OnlyPosted, FileMarks
<1> QED BY <1>3, <1>4, <1>5 DEF Whole

LEMMA NextWhole == ASSUME IInv, Whole, [Next]_vars PROVE Whole'
BY BeginWhole, StepWhole, PostWhole, StopWhole, PlatformWhole, StutterWhole
   DEF Next

LEMMA WholeIsEnough == ASSUME IInv, Whole PROVE NothingMissing
<1>1. CompleteIsWhole
  BY DEF CompleteIsWhole, Whole, ReceiptSound, Sound, Done
<1>2. PartsFirst
  <2> SUFFICES ASSUME receipt # None, NEW c \in applied \intersect {Finish, Post}
               PROVE  \A d \in Puts \union Stores :
                          receipt.says[d] # "spared" => Stored(d)
    BY DEF PartsFirst
  <2>1. c \in Shown /\ c \in Calls /\ Puts \union Stores \subseteq Parts(c)
        /\ Puts \union Stores \subseteq Calls
    BY NamedCalls DEF Shown, Parts
  <2>2. c \in MayMake /\ posted[c] > 0 BY DEF Whole, OnlyPosted
  <2>3. receipt \in Receipts /\ Sound(receipt)
    BY DEF IInv, TypeOK, Whole, ReceiptSound
  <2>4. receipt.says[c] # "unsent" BY <2>1, <2>2 DEF Whole, FileMarks
  <2>5. receipt.says[c] # "spared" BY <2>2, <2>3 DEF Sound
  <2>6. receipt.says[c] \in Made
    BY <2>1, <2>3, <2>4, <2>5 DEF Receipts, Marks, Made
  <2> QED BY <2>1, <2>3, <2>6 DEF Sound, Done
<1> QED BY <1>1, <1>2 DEF NothingMissing

(* A request reported complete has everything it was to do on the platform,   *)
(* and nothing of a request shows before its parts are there, wherever        *)
(* programs end, answers are lost and others act: the receipt only settles    *)
(* what was answered or found, and every stage waits for the one before it    *)
(* (dd_operation.go, blackbox_backup.go, modus_backup_upload.go).             *)
THEOREM NothingIsMissing == Spec => []NothingMissing
<1>1. Init => IInv /\ Whole BY InitInvariant, InitWhole
<1>2. IInv /\ Whole /\ [Next]_vars => (IInv /\ Whole)'
  BY NextKeeps, NextWhole
<1>3. IInv /\ Whole => NothingMissing BY WholeIsEnough
<1> QED BY <1>1, <1>2, <1>3, PTL DEF Spec
=============================================================================
