------------------------------ MODULE Dossier ------------------------------
(***************************************************************************)
(* What an owner files about one opportunity: the folders and documents of *)
(* its data room (DataroomService, StorageService), its due-diligence      *)
(* checklist (DueDiligenceService) and its verification passport           *)
(* (VerificationService).                                                  *)
(*                                                                         *)
(* None of these writes is in a transaction: handlers are split at their   *)
(* awaits and may fail between two of them.  Who may read is the business  *)
(* of DealRoom.  An operator marked "Variant" is a plausible bug in the    *)
(* operator after it, kept to show which property would find it.           *)
(***************************************************************************)
EXTENDS Naturals

CONSTANTS
  Documents,  \* rows an upload may create, one each
  Clerks,     \* slots for requests in flight
  Tiers,      \* verification tiers, numbers
  MaxSeeds,   \* copies of a standard list that are counted
  NoRecord    \* no verification record yet

ASSUME DossierAssumption == Tiers \subseteq Nat /\ MaxSeeds \in Nat \ {0} /\ NoRecord \notin Tiers

VARIABLES
  \* copies of the standard folders, and of the standard checklist; whether
  \* the owner has added a folder, or an item, of their own
  sections, ownFolder, checklist, ownItem,
  \* documents: the stored file, the row, and its version row
  file, document, filed,
  \* the tier shown, and the tier its record was written for
  tier, record,
  \* requests in flight; history: did two overlap, or one fail?  Which
  \* documents lost their upload between their row and their version?
  job, troubled, torn

lists == <<sections, ownFolder, checklist, ownItem>>
papersOf == <<file, document, filed>>
passport == <<tier, record>>
dossierVars == <<lists, papersOf, passport, job, troubled, torn>>
-----------------------------------------------------------------------------
NoJob == [op |-> "none"]

Steps == {"save", "document", "version", "delete"}

Jobs ==
  {NoJob}
    \cup [op : {"sections", "checklist", "folder", "item", "remove"}]
    \cup [op : Steps, doc : Documents]
    \cup [op : {"tier", "record"}, to : Tiers]

DossierTypeOK ==
  /\ sections \in 0..MaxSeeds
  /\ checklist \in 0..MaxSeeds
  /\ ownFolder \in BOOLEAN
  /\ ownItem \in BOOLEAN
  /\ file \in [Documents -> BOOLEAN]
  /\ document \in [Documents -> {"ABSENT", "LIVE", "DELETED"}]
  /\ filed \in [Documents -> BOOLEAN]
  /\ tier \in Tiers
  /\ record \in Tiers \cup {NoRecord}
  /\ job \in [Clerks -> Jobs]
  /\ troubled \in BOOLEAN
  /\ torn \subseteq Documents

DossierInit ==
  /\ sections = 0 /\ ownFolder = FALSE
  /\ checklist = 0 /\ ownItem = FALSE
  /\ file = [d \in Documents |-> FALSE]
  /\ document = [d \in Documents |-> "ABSENT"]
  /\ filed = [d \in Documents |-> FALSE]
  /\ tier \in Tiers
  /\ record = NoRecord
  /\ job = [k \in Clerks |-> NoJob]
  /\ troubled = FALSE
  /\ torn = {}
-----------------------------------------------------------------------------
AtWork == \E k \in Clerks : job[k] # NoJob

TakeOn(k, j) ==
  /\ job[k] = NoJob
  /\ job' = [job EXCEPT ![k] = j]
  /\ troubled' = (troubled \/ AtWork)
  /\ UNCHANGED <<lists, papersOf, passport, torn>>

TurnTo(k, j) == job' = [job EXCEPT ![k] = j] /\ UNCHANGED <<troubled, torn>>

Done(k) == TurnTo(k, NoJob)
-----------------------------------------------------------------------------
(* Folders and checklist *)

\* initDataRoom: countFolders finds none.  Nothing keeps two requests from
\* both finding none, and then the folders are there twice.
InitDataRoom(k) == sections = 0 /\ ~ownFolder /\ TakeOn(k, [op |-> "sections"])

\* createManyFolders
CreateSections(k) ==
  /\ job[k].op = "sections"
  /\ sections < MaxSeeds
  /\ sections' = sections + 1
  /\ Done(k)
  /\ UNCHANGED <<ownFolder, checklist, ownItem, papersOf, passport>>

\* createFolder; the count it takes is only the new folder's place in order
CreateFolder(k) == TakeOn(k, [op |-> "folder"])

CreateFolderWrite(k) ==
  /\ job[k].op = "folder"
  /\ ownFolder' = TRUE
  /\ Done(k)
  /\ UNCHANGED <<sections, checklist, ownItem, papersOf, passport>>

\* seed: count finds no live item, and the same holds
SeedChecklist(k) == checklist = 0 /\ ~ownItem /\ TakeOn(k, [op |-> "checklist"])

SeedChecklistWrite(k) ==
  /\ job[k].op = "checklist"
  /\ checklist < MaxSeeds
  /\ checklist' = checklist + 1
  /\ Done(k)
  /\ UNCHANGED <<sections, ownFolder, ownItem, papersOf, passport>>

CreateItem(k) == TakeOn(k, [op |-> "item"])

CreateItemWrite(k) ==
  /\ job[k].op = "item"
  /\ ownItem' = TRUE
  /\ Done(k)
  /\ UNCHANGED <<sections, ownFolder, checklist, papersOf, passport>>

\* remove: the last item left of a copy of the checklist, or of the owner's
\* own; removing any other item changes neither.
RemoveItems(k) == (checklist > 0 \/ ownItem) /\ TakeOn(k, [op |-> "remove"])

RemoveItemsWrite(k) ==
  /\ job[k].op = "remove"
  /\ \/ checklist > 0 /\ checklist' = checklist - 1 /\ UNCHANGED ownItem
     \/ ownItem' = FALSE /\ UNCHANGED checklist
  /\ Done(k)
  /\ UNCHANGED <<sections, ownFolder, papersOf, passport>>
-----------------------------------------------------------------------------
(* Documents *)

\* Variant: the row is written before the file is stored.
UploadRowFirst(k, d) ==
  /\ sections > 0 \/ ownFolder
  /\ document[d] = "ABSENT"
  /\ \A j \in Clerks : job[j].op \in Steps => job[j].doc # d
  /\ TakeOn(k, [op |-> "document", doc |-> d])

\* uploadDocument into a folder that is there (findFolder).  Every upload is a
\* document of its own, so nobody else has this one's row yet.
Upload(k, d) ==
  /\ sections > 0 \/ ownFolder
  /\ document[d] = "ABSENT"
  /\ \A j \in Clerks : job[j].op \in Steps => job[j].doc # d
  /\ TakeOn(k, [op |-> "save", doc |-> d])

\* StorageService.save
SaveFile(k) ==
  /\ job[k].op = "save"
  /\ file' = [file EXCEPT ![job[k].doc] = TRUE]
  /\ TurnTo(k, [op |-> "document", doc |-> job[k].doc])
  /\ UNCHANGED <<lists, document, filed, passport>>

CreateDocument(k) ==
  /\ job[k].op = "document"
  /\ document' = [document EXCEPT ![job[k].doc] = "LIVE"]
  /\ TurnTo(k, [op |-> "version", doc |-> job[k].doc])
  /\ UNCHANGED <<lists, file, filed, passport>>

\* nextVersionNumber, always 1, and createVersion, also for a document that
\* was deleted in the meantime
CreateVersion(k) ==
  /\ job[k].op = "version"
  /\ filed' = [filed EXCEPT ![job[k].doc] = TRUE]
  /\ Done(k)
  /\ UNCHANGED <<lists, file, document, passport>>

\* The row is kept with a date, and so is the file.
DeleteDocument(k, d) == document[d] = "LIVE" /\ TakeOn(k, [op |-> "delete", doc |-> d])

DeleteDocumentWrite(k) ==
  /\ job[k].op = "delete"
  /\ document' = [document EXCEPT ![job[k].doc] = "DELETED"]
  /\ Done(k)
  /\ UNCHANGED <<lists, file, filed, passport>>
-----------------------------------------------------------------------------
(* Verification *)

SetVerification(k, to) == TakeOn(k, [op |-> "tier", to |-> to])

\* Variant: a tier is only ever advanced.
AdvanceTier(k) ==
  /\ job[k].op = "tier"
  /\ tier' = IF job[k].to > tier THEN job[k].to ELSE tier
  /\ TurnTo(k, [op |-> "record", to |-> job[k].to])
  /\ UNCHANGED <<lists, papersOf, record>>

\* OpportunitiesService.setVerification
SetTier(k) ==
  /\ job[k].op = "tier"
  /\ tier' = job[k].to
  /\ TurnTo(k, [op |-> "record", to |-> job[k].to])
  /\ UNCHANGED <<lists, papersOf, record>>

UpsertRecord(k) ==
  /\ job[k].op = "record"
  /\ record' = job[k].to
  /\ Done(k)
  /\ UNCHANGED <<lists, papersOf, tier>>
-----------------------------------------------------------------------------
JobFails(k) ==
  /\ job[k] # NoJob
  /\ job' = [job EXCEPT ![k] = NoJob]
  /\ troubled' = TRUE
  /\ torn' = torn \cup {d \in Documents : job[k].op = "version" /\ job[k].doc = d}
  /\ UNCHANGED <<lists, papersOf, passport>>

Filing(k) ==
  \/ InitDataRoom(k) \/ CreateSections(k) \/ CreateFolder(k) \/ CreateFolderWrite(k)
  \/ SeedChecklist(k) \/ SeedChecklistWrite(k) \/ CreateItem(k) \/ CreateItemWrite(k)
  \/ RemoveItems(k) \/ RemoveItemsWrite(k)

Papers(k) ==
  \/ \E d \in Documents : Upload(k, d) \/ DeleteDocument(k, d)
  \/ SaveFile(k) \/ CreateDocument(k) \/ CreateVersion(k) \/ DeleteDocumentWrite(k)

Verifying(k) == (\E to \in Tiers : SetVerification(k, to)) \/ SetTier(k) \/ UpsertRecord(k)

DossierNext == \E k \in Clerks : Filing(k) \/ Papers(k) \/ Verifying(k) \/ JobFails(k)

DossierSpec == DossierInit /\ [][DossierNext]_dossierVars
-----------------------------------------------------------------------------
(* What a reader of the dossier may rely on *)

\* Whatever overlaps or fails on the way, no version row points to a file that
\* is not there, and a document that is listed has a version to open unless
\* its own upload is about to write one or failed before it could: a deletion
\* beside the upload, or another upload's failure, takes none away
\* (DataroomService.uploadDocument, deleteDocument, prepareDownload).
DocumentsOpen ==
  \A d \in Documents :
    /\ filed[d] => file[d]
    /\ document[d] = "LIVE" /\ ~filed[d] =>
         d \in torn \/ \E k \in Clerks : job[k].op = "version" /\ job[k].doc = d

\* The tier on show is the one its record was written for, between requests
\* that neither overlapped nor failed (VerificationService.set).
TierRestsOnItsRecord == ~troubled /\ ~AtWork => record \in {NoRecord, tier}
-----------------------------------------------------------------------------
(* Invariants the proofs rest on *)

\* What is about to be written rests on what was, and who has listed a
\* document goes on to its version.
Stored ==
  \A d \in Documents :
    /\ filed[d] \/ document[d] # "ABSENT" => file[d]
    /\ \A k \in Clerks : job[k].op \in Steps \ {"save"} /\ job[k].doc = d => file[d]
    /\ document[d] = "LIVE" /\ ~filed[d] =>
         d \in torn \/ \E k \in Clerks : job[k].op = "version" /\ job[k].doc = d

\* One request at a time, and what it read is so.
Orderly ==
  ~troubled =>
    /\ \A j, k \in Clerks : j # k => job[j] = NoJob \/ job[k] = NoJob
    /\ \A k \in Clerks : job[k].op = "record" => tier = job[k].to
    /\ (\A k \in Clerks : job[k].op # "record") => record \in {NoRecord, tier}
=============================================================================
