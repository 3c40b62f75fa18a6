-------------------------- MODULE SideRoomsProofs --------------------------
(***************************************************************************)
(* Consortium for any number of guests, and Dossier for any number of      *)
(* documents, tiers and copies, with any number of requests in flight:     *)
(* types; what a version row points to is there whatever fails; and, as    *)
(* long as no two requests overlap (and none fails), memberships move on,  *)
(* lists are seeded once and the tier on show is the recorded one.         *)
(* Last, the six components side by side: MCSideRooms implements each.     *)
(***************************************************************************)
EXTENDS MCSideRooms, WebSessionProofs, EnginesProofs

(* Consortium *)

\* What the operation of an errand says about its other fields.
LEMMA ErrandFields ==
  ASSUME NEW e \in Errands
  PROVE  /\ e.op \in {"invite", "add", "remove", "respond"} => e.guest \in Guests
         /\ e.op = "respond" => e.to \in {"ACCEPTED", "DECLINED"}
BY DEF Errands, NoErrand

LEMMA StartType ==
  ASSUME ConsortiumTypeOK, NEW k \in Desks, NEW e \in Errands, Start(k, e)
  PROVE  ConsortiumTypeOK'
BY DEF ConsortiumTypeOK, Start

LEMMA WriteRowType ==
  ASSUME ConsortiumTypeOK, NEW k \in Desks, NEW status \in MemberStatus, WriteRow(k, status)
  PROVE  ConsortiumTypeOK'
<1>1. NoErrand \in Errands
  BY DEF Errands
<1>. QED
  BY <1>1 DEF ConsortiumTypeOK, WriteRow, Finish

\* A request takes on an errand for what it has found.
Founded(e) ==
  /\ e.op = "respond" => member[e.guest] = "INVITED"
  /\ e.op = "remove" => member[e.guest] # "ABSENT"

LEMMA ErrandsStart ==
  ASSUME ConsortiumTypeOK, NEW k \in Desks,
         \/ \E g \in Guests : Invite(k, g) \/ RemoveMember(k, g) \/ Respond(k, g)
         \/ Disband(k)
  PROVE  \E e \in Errands : Start(k, e) /\ Founded(e)
<1>1. ASSUME NEW g \in Guests, Invite(k, g)
      PROVE  \E e \in Errands : Start(k, e) /\ Founded(e)
  <2>1. [op |-> "invite", guest |-> g] \in Errands /\ Founded([op |-> "invite", guest |-> g])
    BY DEF Errands, Founded
  <2>. QED
    BY <1>1, <2>1 DEF Invite
<1>2. ASSUME NEW g \in Guests, RemoveMember(k, g)
      PROVE  \E e \in Errands : Start(k, e) /\ Founded(e)
  <2>1. [op |-> "remove", guest |-> g] \in Errands /\ Founded([op |-> "remove", guest |-> g])
    BY <1>2 DEF Errands, Founded, RemoveMember
  <2>. QED
    BY <1>2, <2>1 DEF RemoveMember
<1>3. ASSUME NEW g \in Guests, Respond(k, g)
      PROVE  \E e \in Errands : Start(k, e) /\ Founded(e)
  <2>1. PICK to \in {"ACCEPTED", "DECLINED"} : Start(k, [op |-> "respond", guest |-> g, to |-> to])
    BY <1>3 DEF Respond
  <2>2. /\ [op |-> "respond", guest |-> g, to |-> to] \in Errands
        /\ Founded([op |-> "respond", guest |-> g, to |-> to])
    BY <1>3 DEF Errands, Founded, Respond
  <2>. QED
    BY <2>1, <2>2
<1>4. CASE Disband(k)
  <2>1. [op |-> "disband"] \in Errands /\ Founded([op |-> "disband"])
    BY DEF Errands, Founded
  <2>. QED
    BY <1>4, <2>1 DEF Disband
<1>. QED
  BY <1>1, <1>2, <1>3, <1>4

\* The writes of membership rows: whose, from where, to where.
LEMMA RowsWritten ==
  ASSUME ConsortiumTypeOK, NEW k \in Desks,
         AddMember(k) \/ RemoveMemberWrite(k) \/ RespondWrite(k)
  PROVE  /\ errand[k] # NoErrand
         /\ errand[k].guest \in Guests
         /\ \/ Finish(k) /\ UNCHANGED <<group, member>>
            \/ \E status \in MemberStatus :
                 /\ WriteRow(k, status)
                 /\ \/ status = "INVITED" /\ member[errand[k].guest] = "ABSENT"
                    \/ status = "REMOVED" /\ errand[k].op = "remove"
                    \/ status \in {"ACCEPTED", "DECLINED"} /\ errand[k].op = "respond"
<1>1. errand[k] \in Errands /\ errand[k].op \in {"add", "remove", "respond"}
  BY DEF ConsortiumTypeOK, AddMember, RemoveMemberWrite, RespondWrite
<1>2. errand[k].guest \in Guests /\ errand[k] # NoErrand
  BY <1>1, ErrandFields DEF NoErrand
<1>3. errand[k].op = "respond" => errand[k].to \in {"ACCEPTED", "DECLINED"}
  BY <1>1, ErrandFields
<1>. QED
  BY <1>2, <1>3 DEF AddMember, RemoveMemberWrite, RespondWrite, MemberStatus

LEMMA ConsortiumInitType == ConsortiumInit => ConsortiumTypeOK
<1>1. NoErrand \in Errands
  BY DEF Errands
<1>. QED
  BY <1>1 DEF ConsortiumInit, ConsortiumTypeOK

LEMMA ConsortiumNextType ==
  ConsortiumTypeOK /\ [ConsortiumNext]_consortiumVars => ConsortiumTypeOK'
<1>. SUFFICES ASSUME ConsortiumTypeOK, [ConsortiumNext]_consortiumVars
             PROVE  ConsortiumTypeOK'
  OBVIOUS
<1>0. NoErrand \in Errands
  BY DEF Errands
<1>1. ASSUME NEW k \in Desks,
             \/ \E g \in Guests : Invite(k, g) \/ RemoveMember(k, g) \/ Respond(k, g)
             \/ Disband(k)
      PROVE  ConsortiumTypeOK'
  BY <1>1, ErrandsStart, StartType
<1>2. ASSUME NEW k \in Desks, InviteFindMembership(k)
      PROVE  ConsortiumTypeOK'
  <2>1. errand[k].guest \in Guests
    BY <1>2, ErrandFields DEF InviteFindMembership, ConsortiumTypeOK
  <2>2. [op |-> "add", guest |-> errand[k].guest] \in Errands
    BY <2>1 DEF Errands
  <2>. QED
    BY <1>0, <1>2, <2>2 DEF InviteFindMembership, ConsortiumTypeOK
<1>3. ASSUME NEW k \in Desks, AddMember(k) \/ RemoveMemberWrite(k) \/ RespondWrite(k)
      PROVE  ConsortiumTypeOK'
  <2>1. CASE Finish(k) /\ UNCHANGED <<group, member>>
    BY <1>0, <2>1 DEF Finish, ConsortiumTypeOK
  <2>. QED
    BY <1>3, <2>1, RowsWritten, WriteRowType
<1>4. ASSUME NEW k \in Desks, DisbandWrite(k)
      PROVE  ConsortiumTypeOK'
  BY <1>0, <1>4 DEF DisbandWrite, Finish, ConsortiumTypeOK
<1>5. CASE UNCHANGED consortiumVars
  BY <1>5 DEF consortiumVars, ConsortiumTypeOK
<1>. QED
  BY <1>1, <1>2, <1>3, <1>4, <1>5 DEF ConsortiumNext

\* Rows and errands are what ConsortiumTypeOK says (ConsortiumsService).
THEOREM ConsortiumTypeCorrect == ConsortiumSpec => []ConsortiumTypeOK
BY ConsortiumInitType, ConsortiumNextType, PTL DEF ConsortiumSpec

\* An errand under way goes on or ends.
LEMMA ErrandUntangled ==
  ASSUME ConsortiumTypeOK, Untangled, NEW k \in Desks, errand[k] # NoErrand,
         NEW e, e.op \notin {"respond", "remove"},
         errand' = [errand EXCEPT ![k] = e], tangled' = tangled
  PROVE  Untangled'
<1>. SUFFICES ASSUME ~tangled
             PROVE  Untangled'
  BY DEF Untangled
<1>1. \A j \in Desks \ {k} : errand[j] = NoErrand
  BY DEF Untangled
<1>2. \A j \in Desks : errand'[j] = IF j = k THEN e ELSE NoErrand
  BY <1>1 DEF ConsortiumTypeOK
<1>. QED
  BY <1>2 DEF Untangled, NoErrand

LEMMA ConsortiumNextUntangled ==
  ConsortiumTypeOK /\ Untangled /\ [ConsortiumNext]_consortiumVars => Untangled'
<1>. SUFFICES ASSUME ConsortiumTypeOK, Untangled, [ConsortiumNext]_consortiumVars
             PROVE  Untangled'
  OBVIOUS
<1>1. ASSUME NEW k \in Desks,
             \/ \E g \in Guests : Invite(k, g) \/ RemoveMember(k, g) \/ Respond(k, g)
             \/ Disband(k)
      PROVE  Untangled'
  <2>1. PICK e \in Errands : Start(k, e) /\ Founded(e)
    BY <1>1, ErrandsStart
  <2>2. ASSUME ~tangled'
        PROVE  \A j \in Desks : errand'[j] = IF j = k THEN e ELSE NoErrand
    BY <2>1, <2>2 DEF Start, ConsortiumTypeOK
  <2>3. member' = member
    BY <2>1 DEF Start
  <2>. QED
    BY <2>1, <2>2, <2>3 DEF Untangled, Founded, NoErrand
<1>2. ASSUME NEW k \in Desks, InviteFindMembership(k)
      PROVE  Untangled'
  <2>1. errand[k] # NoErrand
    BY <1>2 DEF InviteFindMembership, NoErrand
  <2>2. PICK e \in {NoErrand, [op |-> "add", guest |-> errand[k].guest]} :
          errand' = [errand EXCEPT ![k] = e]
    BY <1>2 DEF InviteFindMembership
  <2>3. e.op \notin {"respond", "remove"}
    BY DEF NoErrand
  <2>. QED
    BY <1>2, <2>1, <2>2, <2>3, ErrandUntangled DEF InviteFindMembership
<1>3. ASSUME NEW k \in Desks, AddMember(k) \/ RemoveMemberWrite(k) \/ RespondWrite(k) \/ DisbandWrite(k)
      PROVE  Untangled'
  <2>1. errand[k] # NoErrand
    BY <1>3, RowsWritten DEF DisbandWrite, NoErrand
  <2>2. Finish(k)
    BY <1>3, RowsWritten DEF DisbandWrite, WriteRow
  <2>3. NoErrand.op \notin {"respond", "remove"}
    BY DEF NoErrand
  <2>. QED
    BY <2>1, <2>2, <2>3, ErrandUntangled DEF Finish
<1>4. CASE UNCHANGED consortiumVars
  BY <1>4 DEF consortiumVars, Untangled
<1>. QED
  BY <1>1, <1>2, <1>3, <1>4 DEF ConsortiumNext

LEMMA ConsortiumMovesOn ==
  ASSUME ConsortiumTypeOK, Untangled, [ConsortiumNext]_consortiumVars, ~tangled',
         NEW g \in Guests
  PROVE  member'[g] = member[g] \/ member'[g] \in Onward[member[g]]
<1>1. ASSUME NEW k \in Desks, AddMember(k) \/ RemoveMemberWrite(k) \/ RespondWrite(k)
      PROVE  member'[g] = member[g] \/ member'[g] \in Onward[member[g]]
  <2>1. CASE member' = member
    BY <2>1
  <2>2. ASSUME NEW status \in MemberStatus, WriteRow(k, status),
               \/ status = "INVITED" /\ member[errand[k].guest] = "ABSENT"
               \/ status = "REMOVED" /\ errand[k].op = "remove"
               \/ status \in {"ACCEPTED", "DECLINED"} /\ errand[k].op = "respond"
        PROVE  member'[g] = member[g] \/ member'[g] \in Onward[member[g]]
    <3>1. member' = [member EXCEPT ![errand[k].guest] = status] /\ ~tangled
      BY <2>2 DEF WriteRow, Finish
    <3>2. /\ errand[k].op = "respond" => member[errand[k].guest] = "INVITED"
          /\ errand[k].op = "remove" => member[errand[k].guest] # "ABSENT"
      BY <3>1 DEF Untangled
    <3>3. member[g] \in MemberStatus \cup {"ABSENT"}
      BY DEF ConsortiumTypeOK
    <3>4. CASE g = errand[k].guest
      <4>1. member'[g] = status
        BY <3>1, <3>4 DEF ConsortiumTypeOK
      <4>. QED
        BY <2>2, <3>2, <3>3, <3>4, <4>1 DEF Onward, MemberStatus
    <3>5. CASE g # errand[k].guest
      BY <3>1, <3>5 DEF ConsortiumTypeOK
    <3>. QED
      BY <3>4, <3>5
  <2>. QED
    BY <1>1, <2>1, <2>2, RowsWritten
<1>2. CASE ~\E k \in Desks : AddMember(k) \/ RemoveMemberWrite(k) \/ RespondWrite(k)
  <2>1. member' = member
    BY <1>2 DEF ConsortiumNext, consortiumVars, Invite, RemoveMember, Respond, Disband, Start,
         InviteFindMembership, DisbandWrite
  <2>. QED
    BY <2>1
<1>. QED
  BY <1>1, <1>2

\* Memberships move on, as long as no two requests overlap: an invitation, one
\* answer, and no way back from a removal (ConsortiumsService).
THEOREM MembershipsMoveOn == ConsortiumSpec => MembershipMovesOn
<1>1. ConsortiumInit => Untangled
  BY DEF ConsortiumInit, Untangled, NoErrand
<1>2. ConsortiumTypeOK /\ Untangled /\ [ConsortiumNext]_consortiumVars =>
        [~tangled' => \A g \in Guests : member'[g] = member[g] \/ member'[g] \in Onward[member[g]]]_member
  BY ConsortiumMovesOn
<1>. QED
  BY <1>1, <1>2, ConsortiumTypeCorrect, ConsortiumNextUntangled, PTL
  DEF ConsortiumSpec, MembershipMovesOn
-----------------------------------------------------------------------------
(* Dossier *)

\* What the operation of a job says about its other fields.
LEMMA JobFields ==
  ASSUME NEW j \in Jobs
  PROVE  /\ j.op \in Steps => j.doc \in Documents
         /\ j.op \in {"tier", "record"} => j.to \in Tiers
BY DEF Jobs, NoJob, Steps

LEMMA JobTypes ==
  /\ NoJob \in Jobs
  /\ \A o \in {"sections", "checklist", "folder", "item", "remove"} : [op |-> o] \in Jobs
  /\ \A o \in Steps, d \in Documents : [op |-> o, doc |-> d] \in Jobs
  /\ \A o \in {"tier", "record"}, to \in Tiers : [op |-> o, to |-> to] \in Jobs
BY DEF Jobs

Requests(k) ==
  \/ InitDataRoom(k) \/ CreateFolder(k) \/ SeedChecklist(k) \/ CreateItem(k) \/ RemoveItems(k)
  \/ \E d \in Documents : Upload(k, d) \/ DeleteDocument(k, d)
  \/ \E to \in Tiers : SetVerification(k, to)

\* What a request must have found.
Found(j) == j.op = "delete" => document[j.doc] = "LIVE"

LEMMA RequestJobs ==
  ASSUME DossierTypeOK, NEW k \in Clerks, Requests(k)
  PROVE  \E j \in Jobs :
           /\ TakeOn(k, j)
           /\ Found(j)
           /\ j.op \notin {"record", "document", "version"}
<1>. DEFINE Orders(j) == Found(j) /\ j.op \notin {"record", "document", "version"}
<1>1. CASE \/ InitDataRoom(k) \/ CreateFolder(k) \/ SeedChecklist(k) \/ CreateItem(k)
           \/ RemoveItems(k)
  <2>1. PICK o \in {"sections", "checklist", "folder", "item", "remove"} :
          TakeOn(k, [op |-> o]) /\ Orders([op |-> o])
    BY <1>1 DEF InitDataRoom, CreateFolder, SeedChecklist, CreateItem, RemoveItems, Found
  <2>. QED
    BY <2>1, JobTypes
<1>2. ASSUME NEW d \in Documents, Upload(k, d) \/ DeleteDocument(k, d)
      PROVE  \E j \in Jobs : TakeOn(k, j) /\ Orders(j)
  <2>1. PICK o \in Steps : TakeOn(k, [op |-> o, doc |-> d]) /\ Orders([op |-> o, doc |-> d])
    BY <1>2 DEF Upload, DeleteDocument, Steps, Found
  <2>. QED
    BY <2>1, JobTypes
<1>3. ASSUME NEW to \in Tiers, SetVerification(k, to)
      PROVE  \E j \in Jobs : TakeOn(k, j) /\ Orders(j)
  <2>1. TakeOn(k, [op |-> "tier", to |-> to]) /\ Orders([op |-> "tier", to |-> to])
    BY <1>3 DEF SetVerification, Found
  <2>. QED
    BY <2>1, JobTypes
<1>. QED
  BY <1>1, <1>2, <1>3 DEF Requests

LEMMA DossierInitType == DossierInit => DossierTypeOK
<1>. SUFFICES ASSUME DossierInit
             PROVE  DossierTypeOK
  OBVIOUS
<1>1. sections \in 0..MaxSeeds /\ checklist \in 0..MaxSeeds
  BY DossierAssumption DEF DossierInit
<1>2. job \in [Clerks -> Jobs]
  BY JobTypes DEF DossierInit
<1>3. /\ file \in [Documents -> BOOLEAN] /\ filed \in [Documents -> BOOLEAN]
      /\ document \in [Documents -> {"ABSENT", "LIVE", "DELETED"}]
  BY DEF DossierInit
<1>. QED
  BY <1>1, <1>2, <1>3 DEF DossierInit, DossierTypeOK

\* The steps that only add to or take from a list.
Lists(k) ==
  \/ CreateSections(k) \/ CreateFolderWrite(k) \/ SeedChecklistWrite(k)
  \/ CreateItemWrite(k) \/ RemoveItemsWrite(k)

DocumentSteps(k) ==
  SaveFile(k) \/ CreateDocument(k) \/ CreateVersion(k) \/ DeleteDocumentWrite(k)

LEMMA DossierSteps ==
  ASSUME NEW k \in Clerks, Filing(k) \/ Papers(k) \/ Verifying(k) \/ JobFails(k)
  PROVE  Requests(k) \/ Lists(k) \/ DocumentSteps(k) \/ SetTier(k) \/ UpsertRecord(k) \/ JobFails(k)
BY DEF Filing, Papers, Verifying, Requests, Lists, DocumentSteps

LEMMA DossierNextType == DossierTypeOK /\ [DossierNext]_dossierVars => DossierTypeOK'
<1>. SUFFICES ASSUME DossierTypeOK, [DossierNext]_dossierVars
             PROVE  DossierTypeOK'
  OBVIOUS
<1>1. ASSUME NEW k \in Clerks, Requests(k)
      PROVE  DossierTypeOK'
  <2>1. PICK j \in Jobs : TakeOn(k, j)
    BY <1>1, RequestJobs
  <2>. QED
    BY <2>1 DEF TakeOn, DossierTypeOK, lists, papersOf, passport
<1>2. ASSUME NEW k \in Clerks, Lists(k)
      PROVE  DossierTypeOK'
  <2>1. job' \in [Clerks -> Jobs] /\ troubled' \in BOOLEAN /\ torn' \subseteq Documents
    BY <1>2, JobTypes DEF Lists, CreateSections, CreateFolderWrite, SeedChecklistWrite,
         CreateItemWrite, RemoveItemsWrite, Done, TurnTo, DossierTypeOK
  <2>2. sections' \in 0..MaxSeeds /\ checklist' \in 0..MaxSeeds
    BY <1>2, DossierAssumption DEF Lists, CreateSections, CreateFolderWrite, SeedChecklistWrite,
         CreateItemWrite, RemoveItemsWrite, DossierTypeOK
  <2>3. ownFolder' \in BOOLEAN /\ ownItem' \in BOOLEAN
    BY <1>2 DEF Lists, CreateSections, CreateFolderWrite, SeedChecklistWrite,
         CreateItemWrite, RemoveItemsWrite, DossierTypeOK
  <2>4. UNCHANGED <<papersOf, passport>>
    BY <1>2 DEF Lists, CreateSections, CreateFolderWrite, SeedChecklistWrite, CreateItemWrite,
         RemoveItemsWrite
  <2>. QED
    BY <2>1, <2>2, <2>3, <2>4 DEF DossierTypeOK, papersOf, passport
<1>3. ASSUME NEW k \in Clerks, DocumentSteps(k)
      PROVE  DossierTypeOK'
  <2>1. job[k] \in Jobs /\ job[k].op \in Steps
    BY <1>3 DEF DocumentSteps, SaveFile, CreateDocument, CreateVersion, DeleteDocumentWrite,
         DossierTypeOK, Steps
  <2>2. job[k].doc \in Documents
    BY <2>1, JobFields
  <2>3. \A o \in Steps : [op |-> o, doc |-> job[k].doc] \in Jobs
    BY <2>2, JobTypes
  <2>4. job' \in [Clerks -> Jobs] /\ troubled' \in BOOLEAN /\ torn' \subseteq Documents
    BY <1>3, <2>3, JobTypes DEF DocumentSteps, SaveFile, CreateDocument, CreateVersion,
         DeleteDocumentWrite, Done, TurnTo, DossierTypeOK, Steps
  <2>5. /\ file' \in [Documents -> BOOLEAN] /\ filed' \in [Documents -> BOOLEAN]
        /\ document' \in [Documents -> {"ABSENT", "LIVE", "DELETED"}]
    BY <1>3, <2>2 DEF DocumentSteps, SaveFile, CreateDocument, CreateVersion,
         DeleteDocumentWrite, DossierTypeOK
  <2>6. UNCHANGED <<lists, passport>>
    BY <1>3 DEF DocumentSteps, SaveFile, CreateDocument, CreateVersion, DeleteDocumentWrite
  <2>. QED
    BY <2>4, <2>5, <2>6 DEF DossierTypeOK, lists, passport
<1>4. ASSUME NEW k \in Clerks, SetTier(k) \/ UpsertRecord(k)
      PROVE  DossierTypeOK'
  <2>1. job[k].to \in Tiers
    BY <1>4, JobFields DEF SetTier, UpsertRecord, DossierTypeOK
  <2>2. [op |-> "record", to |-> job[k].to] \in Jobs
    BY <2>1, JobTypes
  <2>. QED
    BY <1>4, <2>1, <2>2, JobTypes
    DEF SetTier, UpsertRecord, Done, TurnTo, DossierTypeOK, lists, papersOf
<1>5. ASSUME NEW k \in Clerks, JobFails(k)
      PROVE  DossierTypeOK'
  BY <1>5, JobTypes DEF JobFails, DossierTypeOK, lists, papersOf, passport
<1>6. CASE UNCHANGED dossierVars
  BY <1>6 DEF dossierVars, DossierTypeOK, lists, papersOf, passport
<1>. QED
  BY <1>1, <1>2, <1>3, <1>4, <1>5, <1>6, DossierSteps DEF DossierNext

\* Lists, documents, tiers and jobs are what DossierTypeOK says (the data
\* room, the checklist and the passport).
THEOREM DossierTypeCorrect == DossierSpec => []DossierTypeOK
BY DossierInitType, DossierNextType, PTL DEF DossierSpec
-----------------------------------------------------------------------------
(* Files *)

\* A job that changes no document leaves what is stored as it is, unless it
\* gives up the version it owed.
LEMMA StoredStays ==
  ASSUME DossierTypeOK, Stored, NEW k \in Clerks, NEW j,
         j.op \in Steps \ {"save"} => file[j.doc],
         torn \subseteq torn', job[k].op = "version" => job[k].doc \in torn',
         job' = [job EXCEPT ![k] = j], UNCHANGED papersOf
  PROVE  Stored'
<1>1. \A c \in Clerks : job'[c] = IF c = k THEN j ELSE job[c]
  BY DEF DossierTypeOK
<1>2. file' = file /\ document' = document /\ filed' = filed
  BY DEF papersOf
<1>3. ASSUME NEW d \in Documents
      PROVE  /\ filed'[d] \/ document'[d] # "ABSENT" => file'[d]
             /\ \A c \in Clerks : job'[c].op \in Steps \ {"save"} /\ job'[c].doc = d => file'[d]
  BY <1>1, <1>2 DEF Stored
<1>4. ASSUME NEW d \in Documents, document[d] = "LIVE", ~filed[d]
      PROVE  d \in torn' \/ \E c \in Clerks : job'[c].op = "version" /\ job'[c].doc = d
  <2>1. d \in torn \/ \E c \in Clerks : job[c].op = "version" /\ job[c].doc = d
    BY <1>4 DEF Stored
  <2>. QED
    BY <1>1, <2>1
<1>. QED
  BY <1>2, <1>3, <1>4 DEF Stored

LEMMA DossierNextStored ==
  DossierTypeOK /\ Stored /\ [DossierNext]_dossierVars => Stored'
<1>. SUFFICES ASSUME DossierTypeOK, Stored, [DossierNext]_dossierVars
             PROVE  Stored'
  OBVIOUS
<1>0. NoJob.op \notin Steps
  BY DEF NoJob, Steps
<1>1. ASSUME NEW k \in Clerks, Requests(k)
      PROVE  Stored'
  <2>1. PICK j \in Jobs :
          TakeOn(k, j) /\ Found(j) /\ j.op \notin {"record", "document", "version"}
    BY <1>1, RequestJobs
  <2>2. j.op \in Steps \ {"save"} => file[j.doc]
    BY <2>1, JobFields DEF Found, Steps, Stored
  <2>3. job[k].op # "version" /\ torn' = torn
    BY <2>1 DEF TakeOn, NoJob
  <2>. QED
    BY <2>1, <2>2, <2>3, StoredStays DEF TakeOn
<1>2. ASSUME NEW k \in Clerks, Lists(k)
      PROVE  Stored'
  <2>1. job' = [job EXCEPT ![k] = NoJob] /\ UNCHANGED papersOf
    BY <1>2 DEF Lists, CreateSections, CreateFolderWrite, SeedChecklistWrite, CreateItemWrite,
         RemoveItemsWrite, Done, TurnTo
  <2>2. job[k].op # "version" /\ torn' = torn
    BY <1>2 DEF Lists, CreateSections, CreateFolderWrite, SeedChecklistWrite, CreateItemWrite,
         RemoveItemsWrite, Done, TurnTo
  <2>. QED
    BY <1>0, <2>1, <2>2, StoredStays
<1>3. ASSUME NEW k \in Clerks, DocumentSteps(k)
      PROVE  Stored'
  <2>1. job[k] \in Jobs /\ job[k].op \in Steps
    BY <1>3 DEF DocumentSteps, SaveFile, CreateDocument, CreateVersion, DeleteDocumentWrite,
         DossierTypeOK, Steps
  <2>2. job[k].doc \in Documents
    BY <2>1, JobFields
  <2>3. PICK j \in Jobs : job' = [job EXCEPT ![k] = j] /\ (j.op \in Steps => j.doc = job[k].doc)
    BY <1>0, <1>3, <2>2, JobTypes DEF DocumentSteps, SaveFile, CreateDocument, CreateVersion,
         DeleteDocumentWrite, Done, TurnTo, Steps
  <2>4. \A d \in Documents : file[d] => file'[d]
    BY <1>3 DEF DocumentSteps, SaveFile, CreateDocument, CreateVersion, DeleteDocumentWrite,
         DossierTypeOK
  <2>5. file'[job[k].doc]
    BY <1>3, <2>2 DEF DocumentSteps, SaveFile, CreateDocument, CreateVersion,
         DeleteDocumentWrite, DossierTypeOK, Stored, Steps
  <2>6. \A d \in Documents \ {job[k].doc} : filed'[d] = filed[d] /\ document'[d] = document[d]
    BY <1>3 DEF DocumentSteps, SaveFile, CreateDocument, CreateVersion, DeleteDocumentWrite,
         DossierTypeOK
  <2>7. \A c \in Clerks : job'[c] = IF c = k THEN j ELSE job[c]
    BY <2>3 DEF DossierTypeOK
  <2>8. torn' = torn
    BY <1>3 DEF DocumentSteps, SaveFile, CreateDocument, CreateVersion, DeleteDocumentWrite,
         Done, TurnTo
  <2>9. /\ job[k].op = "version" => filed'[job[k].doc]
        /\ document'[job[k].doc] = "LIVE" => document[job[k].doc] = "LIVE" \/ j.op = "version"
        /\ filed[job[k].doc] => filed'[job[k].doc]
    <3>1. CASE SaveFile(k)
      BY <3>1 DEF SaveFile
    <3>2. CASE CreateDocument(k)
      <4>1. job'[k].op = "version" /\ job[k].op = "document" /\ filed' = filed
        BY <3>2 DEF CreateDocument, TurnTo, DossierTypeOK
      <4>. QED
        BY <4>1, <2>7
    <3>3. CASE CreateVersion(k)
      BY <3>3, <2>2 DEF CreateVersion, DossierTypeOK
    <3>4. CASE DeleteDocumentWrite(k)
      BY <3>4, <2>2 DEF DeleteDocumentWrite, DossierTypeOK
    <3>. QED
      BY <1>3, <3>1, <3>2, <3>3, <3>4 DEF DocumentSteps
  <2>10. ASSUME NEW d \in Documents, document'[d] = "LIVE", ~filed'[d]
         PROVE  d \in torn' \/ \E c \in Clerks : job'[c].op = "version" /\ job'[c].doc = d
    <3>1. CASE d = job[k].doc /\ j.op = "version"
      BY <2>3, <2>7, <3>1 DEF Steps
    <3>2. CASE ~(d = job[k].doc /\ j.op = "version")
      <4>1. document[d] = "LIVE" /\ ~filed[d] /\ ~(job[k].op = "version" /\ job[k].doc = d)
        BY <2>6, <2>9, <2>10, <3>2
      <4>2. d \in torn \/ \E c \in Clerks : job[c].op = "version" /\ job[c].doc = d
        BY <4>1 DEF Stored
      <4>. QED
        BY <2>7, <2>8, <4>1, <4>2
    <3>. QED
      BY <3>1, <3>2
  <2>11. ASSUME NEW d \in Documents
         PROVE  /\ filed'[d] \/ document'[d] # "ABSENT" => file'[d]
                /\ \A c \in Clerks : job'[c].op \in Steps \ {"save"} /\ job'[c].doc = d => file'[d]
    BY <2>3, <2>4, <2>5, <2>6, <2>7 DEF Stored, Steps
  <2>. QED
    BY <2>10, <2>11 DEF Stored
<1>4. ASSUME NEW k \in Clerks, SetTier(k) \/ UpsertRecord(k) \/ JobFails(k)
      PROVE  Stored'
  <2>1. PICK j \in {NoJob, [op |-> "record", to |-> job[k].to]} :
          job' = [job EXCEPT ![k] = j] /\ UNCHANGED papersOf
    BY <1>4 DEF SetTier, UpsertRecord, JobFails, Done, TurnTo
  <2>2. j.op \notin Steps
    BY <1>0 DEF Steps
  <2>3. job[k] \in Jobs
    BY DEF DossierTypeOK
  <2>4. torn \subseteq torn' /\ (job[k].op = "version" => job[k].doc \in torn')
    BY <1>4, <2>3, JobFields DEF SetTier, UpsertRecord, JobFails, Done, TurnTo, Steps
  <2>. QED
    BY <2>1, <2>2, <2>4, StoredStays
<1>5. CASE UNCHANGED dossierVars
  <2>1. UNCHANGED <<file, document, filed, job, torn>>
    BY <1>5 DEF dossierVars, papersOf
  <2>. QED
    BY <2>1 DEF Stored
<1>. QED
  BY <1>1, <1>2, <1>3, <1>4, <1>5, DossierSteps DEF DossierNext

LEMMA DossierInitStored == DossierInit => Stored
BY DEF DossierInit, Stored, NoJob, Steps
-----------------------------------------------------------------------------
(* One request at a time *)

\* The only job under way, and what it rests on.
Alone(k, j) == \A c \in Clerks : job[c] = IF c = k THEN j ELSE NoJob

Rests(j) == IF j.op = "record" THEN tier = j.to ELSE record \in {NoRecord, tier}

LEMMA AloneIsOrderly ==
  ASSUME NEW k \in Clerks, NEW j, Alone(k, j), Rests(j)
  PROVE  Orderly
BY DEF Alone, Rests, Orderly, NoJob

LEMMA OrderlyIsAlone ==
  ASSUME Orderly, ~troubled, NEW k \in Clerks, job[k] # NoJob \/ ~AtWork
  PROVE  Alone(k, job[k]) /\ Rests(job[k])
<1>1. \A c \in Clerks \ {k} : job[c] = NoJob
  BY DEF Orderly, AtWork
<1>2. \A c \in Clerks \ {k} : job[c].op = "none"
  BY <1>1 DEF NoJob
<1>. QED
  BY <1>1, <1>2 DEF Orderly, Alone, Rests

\* A job under way goes on or ends.
LEMMA TurnOrderly ==
  ASSUME DossierTypeOK, Orderly, NEW k \in Clerks, job[k] # NoJob, NEW j,
         TurnTo(k, j), Rests(job[k]) => Rests(j)'
  PROVE  Orderly'
<1>. SUFFICES ASSUME ~troubled
             PROVE  Orderly'
  BY DEF Orderly, TurnTo
<1>1. Alone(k, job[k]) /\ Rests(job[k])
  BY OrderlyIsAlone
<1>2. \A c \in Clerks : job'[c] = IF c = k THEN j ELSE NoJob
  BY <1>1 DEF Alone, TurnTo, DossierTypeOK
<1>3. Rests(j)'
  BY <1>1
<1>. QED
  BY <1>2, <1>3 DEF Rests, Orderly, NoJob

LEMMA RequestsOrderly ==
  ASSUME DossierTypeOK, Orderly, NEW k \in Clerks, Requests(k)
  PROVE  Orderly'
<1>. SUFFICES ASSUME ~troubled'
             PROVE  Orderly'
  BY DEF Orderly
<1>1. PICK j \in Jobs :
        TakeOn(k, j) /\ Found(j) /\ j.op \notin {"record", "document", "version"}
  BY RequestJobs
<1>2. ~troubled /\ ~AtWork /\ job[k] = NoJob
  BY <1>1 DEF TakeOn
<1>3. Rests(NoJob) /\ \A c \in Clerks : job[c] = NoJob
  BY <1>2, OrderlyIsAlone DEF Alone
<1>4. \A c \in Clerks : job'[c] = IF c = k THEN j ELSE NoJob
  BY <1>1, <1>3 DEF TakeOn, DossierTypeOK
<1>5. Rests(j)
  BY <1>1, <1>3 DEF Rests, NoJob
<1>6. UNCHANGED <<tier, record>>
  BY <1>1 DEF TakeOn, lists, papersOf, passport
<1>. QED
  BY <1>4, <1>5, <1>6 DEF Rests, Orderly, NoJob

LEMMA OthersOrderly ==
  ASSUME DossierTypeOK, Orderly, NEW k \in Clerks, Lists(k) \/ DocumentSteps(k)
  PROVE  Orderly'
<1>1. UNCHANGED <<tier, record>>
  BY DEF Lists, CreateSections, CreateFolderWrite, SeedChecklistWrite, CreateItemWrite,
     RemoveItemsWrite, DocumentSteps, SaveFile, CreateDocument, CreateVersion,
     DeleteDocumentWrite, passport
<1>2. job[k] # NoJob /\ job[k].op # "record"
  BY DEF Lists, CreateSections, CreateFolderWrite, SeedChecklistWrite, CreateItemWrite,
     RemoveItemsWrite, DocumentSteps, SaveFile, CreateDocument, CreateVersion,
     DeleteDocumentWrite, NoJob
<1>3. PICK j : TurnTo(k, j) /\ j.op # "record"
  <2>1. PICK j \in {NoJob, [op |-> "document", doc |-> job[k].doc],
                    [op |-> "version", doc |-> job[k].doc]} : TurnTo(k, j)
    BY DEF Lists, CreateSections, CreateFolderWrite, SeedChecklistWrite, CreateItemWrite,
       RemoveItemsWrite, DocumentSteps, SaveFile, CreateDocument, CreateVersion,
       DeleteDocumentWrite, Done
  <2>. QED
    BY <2>1 DEF NoJob
<1>4. Rests(job[k]) => Rests(j)'
  BY <1>1, <1>2, <1>3 DEF Rests
<1>. QED
  BY <1>2, <1>3, <1>4, TurnOrderly

LEMMA PassportOrderly ==
  ASSUME DossierTypeOK, Orderly, NEW k \in Clerks, SetTier(k) \/ UpsertRecord(k)
  PROVE  Orderly'
<1>1. job[k] # NoJob
  BY DEF SetTier, UpsertRecord, NoJob
<1>2. CASE SetTier(k)
  <2>1. job[k].to \in Tiers
    BY <1>2, JobFields DEF SetTier, DossierTypeOK
  <2>2. PICK j \in Jobs : j = [op |-> "record", to |-> job[k].to]
    BY <2>1, JobTypes
  <2>3. tier' = j.to /\ j.op = "record" /\ job[k].op = "tier"
    BY <1>2, <2>2 DEF SetTier
  <2>4. Rests(job[k]) => Rests(j)'
    BY <1>1, <2>3 DEF Rests
  <2>. QED
    BY <1>1, <1>2, <2>2, <2>4, TurnOrderly DEF SetTier
<1>3. CASE UpsertRecord(k)
  <2>1. Rests(job[k]) => Rests(NoJob)'
    BY <1>1, <1>3 DEF UpsertRecord, Rests, NoJob
  <2>. QED
    BY <1>1, <1>3, <2>1, TurnOrderly DEF UpsertRecord, Done
<1>. QED
  BY <1>2, <1>3

LEMMA DossierInitOrderly == DossierInit => Orderly
BY DEF DossierInit, Orderly, NoJob

LEMMA DossierNextOrderly ==
  DossierTypeOK /\ Orderly /\ [DossierNext]_dossierVars => Orderly'
<1>. SUFFICES ASSUME DossierTypeOK, Orderly, [DossierNext]_dossierVars
             PROVE  Orderly'
  OBVIOUS
<1>1. ASSUME NEW k \in Clerks, JobFails(k)
      PROVE  Orderly'
  BY <1>1 DEF JobFails, Orderly
<1>2. CASE UNCHANGED dossierVars
  BY <1>2 DEF dossierVars, lists, papersOf, passport, Orderly
<1>. QED
  BY <1>1, <1>2, RequestsOrderly, OthersOrderly, PassportOrderly, DossierSteps DEF DossierNext

\* The two invariants of the dossier hold.
LEMMA DossierInvariants == DossierSpec => [](DossierTypeOK /\ Stored /\ Orderly)
BY DossierTypeCorrect, DossierInitStored, DossierNextStored, DossierInitOrderly,
   DossierNextOrderly, PTL DEF DossierSpec

\* Whatever overlaps and fails, a version row's file is there, and a listed
\* document opens but for its own upload (DataroomService.uploadDocument).
THEOREM ListedDocumentsOpen == DossierSpec => []DocumentsOpen
<1>1. Stored => DocumentsOpen
  BY DEF Stored, DocumentsOpen
<1>. QED
  BY <1>1, DossierInvariants, PTL

\* Between requests the tier on show is the one recorded, unless one failed
\* or two overlapped (VerificationService.set).
THEOREM TiersAreRecorded == DossierSpec => []TierRestsOnItsRecord
<1>1. Orderly => TierRestsOnItsRecord
  <2>1. ~AtWork => \A k \in Clerks : job[k].op # "record"
    BY DEF AtWork, NoJob
  <2>. QED
    BY <2>1 DEF Orderly, TierRestsOnItsRecord
<1>. QED
  BY <1>1, DossierInvariants, PTL
-----------------------------------------------------------------------------
(* The six side by side *)

LEMMA SomeProfile == (CHOOSE p \in Profiles : TRUE) \in Profiles
<1>1. [ownerType |-> "PRIVATE", landOwnershipRetained |-> TRUE, financingRequired |-> TRUE,
       userPay |-> TRUE, governmentPay |-> TRUE, revenueCertainty |-> "low",
       transferRequired |-> TRUE, longConcession |-> TRUE, riskAppetite |-> "low"] \in Profiles
  BY DEF Profiles, Answers, Levels
<1>. QED
  BY <1>1

LEMMA SomeDraft == (CHOOSE t \in Drafts : TRUE) \in Drafts
<1>1. \A term \in TermNames : \E v : v \in Terms[term]
  BY AppraisalAssumption
<1>2. PICK v : v = [term \in TermNames |-> CHOOSE x : x \in Terms[term]]
  OBVIOUS
<1>3. \A term \in TermNames : v[term] \in Terms[term]
  BY <1>1, <1>2
<1>4. [gfaSqm |-> v["gfaSqm"], efficiencyPct |-> v["efficiencyPct"],
       salePricePerSqm |-> v["salePricePerSqm"],
       constructionCostPerSqm |-> v["constructionCostPerSqm"], landCost |-> v["landCost"],
       professionalFeesPct |-> v["professionalFeesPct"], contingencyPct |-> v["contingencyPct"],
       marketingPct |-> v["marketingPct"], sellingCostsPct |-> v["sellingCostsPct"],
       developmentMonths |-> v["developmentMonths"], debtRatioPct |-> v["debtRatioPct"],
       financeRatePct |-> v["financeRatePct"],
       requiredProfitOnCostPct |-> v["requiredProfitOnCostPct"]] \in Drafts
  BY <1>3 DEF Drafts, TermNames
<1>. QED
  BY <1>4

LEMMA StartOfEach ==
  Init => WebInit /\ ConsortiumInit /\ DossierInit /\ MeritInit /\ RecommenderInit /\ AppraisalInit
BY SomeProfile, SomeDraft DEF Init, RecommenderInit, AppraisalInit

LEMMA StepOfEach ==
  [Next]_vars =>
    /\ [WebNext]_webVars /\ [ConsortiumNext]_consortiumVars /\ [DossierNext]_dossierVars
    /\ [MeritNext]_meritVars /\ [RecommenderNext]_profile /\ [AppraisalNext]_terms
BY DEF Next, vars

\* No component moves another: together each of the six behaves as it is
\* specified to on its own, so that what is proved of it alone holds beside
\* the others.
THEOREM EachOnItsOwn ==
  Spec => WebSpec /\ ConsortiumSpec /\ DossierSpec /\ MeritSpec /\ RecommenderSpec /\ AppraisalSpec
BY StartOfEach, StepOfEach, PTL
   DEF Spec, WebSpec, ConsortiumSpec, DossierSpec, MeritSpec, RecommenderSpec, AppraisalSpec

\* All six keep their types.
THEOREM RoomsTypeCorrect == Spec => []TypesOK
BY EachOnItsOwn, WebTypeCorrect, ConsortiumTypeCorrect, DossierTypeCorrect, MeritTypeCorrect,
   RecommenderTypeCorrect, AppraisalTypeCorrect, PTL DEF TypesOK

\* What is promised of each alone is kept by the six together.
THEOREM RoomsKeepTheirWord ==
  Spec => /\ []NoHalfSession /\ []SignedInPagesStaySignedIn /\ []SignedOutStaysOut
          /\ []DocumentsOpen /\ []TierRestsOnItsRecord /\ MembershipMovesOn
          /\ []MeritIsRewarded /\ OwnGainNeverCostsRank
          /\ []AdviceFitsTitleAndTerm /\ []EnginesAgree
BY EachOnItsOwn, SessionsAreWhole, NobodyIsBounced, SignedOutForGood, ListedDocumentsOpen,
   TiersAreRecorded, MembershipsMoveOn, TheBetterNeverScoreLess,
   NobodyLosesByTheirGain, TheAdviceFits, TheStudiesAgree
=============================================================================
