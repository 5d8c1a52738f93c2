-------------------------- MODULE EnrichmentProofs --------------------------
(***************************************************************************)
(* Proofs about Integrations, the catalog beneath, and about Enrichment,   *)
(* for every set of books, servers, pages, forms and requests, every batch *)
(* size and every bound.                                                   *)
(***************************************************************************)
EXTENDS Enrichment, TLAPS, WellFoundedInduction

-----------------------------------------------------------------------------
(* Integrations.                                                           *)

LEMMA BlankRecords ==
  /\ NoSnapshot \in Snapshot
  /\ NoCrawl \in Crawl
  /\ NoSave \in Save
  /\ Off \in Client
  <1>1. NoSnapshot \in Snapshot
    BY DEF NoSnapshot, Snapshot
  <1>2. NoEndpoint \in Scopes
    BY DEF Scopes
  <1>3. NoCrawl \in Crawl /\ Off \in Client
    BY <1>1, <1>2 DEF NoCrawl, Crawl, Off, Client
  <1>4. NoSave \in Save
    BY <1>1, <1>2 DEF NoSave, Save, Settings
  <1> QED BY <1>1, <1>3, <1>4

(* What one crawl, or one form, becomes.                                   *)
LEMMA CrawlBecomes ==
  ASSUME IntegrationsTypeOK, NEW c \in Crawlers, NEW r \in Crawl,
         crawl' = [crawl EXCEPT ![c] = r]
  PROVE  /\ crawl' \in [Crawlers -> Crawl]
         /\ crawl'[c] = r
         /\ \A o \in Crawlers \ {c} : crawl'[o] = crawl[o]
  BY DEF IntegrationsTypeOK

LEMMA SaveBecomes ==
  ASSUME IntegrationsTypeOK, NEW s \in Savers, NEW r \in Save,
         save' = [save EXCEPT ![s] = r]
  PROVE  /\ save' \in [Savers -> Save]
         /\ save'[s] = r
         /\ \A o \in Savers \ {s} : save'[o] = save[o]
  BY DEF IntegrationsTypeOK

LEMMA AgedIsSnapshot ==
  ASSUME NEW s \in Snapshot
  PROVE  /\ Aged(s) \in Snapshot
         /\ Aged(s).age = "never" <=> s.age = "never"
  BY DEF Aged, Snapshot

LEMMA StoredIsSnapshot ==
  ASSUME IntegrationsTypeOK, NEW e \in Scopes
  PROVE  Stored(e) \in Snapshot
  BY BlankRecords DEF IntegrationsTypeOK, Stored, Scopes

-----------------------------------------------------------------------------
(* Types, one lemma for the actions of each part.                          *)

LEMMA InitTypes == IInit => IntegrationsTypeOK
  <1> SUFFICES ASSUME IInit PROVE IntegrationsTypeOK
    OBVIOUS
  <1>1. settings \in Settings
    BY FormAssumption DEF IInit
  <1>2. /\ server \in [Endpoints -> SUBSET Books] /\ settled \subseteq Books
        /\ up \in BOOLEAN /\ hardcover \in BOOLEAN /\ cleared \in BOOLEAN
        /\ refresh \in BOOLEAN
    BY DEF IInit
  <1>3. /\ client \in Client /\ durable \in [Endpoints -> Snapshot]
        /\ crawl \in [Crawlers -> Crawl] /\ save \in [Savers -> Save]
    BY BlankRecords DEF IInit
  <1>4. saves \in 0 .. MaxSaves /\ boots \in 0 .. MaxBoots /\ fails \in 0 .. MaxFails
    BY IntegrationBounds DEF IInit
  <1> QED BY <1>1, <1>2, <1>3, <1>4 DEF IntegrationsTypeOK

LEMMA WorldTypes ==
  ASSUME IntegrationsTypeOK,
         \/ \E e \in Endpoints, b \in Books : Import(e, b)
         \/ \E added \in SUBSET Books : SecondEnds(added)
         \/ HalfDayPasses
  PROVE  IntegrationsTypeOK'
  <1>1. ASSUME NEW e \in Endpoints, NEW b \in Books, Import(e, b) PROVE IntegrationsTypeOK'
    BY <1>1 DEF Import, IntegrationsTypeOK
  <1>2. ASSUME NEW added \in SUBSET Books, SecondEnds(added) PROVE IntegrationsTypeOK'
    BY <1>2 DEF SecondEnds, IntegrationsTypeOK
  <1>3. CASE HalfDayPasses
    <2>1. client \in Client /\ client.snap \in Snapshot
      BY DEF IntegrationsTypeOK, Client
    <2>2. client' \in Client
      BY <1>3, <2>1, AgedIsSnapshot DEF HalfDayPasses, Client
    <2>3. durable' \in [Endpoints -> Snapshot]
      BY <1>3, AgedIsSnapshot DEF HalfDayPasses, IntegrationsTypeOK
    <2> QED BY <1>3, <2>2, <2>3 DEF HalfDayPasses, IntegrationsTypeOK
  <1> QED BY <1>1, <1>2, <1>3

LEMMA LifeTypes ==
  ASSUME IntegrationsTypeOK, Boot \/ Exit
  PROVE  IntegrationsTypeOK'
  <1>1. CASE Boot
    <2>1. settings \in Settings /\ settings.endpoint \in Scopes
          /\ settings.enabled \in BOOLEAN /\ settings.hardcover \in BOOLEAN
      BY DEF IntegrationsTypeOK, Settings
    <2>2. client' \in Client
      BY <1>1, <2>1, StoredIsSnapshot DEF Boot, Client
    <2>3. boots' \in 0 .. MaxBoots
      BY <1>1, IntegrationBounds DEF Boot, IntegrationsTypeOK
    <2> QED BY <1>1, <2>1, <2>2, <2>3 DEF Boot, IntegrationsTypeOK
  <1>2. CASE Exit
    BY <1>2, BlankRecords DEF Exit, IntegrationsTypeOK
  <1> QED BY <1>1, <1>2

LEMMA EnqueueTypes ==
  ASSUME IntegrationsTypeOK, EnqueueRefresh
  PROVE  IntegrationsTypeOK'
  BY DEF EnqueueRefresh, IntegrationsTypeOK

(* A crawl starts: what it is then.                                        *)
Started == [NoCrawl EXCEPT !.pc = "list"]

LEMMA StartedIsCrawl == Started \in Crawl /\ Started.pc = "list"
  BY BlankRecords DEF Started, NoCrawl, Crawl

LEMMA BeginCrawlTypes ==
  ASSUME IntegrationsTypeOK, RunRefresh \/ \E c \in Pages : EditPage(c)
  PROVE  IntegrationsTypeOK'
  <1>1. ASSUME NEW c \in Crawlers, crawl' = [crawl EXCEPT ![c] = Started]
        PROVE  crawl' \in [Crawlers -> Crawl]
    BY <1>1, StartedIsCrawl, CrawlBecomes
  <1>2. CASE RunRefresh
    BY <1>1, <1>2 DEF RunRefresh, IntegrationsTypeOK, Started, Crawlers
  <1>3. ASSUME NEW c \in Pages, EditPage(c) PROVE IntegrationsTypeOK'
    BY <1>1, <1>3 DEF EditPage, IntegrationsTypeOK, Started, Crawlers
  <1> QED BY <1>2, <1>3

(* The paths that were found belong to records of a server: a list of      *)
(* records was asked of an address that was not blank.                     *)
ListedFrom == \A c \in Crawlers : crawl[c].pc = "files" => crawl[c].from \in Endpoints

Types == IntegrationsTypeOK /\ ListedFrom

LEMMA CrawlListTypes ==
  ASSUME Types, NEW c \in Crawlers, CrawlList(c)
  PROVE  Types'
  <1> DEFINE r == [crawl[c] EXCEPT !.pc = "files", !.from = client.endpoint,
                                   !.list = server[client.endpoint]]
  <1>1. client.endpoint \in Endpoints /\ server[client.endpoint] \subseteq Books
    BY DEF Types, IntegrationsTypeOK, Client, Scopes, CrawlList
  <1>2. crawl[c] \in Crawl
    BY DEF Types, IntegrationsTypeOK
  <1>3. r \in Crawl /\ r.pc = "files" /\ r.from \in Endpoints
    BY <1>1, <1>2 DEF Crawl, Scopes
  <1>4. crawl' = [crawl EXCEPT ![c] = r]
    BY DEF CrawlList, Types, IntegrationsTypeOK
  <1> HIDE DEF r
  <1>5. /\ crawl' \in [Crawlers -> Crawl] /\ crawl'[c] = r
        /\ \A o \in Crawlers \ {c} : crawl'[o] = crawl[o]
    BY <1>3, <1>4, CrawlBecomes DEF Types
  <1>6. IntegrationsTypeOK'
    BY <1>5 DEF Types, IntegrationsTypeOK, CrawlList
  <1> QED BY <1>3, <1>5, <1>6 DEF Types, ListedFrom

LEMMA CrawlFilesTypes ==
  ASSUME Types, NEW c \in Crawlers, CrawlFiles(c)
  PROVE  Types'
  <1> DEFINE found == (crawl[c].list \cap server[client.endpoint]) \X {crawl[c].from}
             r == [crawl[c] EXCEPT !.pc = "stamp", !.list = {},
                                   !.snap = [crawl[c].snap EXCEPT !.books = found]]
  <1>1. crawl[c] \in Crawl /\ crawl[c].from \in Endpoints /\ crawl[c].list \subseteq Books
    BY DEF Types, ListedFrom, IntegrationsTypeOK, CrawlFiles, Crawl
  <1>2. found \subseteq Books \X Endpoints
    BY <1>1
  <1>3. crawl' = [crawl EXCEPT ![c] = r]
    BY <1>1 DEF CrawlFiles, Types, IntegrationsTypeOK, Crawl
  <1> HIDE DEF found
  <1>4. r \in Crawl /\ r.pc = "stamp"
    BY <1>1, <1>2 DEF Crawl, Snapshot
  <1> HIDE DEF r
  <1>5. /\ crawl' \in [Crawlers -> Crawl] /\ crawl'[c] = r
        /\ \A o \in Crawlers \ {c} : crawl'[o] = crawl[o]
    BY <1>3, <1>4, CrawlBecomes DEF Types
  <1>6. IntegrationsTypeOK'
    BY <1>5 DEF Types, IntegrationsTypeOK, CrawlFiles
  <1> QED BY <1>4, <1>5, <1>6 DEF Types, ListedFrom

LEMMA CrawlStampTypes ==
  ASSUME Types, NEW c \in Crawlers, CrawlStamp(c)
  PROVE  Types'
  <1> DEFINE pc == IF client.endpoint = NoEndpoint THEN "publish" ELSE "save"
             r == [crawl[c] EXCEPT !.pc = pc, !.from = NoEndpoint, !.scope = client.endpoint,
                     !.snap = [crawl[c].snap EXCEPT !.covers = settled, !.age = "fresh"]]
  <1>1. crawl[c] \in Crawl /\ client.endpoint \in Scopes /\ settled \subseteq Books
    BY DEF Types, IntegrationsTypeOK, Client
  <1>2. crawl' = [crawl EXCEPT ![c].pc = pc, ![c].from = NoEndpoint,
                               ![c].scope = client.endpoint,
                               ![c].snap.covers = settled, ![c].snap.age = "fresh"]
    BY DEF CrawlStamp
  <1>3. pc \in {"publish", "save"}
    OBVIOUS
  <1> HIDE DEF pc
  <1>7. crawl' = [crawl EXCEPT ![c] = r]
    BY <1>1, <1>2 DEF Types, IntegrationsTypeOK, Crawl
  <1>4. r \in Crawl /\ r.pc = pc
    BY <1>1, <1>3 DEF Crawl, Snapshot, Scopes
  <1> HIDE DEF r
  <1>5. /\ crawl' \in [Crawlers -> Crawl] /\ crawl'[c] = r
        /\ \A o \in Crawlers \ {c} : crawl'[o] = crawl[o]
    BY <1>7, <1>4, CrawlBecomes DEF Types
  <1>6. IntegrationsTypeOK'
    BY <1>5 DEF Types, IntegrationsTypeOK, CrawlStamp
  <1> QED BY <1>3, <1>4, <1>5, <1>6 DEF Types, ListedFrom

LEMMA CrawlSaveTypes ==
  ASSUME Types, NEW c \in Crawlers, CrawlSave(c)
  PROVE  Types'
  <1> DEFINE r == [crawl[c] EXCEPT !.pc = "publish"]
  <1>1. crawl[c] \in Crawl /\ crawl[c].snap \in Snapshot
    BY DEF Types, IntegrationsTypeOK, Crawl
  <1>2. crawl' = [crawl EXCEPT ![c] = r] /\ r \in Crawl /\ r.pc = "publish"
    BY <1>1 DEF CrawlSave, Types, IntegrationsTypeOK, Crawl
  <1> HIDE DEF r
  <1>3. /\ crawl' \in [Crawlers -> Crawl] /\ crawl'[c] = r
        /\ \A o \in Crawlers \ {c} : crawl'[o] = crawl[o]
    BY <1>2, CrawlBecomes DEF Types
  <1>4. durable' \in [Endpoints -> Snapshot]
    BY <1>1 DEF CrawlSave, Types, IntegrationsTypeOK
  <1>5. IntegrationsTypeOK'
    BY <1>3, <1>4 DEF Types, IntegrationsTypeOK, CrawlSave
  <1> QED BY <1>2, <1>3, <1>5 DEF Types, ListedFrom

LEMMA EndCrawlTypes ==
  ASSUME Types, NEW c \in Crawlers, EndCrawl(c)
  PROVE  /\ crawl' \in [Crawlers -> Crawl] /\ crawl'[c] = NoCrawl
         /\ \A o \in Crawlers \ {c} : crawl'[o] = crawl[o]
         /\ refresh' \in BOOLEAN
         /\ ListedFrom'
  <1>1. /\ crawl' \in [Crawlers -> Crawl] /\ crawl'[c] = NoCrawl
        /\ \A o \in Crawlers \ {c} : crawl'[o] = crawl[o]
    BY BlankRecords, CrawlBecomes DEF Types, EndCrawl
  <1>2. refresh' \in BOOLEAN
    BY DEF EndCrawl
  <1>3. ListedFrom'
    BY <1>1 DEF Types, ListedFrom, NoCrawl
  <1> QED BY <1>1, <1>2, <1>3

LEMMA EndOfCrawlTypes ==
  ASSUME Types, NEW c \in Crawlers, CrawlPublish(c) \/ CrawlFails(c)
  PROVE  Types'
  <1>1. CASE CrawlPublish(c)
    <2>1. client \in Client /\ crawl[c].snap \in Snapshot
      BY DEF Types, IntegrationsTypeOK, Crawl
    <2>2. client' \in Client
      BY <1>1, <2>1 DEF CrawlPublish, Client
    <2> QED BY <1>1, <2>2, EndCrawlTypes DEF CrawlPublish, Types, IntegrationsTypeOK
  <1>2. CASE CrawlFails(c)
    <2>1. fails' \in 0 .. MaxFails
      BY <1>2, IntegrationBounds DEF CrawlFails, Fails, Types, IntegrationsTypeOK
    <2> QED BY <1>2, <2>1, EndCrawlTypes DEF CrawlFails, Types, IntegrationsTypeOK
  <1> QED BY <1>1, <1>2

LEMMA CrawlTypes ==
  ASSUME Types, NEW c \in Crawlers, CrawlStep(c)
  PROVE  Types'
  BY CrawlListTypes, CrawlFilesTypes, CrawlStampTypes, CrawlSaveTypes, EndOfCrawlTypes
     DEF CrawlStep

(* A step that leaves the crawls alone.                                    *)
LEMMA CrawlsAlone ==
  ASSUME ListedFrom, UNCHANGED crawl
  PROVE  ListedFrom'
  BY DEF ListedFrom

-----------------------------------------------------------------------------
LEMMA BeginSaveTypes ==
  ASSUME IntegrationsTypeOK, NEW s \in Savers, NEW f \in {"hardcover", "chaptarr"},
         NEW saved \in Settings, BeginSave(s, f, saved)
  PROVE  IntegrationsTypeOK'
  <1> DEFINE r == [NoSave EXCEPT !.pc = "write", !.form = f, !.row = saved]
  <1>1. r \in Save
    BY BlankRecords DEF NoSave, Save
  <1>2. save' = [save EXCEPT ![s] = r]
    BY DEF BeginSave
  <1>3. saves' \in 0 .. MaxSaves
    BY IntegrationBounds DEF BeginSave, IntegrationsTypeOK
  <1> HIDE DEF r
  <1>4. save' \in [Savers -> Save]
    BY <1>1, <1>2, SaveBecomes
  <1> QED BY <1>3, <1>4 DEF BeginSave, IntegrationsTypeOK

LEMMA FormTypes ==
  ASSUME IntegrationsTypeOK, NEW s \in Savers, SaveHardcoverForm(s) \/ SaveChaptarrForm(s)
  PROVE  IntegrationsTypeOK'
  <1>1. settings \in Settings
    BY DEF IntegrationsTypeOK
  <1>2. CASE SaveHardcoverForm(s)
    <2>1. PICK on \in BOOLEAN : BeginSave(s, "hardcover", [settings EXCEPT !.hardcover = on])
      BY <1>2 DEF SaveHardcoverForm
    <2>2. [settings EXCEPT !.hardcover = on] \in Settings
      BY <1>1 DEF Settings
    <2> QED BY <2>1, <2>2, BeginSaveTypes
  <1>3. CASE SaveChaptarrForm(s)
    <2>1. PICK f \in Forms[saves + 1] :
            BeginSave(s, "chaptarr", [settings EXCEPT !.enabled = f.enabled, !.endpoint = f.endpoint])
      BY <1>3 DEF SaveChaptarrForm
    <2>2. saves + 1 \in 1 .. MaxSaves
      <3>1. saves < MaxSaves
        BY <1>3 DEF SaveChaptarrForm
      <3>2. saves \in 0 .. MaxSaves
        BY DEF IntegrationsTypeOK
      <3> QED BY <3>1, <3>2, IntegrationBounds
    <2>3. f \in [enabled : BOOLEAN, endpoint : Scopes]
      BY <2>2, FormAssumption
    <2>4. [settings EXCEPT !.enabled = f.enabled, !.endpoint = f.endpoint] \in Settings
      BY <1>1, <2>3 DEF Settings
    <2> QED BY <2>1, <2>4, BeginSaveTypes
  <1> QED BY <1>2, <1>3

LEMMA SaveTypes ==
  ASSUME IntegrationsTypeOK, NEW s \in Savers, SaveStep(s)
  PROVE  IntegrationsTypeOK'
  <1>1. save[s] \in Save
    BY DEF IntegrationsTypeOK
  <1>2. /\ save[s].row \in Settings /\ save[s].form \in {"hardcover", "chaptarr"}
        /\ save[s].old \in Scopes /\ save[s].snap \in Snapshot
    BY <1>1 DEF Save
  <1>3. /\ save[s].row.hardcover \in BOOLEAN /\ save[s].row.enabled \in BOOLEAN
        /\ save[s].row.endpoint \in Scopes
    BY <1>2 DEF Settings
  <1>4. AfterClear(save[s].row) \in {"idle", "load"}
    BY DEF AfterClear
  <1>5. CASE SaveWrite(s)
    <2> DEFINE r == [save[s] EXCEPT !.pc = save[s].form]
    <2>1. save' = [save EXCEPT ![s] = r] /\ r \in Save
      BY <1>1, <1>2, <1>5 DEF SaveWrite, Save
    <2> HIDE DEF r
    <2>2. save' \in [Savers -> Save]
      BY <2>1, SaveBecomes
    <2> QED BY <1>2, <1>5, <2>2 DEF SaveWrite, IntegrationsTypeOK
  <1>6. CASE ConfigureHardcover(s)
    <2>1. save' \in [Savers -> Save]
      BY <1>6, BlankRecords, SaveBecomes DEF ConfigureHardcover
    <2> QED BY <1>3, <1>6, <2>1 DEF ConfigureHardcover, IntegrationsTypeOK
  <1>7. CASE ConfigureChaptarr(s)
    <2> DEFINE pc == IF client.endpoint \notin {NoEndpoint, save[s].row.endpoint}
                     THEN "clear" ELSE AfterClear(save[s].row)
               r == [save[s] EXCEPT !.pc = pc, !.old = client.endpoint]
    <2>1. pc \in {"clear", "idle", "load"} /\ client.endpoint \in Scopes
      BY <1>4 DEF IntegrationsTypeOK, Client
    <2>2. save' = [save EXCEPT ![s] = r]
      BY <1>7 DEF ConfigureChaptarr, IntegrationsTypeOK
    <2> HIDE DEF pc
    <2>3. r \in Save
      BY <1>1, <2>1 DEF Save
    <2> HIDE DEF r
    <2>4. save' \in [Savers -> Save]
      BY <2>2, <2>3, SaveBecomes
    <2>5. client' \in Client
      BY <1>3, <1>7, BlankRecords DEF ConfigureChaptarr, Client
    <2> QED BY <1>7, <2>4, <2>5 DEF ConfigureChaptarr, IntegrationsTypeOK
  <1>8. CASE ClearOldScope(s)
    <2> DEFINE r == [save[s] EXCEPT !.pc = AfterClear(save[s].row)]
    <2>1. save' = [save EXCEPT ![s] = r] /\ r \in Save
      BY <1>1, <1>4, <1>8 DEF ClearOldScope, Save, IntegrationsTypeOK
    <2> HIDE DEF r
    <2>2. save' \in [Savers -> Save]
      BY <2>1, SaveBecomes
    <2>3. durable' \in [Endpoints -> Snapshot]
      BY <1>8, BlankRecords DEF ClearOldScope, IntegrationsTypeOK
    <2> QED BY <1>8, <2>2, <2>3 DEF ClearOldScope, IntegrationsTypeOK
  <1>9. CASE LoadNewScope(s)
    <2> DEFINE found == Stored(save[s].row.endpoint)
               r == [save[s] EXCEPT !.pc = "restore", !.snap = found]
    <2>1. found \in Snapshot
      BY <1>3, StoredIsSnapshot
    <2>2. save' = [save EXCEPT ![s] = NoSave] \/ save' = [save EXCEPT ![s] = r]
      BY <1>9 DEF LoadNewScope, IntegrationsTypeOK
    <2> HIDE DEF found
    <2>3. r \in Save
      BY <1>1, <2>1 DEF Save
    <2> HIDE DEF r
    <2>4. save' \in [Savers -> Save]
      BY <2>2, <2>3, BlankRecords, SaveBecomes
    <2> QED BY <1>9, <2>4 DEF LoadNewScope, IntegrationsTypeOK
  <1>10. CASE RestoreSnapshot(s)
    <2>1. save' \in [Savers -> Save]
      BY <1>10, BlankRecords, SaveBecomes DEF RestoreSnapshot
    <2>2. client' \in Client
      BY <1>2, <1>10 DEF RestoreSnapshot, IntegrationsTypeOK, Client
    <2> QED BY <1>10, <2>1, <2>2 DEF RestoreSnapshot, IntegrationsTypeOK
  <1>11. CASE SaveFails(s)
    <2>1. save' \in [Savers -> Save]
      BY <1>11, BlankRecords, SaveBecomes DEF SaveFails
    <2>2. fails' \in 0 .. MaxFails
      BY <1>11, IntegrationBounds DEF SaveFails, Fails, IntegrationsTypeOK
    <2> QED BY <1>11, <2>1, <2>2 DEF SaveFails, IntegrationsTypeOK
  <1> QED BY <1>5, <1>6, <1>7, <1>8, <1>9, <1>10, <1>11 DEF SaveStep

-----------------------------------------------------------------------------
LEMMA StepTypes == Types /\ [INext]_ivars => Types'
  <1> SUFFICES ASSUME Types, [INext]_ivars PROVE Types'
    OBVIOUS
  <1>1. IntegrationsTypeOK /\ ListedFrom
    BY DEF Types
  <1>2. ASSUME IntegrationsTypeOK', UNCHANGED crawl PROVE Types'
    BY <1>1, <1>2, CrawlsAlone DEF Types
  <1>3. ASSUME NEW e \in Endpoints, NEW b \in Books, Import(e, b) PROVE Types'
    BY <1>1, <1>2, <1>3, WorldTypes DEF Import
  <1>4. ASSUME NEW added \in SUBSET Books, SecondEnds(added) PROVE Types'
    BY <1>1, <1>2, <1>4, WorldTypes DEF SecondEnds
  <1>5. CASE HalfDayPasses
    BY <1>1, <1>2, <1>5, WorldTypes DEF HalfDayPasses
  <1>6. CASE Boot
    BY <1>1, <1>2, <1>6, LifeTypes DEF Boot
  <1>7. CASE Exit
    <2>1. \A c \in Crawlers : crawl'[c] = NoCrawl
      BY <1>7 DEF Exit
    <2>2. ListedFrom'
      BY <2>1 DEF ListedFrom, NoCrawl
    <2> QED BY <1>1, <1>7, <2>2, LifeTypes DEF Types
  <1>8. CASE SchedulerEnqueues \/ TasksPageEnqueues
    <2>1. EnqueueRefresh
      BY <1>8 DEF SchedulerEnqueues, TasksPageEnqueues
    <2> QED BY <1>1, <1>2, <2>1, EnqueueTypes DEF EnqueueRefresh
  <1>9. ASSUME NEW c \in Crawlers,
               \/ crawl' = [crawl EXCEPT ![c] = Started]
               \/ crawl' = crawl
        PROVE  ListedFrom'
    <2>1. CASE crawl' = crawl
      BY <1>1, <2>1, CrawlsAlone
    <2>2. CASE crawl' = [crawl EXCEPT ![c] = Started]
      <3>1. crawl'[c] = Started /\ \A o \in Crawlers \ {c} : crawl'[o] = crawl[o]
        BY <1>1, <2>2, StartedIsCrawl, CrawlBecomes
      <3> QED BY <1>1, <3>1, StartedIsCrawl DEF ListedFrom
    <2> QED BY <1>9, <2>1, <2>2
  <1>10. CASE RunRefresh
    <2>1. ListedFrom'
      BY <1>9, <1>10 DEF RunRefresh, Started, Crawlers
    <2> QED BY <1>1, <1>10, <2>1, BeginCrawlTypes DEF Types
  <1>11. ASSUME NEW c \in Pages, EditPage(c) PROVE Types'
    <2>1. ListedFrom'
      BY <1>9, <1>11 DEF EditPage, Started, Crawlers
    <2> QED BY <1>1, <1>11, <2>1, BeginCrawlTypes DEF Types
  <1>12. ASSUME NEW c \in Crawlers, CrawlStep(c) PROVE Types'
    BY <1>12, CrawlTypes
  <1>13. ASSUME NEW s \in Savers, SaveHardcoverForm(s) \/ SaveChaptarrForm(s) PROVE Types'
    <2>1. UNCHANGED crawl
      BY <1>13 DEF SaveHardcoverForm, SaveChaptarrForm, BeginSave
    <2> QED BY <1>1, <1>2, <1>13, <2>1, FormTypes
  <1>14. ASSUME NEW s \in Savers, SaveStep(s) PROVE Types'
    <2>1. UNCHANGED crawl
      BY <1>14 DEF SaveStep, SaveWrite, ConfigureHardcover, ConfigureChaptarr, ClearOldScope,
                   LoadNewScope, RestoreSnapshot, SaveFails
    <2> QED BY <1>1, <1>2, <1>14, <2>1, SaveTypes
  <1>15. CASE ClearLibrary
    <2>1. durable' \in [Endpoints -> Snapshot]
      BY <1>15, BlankRecords DEF ClearLibrary
    <2>2. IntegrationsTypeOK'
      BY <1>1, <1>15, <2>1 DEF ClearLibrary, IntegrationsTypeOK
    <2> QED BY <1>2, <1>15, <2>2 DEF ClearLibrary
  <1>16. CASE UNCHANGED ivars
    BY <1>16 DEF Types, ivars, IntegrationsTypeOK, ListedFrom
  <1> QED BY <1>3, <1>4, <1>5, <1>6, <1>7, <1>8, <1>10, <1>11, <1>12, <1>13, <1>14, <1>15,
            <1>16
          DEF INext, ProgramStep

LEMMA InitTypesHold == IInit => Types
  <1>1. IInit => ListedFrom
    BY DEF IInit, ListedFrom, NoCrawl
  <1> QED BY <1>1, InitTypes DEF Types

(* Every state is of its type.                                             *)
THEOREM IntegrationsTypeCorrect == ISpec => []IntegrationsTypeOK
  <1>1. Types => IntegrationsTypeOK
    BY DEF Types
  <1> QED BY <1>1, InitTypesHold, StepTypes, PTL DEF ISpec

-----------------------------------------------------------------------------
(* One server, whose address no form changes: the snapshot in use is       *)
(* backed by the durable one because only the clearing of the library      *)
(* takes that one away, and everything that publishes has saved or loaded  *)
(* first.                                                                  *)

OneAddress(e) ==
  /\ \A r \in AtFirst : r.endpoint = e
  /\ \A n \in 1 .. MaxSaves : \A f \in Forms[n] : f.endpoint = e

Kept(e) == cleared \/ durable[e].age # "never"

ClientBacked(e) ==
  /\ settings.endpoint = e
  /\ client = Off \/ (up /\ client.endpoint = e)
  /\ up => client.endpoint = e
  /\ client.snap.age # "never" => Kept(e)

CrawlBacked(e, c) ==
  /\ crawl[c].pc # "idle" => up
  /\ crawl[c].pc = "save" => crawl[c].scope = e /\ crawl[c].snap.age = "fresh"
  /\ crawl[c].pc = "publish" => Kept(e)

FormBacked(e, s) ==
  /\ save[s].pc # "idle" => up /\ save[s].pc # "clear" /\ save[s].row.endpoint = e
  /\ save[s].pc = "restore" => Kept(e)

Backed(e) ==
  /\ ClientBacked(e)
  /\ \A c \in Crawlers : CrawlBacked(e, c)
  /\ \A s \in Savers : FormBacked(e, s)

LEMMA BlankIsBacked ==
  ASSUME NEW e \in Endpoints
  PROVE  /\ \A c \in Crawlers : crawl[c] = NoCrawl => CrawlBacked(e, c)
         /\ \A s \in Savers : save[s] = NoSave => FormBacked(e, s)
         /\ Off.snap.age = "never" /\ Off.endpoint # e
  BY EndpointAssumption
     DEF CrawlBacked, FormBacked, NoCrawl, NoSave, Off, NoSnapshot

LEMMA InitBacked ==
  ASSUME NEW e \in Endpoints, OneAddress(e), IInit
  PROVE  Backed(e)
  <1>1. settings.endpoint = e /\ client = Off /\ ~up
    BY DEF OneAddress, IInit
  <1>2. /\ \A c \in Crawlers : crawl[c] = NoCrawl
        /\ \A s \in Savers : save[s] = NoSave
    BY DEF IInit
  <1> QED BY <1>1, <1>2, BlankIsBacked DEF ClientBacked, Backed

(* What is backed stays so while it is left alone.                         *)
LEMMA CrawlsStay ==
  ASSUME NEW e \in Endpoints, NEW S \in SUBSET Crawlers,
         \A c \in S : CrawlBacked(e, c) /\ crawl'[c] = crawl[c],
         up' = up, Kept(e) => Kept(e)'
  PROVE  \A c \in S : CrawlBacked(e, c)'
  BY DEF CrawlBacked

LEMMA FormsStay ==
  ASSUME NEW e \in Endpoints, NEW S \in SUBSET Savers,
         \A s \in S : FormBacked(e, s) /\ save'[s] = save[s],
         up' = up, Kept(e) => Kept(e)'
  PROVE  \A s \in S : FormBacked(e, s)'
  BY DEF FormBacked

LEMMA ClientStays ==
  ASSUME NEW e \in Endpoints, ClientBacked(e),
         UNCHANGED <<settings, client, up>>, Kept(e) => Kept(e)'
  PROVE  ClientBacked(e)'
  BY DEF ClientBacked

(* One crawl moves, or one form.                                           *)
LEMMA OneCrawlMoves ==
  ASSUME NEW e \in Endpoints, Backed(e), NEW c \in Crawlers,
         ClientBacked(e)', CrawlBacked(e, c)',
         \A o \in Crawlers \ {c} : crawl'[o] = crawl[o],
         UNCHANGED <<up, save>>, Kept(e) => Kept(e)'
  PROVE  Backed(e)'
  <1>1. \A o \in Crawlers \ {c} : CrawlBacked(e, o)'
    BY CrawlsStay DEF Backed
  <1>2. \A s \in Savers : FormBacked(e, s)'
    BY FormsStay DEF Backed
  <1> QED BY <1>1, <1>2 DEF Backed

LEMMA OneFormMoves ==
  ASSUME NEW e \in Endpoints, Backed(e), NEW s \in Savers,
         ClientBacked(e)', FormBacked(e, s)',
         \A o \in Savers \ {s} : save'[o] = save[o],
         UNCHANGED <<up, crawl>>, Kept(e) => Kept(e)'
  PROVE  Backed(e)'
  <1>1. \A o \in Savers \ {s} : FormBacked(e, o)'
    BY FormsStay DEF Backed
  <1>2. \A c \in Crawlers : CrawlBacked(e, c)'
    BY CrawlsStay DEF Backed
  <1> QED BY <1>1, <1>2 DEF Backed

LEMMA NobodyMoves ==
  ASSUME NEW e \in Endpoints, Backed(e), ClientBacked(e)',
         UNCHANGED <<up, crawl, save>>, Kept(e) => Kept(e)'
  PROVE  Backed(e)'
  <1>1. \A c \in Crawlers : CrawlBacked(e, c)'
    BY CrawlsStay DEF Backed
  <1>2. \A s \in Savers : FormBacked(e, s)'
    BY FormsStay DEF Backed
  <1> QED BY <1>1, <1>2 DEF Backed

LEMMA HalfDayBacked ==
  ASSUME NEW e \in Endpoints, Types, Backed(e), HalfDayPasses
  PROVE  Backed(e)'
  <1>1. client \in Client /\ client.snap \in Snapshot /\ durable[e] \in Snapshot
    BY DEF Types, IntegrationsTypeOK, Client
  <1>2. Kept(e)' <=> Kept(e)
    BY <1>1, AgedIsSnapshot DEF HalfDayPasses, Kept
  <1>3. client' = [client EXCEPT !.snap = Aged(client.snap)]
    BY DEF HalfDayPasses
  <1>4. /\ client'.endpoint = client.endpoint
        /\ client'.snap.age = "never" <=> client.snap.age = "never"
    BY <1>1, <1>3, AgedIsSnapshot DEF Client
  <1>5. client = Off => client' = Off
    <2> SUFFICES ASSUME client = Off PROVE client' = Off
      OBVIOUS
    <2>1. Aged(client.snap) = NoSnapshot /\ client.snap = NoSnapshot
      BY DEF Off, Aged, NoSnapshot
    <2>2. client' = [client EXCEPT !.snap = client.snap]
      BY <1>3, <2>1
    <2> QED BY <1>1, <2>2 DEF Client
  <1>6. ClientBacked(e)'
    BY <1>2, <1>4, <1>5 DEF Backed, ClientBacked, HalfDayPasses
  <1> QED BY <1>2, <1>6, NobodyMoves DEF HalfDayPasses

LEMMA LifeBacked ==
  ASSUME NEW e \in Endpoints, Types, Backed(e), Boot \/ Exit
  PROVE  Backed(e)'
  <1>1. CASE Boot
    <2>1. settings.endpoint = e /\ Stored(e) = durable[e]
      BY EndpointAssumption DEF Backed, ClientBacked, Stored
    <2>2. client'.endpoint = e /\ client'.snap = durable[e]
      BY <1>1, <2>1 DEF Boot
    <2>3. ClientBacked(e)'
      BY <1>1, <2>1, <2>2 DEF Boot, ClientBacked, Kept
    <2>4. \A c \in Crawlers : CrawlBacked(e, c)'
      BY <1>1 DEF Backed, CrawlBacked, Boot
    <2>5. \A s \in Savers : FormBacked(e, s)'
      BY <1>1 DEF Backed, FormBacked, Boot
    <2> QED BY <2>3, <2>4, <2>5 DEF Backed
  <1>2. CASE Exit
    <2>1. /\ \A c \in Crawlers : crawl'[c] = NoCrawl
          /\ \A s \in Savers : save'[s] = NoSave
          /\ client' = Off /\ ~up' /\ settings' = settings
      BY <1>2 DEF Exit
    <2>2. \A c \in Crawlers : CrawlBacked(e, c)'
      BY <2>1 DEF CrawlBacked, NoCrawl
    <2>3. \A s \in Savers : FormBacked(e, s)'
      BY <2>1 DEF FormBacked, NoSave
    <2>4. ClientBacked(e)'
      BY <2>1, BlankIsBacked DEF Backed, ClientBacked
    <2> QED BY <2>2, <2>3, <2>4 DEF Backed
  <1> QED BY <1>1, <1>2

LEMMA BeginCrawlBacked ==
  ASSUME NEW e \in Endpoints, Types, Backed(e), RunRefresh \/ \E c \in Pages : EditPage(c)
  PROVE  Backed(e)'
  <1>1. UNCHANGED <<settings, client, up, save, durable, cleared>>
    BY DEF RunRefresh, EditPage
  <1>2. Kept(e)' <=> Kept(e)
    BY <1>1 DEF Kept
  <1>3. ClientBacked(e)'
    BY <1>1, <1>2, ClientStays DEF Backed
  <1>4. CASE UNCHANGED crawl
    BY <1>1, <1>2, <1>3, <1>4, NobodyMoves
  <1>5. CASE Enabled /\ \E c \in Crawlers : crawl' = [crawl EXCEPT ![c] = Started]
    <2>1. PICK c \in Crawlers : crawl' = [crawl EXCEPT ![c] = Started]
      BY <1>5
    <2>2. up
      BY <1>5 DEF Enabled, Backed, ClientBacked, Off
    <2>3. /\ crawl'[c] = Started
          /\ \A o \in Crawlers \ {c} : crawl'[o] = crawl[o]
      BY <2>1, StartedIsCrawl, CrawlBecomes DEF Types
    <2>4. CrawlBacked(e, c)'
      BY <1>1, <2>2, <2>3, StartedIsCrawl DEF CrawlBacked
    <2> QED BY <1>1, <1>2, <1>3, <2>3, <2>4, OneCrawlMoves
  <1> QED BY <1>4, <1>5 DEF RunRefresh, EditPage, Started, Crawlers

LEMMA CrawlStepBacked ==
  ASSUME NEW e \in Endpoints, Types, Backed(e), NEW c \in Crawlers, CrawlStep(c)
  PROVE  Backed(e)'
  <1>1. crawl[c] \in Crawl /\ CrawlBacked(e, c) /\ ClientBacked(e)
    BY DEF Types, IntegrationsTypeOK, Backed
  <1>2. crawl[c].pc # "idle"
    BY DEF CrawlStep, CrawlList, CrawlFiles, CrawlStamp, CrawlSave, CrawlPublish, CrawlFails
  <1>3. up /\ client.endpoint = e /\ e # NoEndpoint
    BY <1>1, <1>2, EndpointAssumption DEF CrawlBacked, ClientBacked
  <1>4. UNCHANGED <<settings, up, save>>
    BY DEF CrawlStep, CrawlList, CrawlFiles, CrawlStamp, CrawlSave, CrawlPublish, CrawlFails
  <1>5. \A o \in Crawlers \ {c} : crawl'[o] = crawl[o]
    BY DEF CrawlStep, CrawlList, CrawlFiles, CrawlStamp, CrawlSave, CrawlPublish, CrawlFails,
           EndCrawl, Types, IntegrationsTypeOK
  (* The step changes only the crawl.                                      *)
  <1>6. ASSUME UNCHANGED <<client, durable, cleared>>, CrawlBacked(e, c)' PROVE Backed(e)'
    <2>1. Kept(e) <=> Kept(e)'
      BY <1>6 DEF Kept
    <2>2. ClientBacked(e)'
      BY <1>1, <1>4, <1>6, <2>1, ClientStays
    <2> QED BY <1>4, <1>5, <1>6, <2>1, <2>2, OneCrawlMoves
  <1>7. CASE CrawlList(c) \/ CrawlFiles(c)
    <2>1. crawl'[c].pc \in {"files", "stamp"}
      BY <1>1, <1>7 DEF CrawlList, CrawlFiles, Types, IntegrationsTypeOK, Crawl
    <2>2. CrawlBacked(e, c)'
      BY <1>3, <1>4, <2>1 DEF CrawlBacked
    <2> QED BY <1>6, <1>7, <2>2 DEF CrawlList, CrawlFiles
  <1>8. CASE CrawlStamp(c)
    <2>1. crawl' = [crawl EXCEPT ![c].pc = "save", ![c].from = NoEndpoint, ![c].scope = e,
                                 ![c].snap.covers = settled, ![c].snap.age = "fresh"]
      BY <1>3, <1>8 DEF CrawlStamp
    <2>2. crawl'[c].pc = "save" /\ crawl'[c].scope = e /\ crawl'[c].snap.age = "fresh"
      BY <1>1, <2>1 DEF Types, IntegrationsTypeOK, Crawl, Snapshot
    <2>3. CrawlBacked(e, c)'
      BY <1>3, <1>4, <2>2 DEF CrawlBacked
    <2> QED BY <1>6, <1>8, <2>3 DEF CrawlStamp
  <1>9. CASE CrawlSave(c)
    <2>1. crawl[c].scope = e /\ crawl[c].snap.age = "fresh"
      BY <1>1, <1>9 DEF CrawlBacked, CrawlSave
    <2>2. durable'[e] = crawl[c].snap
      BY <1>9, <2>1 DEF CrawlSave, Types, IntegrationsTypeOK
    <2>3. Kept(e)'
      BY <2>1, <2>2 DEF Kept
    <2>4. crawl'[c].pc = "publish"
      BY <1>1, <1>9 DEF CrawlSave, Types, IntegrationsTypeOK, Crawl
    <2>5. CrawlBacked(e, c)'
      BY <1>3, <1>4, <2>3, <2>4 DEF CrawlBacked
    <2>6. ClientBacked(e)'
      BY <1>1, <1>9, <2>3, ClientStays DEF CrawlSave
    <2> QED BY <1>4, <1>5, <2>3, <2>5, <2>6, OneCrawlMoves
  <1>10. CASE CrawlPublish(c)
    <2>1. Kept(e) /\ Kept(e)'
      BY <1>1, <1>10 DEF CrawlBacked, CrawlPublish, Kept
    <2>2. client'.endpoint = e
      BY <1>3, <1>10 DEF CrawlPublish, Types, IntegrationsTypeOK, Client
    <2>3. ClientBacked(e)'
      BY <1>1, <1>3, <1>4, <2>1, <2>2 DEF ClientBacked
    <2>4. crawl'[c] = NoCrawl
      BY <1>10 DEF CrawlPublish, EndCrawl, Types, IntegrationsTypeOK
    <2>5. CrawlBacked(e, c)'
      BY <2>4 DEF CrawlBacked, NoCrawl
    <2> QED BY <1>4, <1>5, <2>1, <2>3, <2>5, OneCrawlMoves
  <1>11. CASE CrawlFails(c)
    <2>1. crawl'[c] = NoCrawl
      BY <1>11 DEF CrawlFails, EndCrawl, Types, IntegrationsTypeOK
    <2>2. CrawlBacked(e, c)'
      BY <2>1 DEF CrawlBacked, NoCrawl
    <2> QED BY <1>6, <1>11, <2>2 DEF CrawlFails
  <1> QED BY <1>7, <1>8, <1>9, <1>10, <1>11 DEF CrawlStep

LEMMA BeginSaveBacked ==
  ASSUME NEW e \in Endpoints, Types, Backed(e), NEW s \in Savers,
         NEW f \in {"hardcover", "chaptarr"}, NEW saved \in Settings, saved.endpoint = e,
         BeginSave(s, f, saved)
  PROVE  Backed(e)'
  <1> DEFINE r == [NoSave EXCEPT !.pc = "write", !.form = f, !.row = saved]
  <1>1. r \in Save /\ r.pc = "write" /\ r.row = saved
    BY BlankRecords DEF NoSave, Save
  <1>2. save' = [save EXCEPT ![s] = r] /\ up
    BY DEF BeginSave
  <1> HIDE DEF r
  <1>3. save'[s] = r /\ \A o \in Savers \ {s} : save'[o] = save[o]
    BY <1>1, <1>2, SaveBecomes DEF Types
  <1>4. Kept(e) <=> Kept(e)'
    BY DEF BeginSave, Kept
  <1>5. ClientBacked(e)'
    BY <1>4, ClientStays DEF BeginSave, Backed
  <1>6. FormBacked(e, s)'
    BY <1>1, <1>2, <1>3 DEF BeginSave, FormBacked
  <1> QED BY <1>3, <1>4, <1>5, <1>6, OneFormMoves DEF BeginSave

LEMMA FormStepBacked ==
  ASSUME NEW e \in Endpoints, OneAddress(e), Types, Backed(e), NEW s \in Savers,
         SaveHardcoverForm(s) \/ SaveChaptarrForm(s)
  PROVE  Backed(e)'
  <1>1. settings \in Settings /\ settings.endpoint = e
    BY DEF Types, IntegrationsTypeOK, Backed, ClientBacked
  <1>2. CASE SaveHardcoverForm(s)
    <2>1. PICK on \in BOOLEAN : BeginSave(s, "hardcover", [settings EXCEPT !.hardcover = on])
      BY <1>2 DEF SaveHardcoverForm
    <2> DEFINE saved == [settings EXCEPT !.hardcover = on]
    <2>2. saved \in Settings /\ saved.endpoint = e
      BY <1>1 DEF Settings
    <2> QED BY <2>1, <2>2, BeginSaveBacked
  <1>3. CASE SaveChaptarrForm(s)
    <2>1. PICK f \in Forms[saves + 1] :
            BeginSave(s, "chaptarr", [settings EXCEPT !.enabled = f.enabled, !.endpoint = f.endpoint])
      BY <1>3 DEF SaveChaptarrForm
    <2>2. saves + 1 \in 1 .. MaxSaves
      <3>1. saves < MaxSaves
        BY <1>3 DEF SaveChaptarrForm
      <3>2. saves \in 0 .. MaxSaves
        BY DEF Types, IntegrationsTypeOK
      <3> QED BY <3>1, <3>2, IntegrationBounds
    <2>3. f \in [enabled : BOOLEAN, endpoint : Scopes] /\ f.endpoint = e
      BY <2>2, FormAssumption DEF OneAddress
    <2> DEFINE saved == [settings EXCEPT !.enabled = f.enabled, !.endpoint = f.endpoint]
    <2>4. saved \in Settings /\ saved.endpoint = e
      BY <1>1, <2>3 DEF Settings
    <2> QED BY <2>1, <2>4, BeginSaveBacked
  <1> QED BY <1>2, <1>3

LEMMA SaveStepBacked ==
  ASSUME NEW e \in Endpoints, Types, Backed(e), NEW s \in Savers, SaveStep(s)
  PROVE  Backed(e)'
  <1>1. save[s] \in Save /\ FormBacked(e, s) /\ ClientBacked(e)
    BY DEF Types, IntegrationsTypeOK, Backed
  <1>2. save[s].pc # "idle"
    BY DEF SaveStep, SaveWrite, ConfigureHardcover, ConfigureChaptarr, ClearOldScope,
           LoadNewScope, RestoreSnapshot, SaveFails
  <1>3. up /\ save[s].row.endpoint = e /\ save[s].pc # "clear"
        /\ client.endpoint = e /\ e # NoEndpoint
    BY <1>1, <1>2, EndpointAssumption DEF FormBacked, ClientBacked
  <1>4. UNCHANGED <<durable, cleared, up, crawl>>
    BY <1>3 DEF SaveStep, SaveWrite, ConfigureHardcover, ConfigureChaptarr, ClearOldScope,
                LoadNewScope, RestoreSnapshot, SaveFails
  <1>5. \A o \in Savers \ {s} : save'[o] = save[o]
    BY DEF SaveStep, SaveWrite, ConfigureHardcover, ConfigureChaptarr, ClearOldScope,
           LoadNewScope, RestoreSnapshot, SaveFails, Types, IntegrationsTypeOK
  <1>6. Kept(e)' <=> Kept(e)
    BY <1>4 DEF Kept
  <1>7. ASSUME ClientBacked(e)', FormBacked(e, s)' PROVE Backed(e)'
    BY <1>4, <1>5, <1>6, <1>7, OneFormMoves
  <1>8. ASSUME save'[s] = NoSave PROVE FormBacked(e, s)'
    BY <1>8 DEF FormBacked, NoSave
  <1>9. ASSUME UNCHANGED <<settings, client>> PROVE ClientBacked(e)'
    BY <1>1, <1>4, <1>6, <1>9, ClientStays
  <1>10. CASE SaveWrite(s)
    <2>1. save[s].form \in {"hardcover", "chaptarr"}
      BY <1>1 DEF Save
    <2>2. save'[s].pc = save[s].form /\ save'[s].row = save[s].row
      BY <1>1, <1>10 DEF SaveWrite, Types, IntegrationsTypeOK, Save
    <2>3. FormBacked(e, s)'
      BY <1>3, <1>4, <2>1, <2>2 DEF FormBacked
    <2>4. ClientBacked(e)'
      BY <1>1, <1>3, <1>4, <1>6, <1>10 DEF SaveWrite, ClientBacked
    <2> QED BY <1>7, <2>3, <2>4
  <1>11. CASE ConfigureHardcover(s) \/ SaveFails(s)
    <2>1. save'[s] = NoSave
      BY <1>11 DEF ConfigureHardcover, SaveFails, Types, IntegrationsTypeOK
    <2> QED BY <1>7, <1>8, <1>9, <1>11, <2>1 DEF ConfigureHardcover, SaveFails
  <1>12. CASE ConfigureChaptarr(s)
    <2>1. save' = [save EXCEPT ![s].pc = "load", ![s].old = client.endpoint]
      BY <1>3, <1>12 DEF ConfigureChaptarr, AfterClear
    <2>2. save'[s].pc = "load" /\ save'[s].row = save[s].row
      BY <1>1, <2>1 DEF Types, IntegrationsTypeOK, Save
    <2>3. FormBacked(e, s)'
      BY <1>3, <1>4, <2>2 DEF FormBacked
    <2>4. client'.endpoint = e /\ client'.snap.age = "never" /\ settings' = settings
      BY <1>3, <1>12 DEF ConfigureChaptarr, NoSnapshot
    <2>5. ClientBacked(e)'
      BY <1>1, <1>3, <1>4, <2>4 DEF ClientBacked
    <2> QED BY <1>7, <2>3, <2>5
  <1>13. CASE LoadNewScope(s)
    <2>1. Stored(save[s].row.endpoint) = durable[e]
      BY <1>3 DEF Stored
    <2>2. CASE durable[e].age = "never"
      <3>1. save'[s] = NoSave
        BY <1>13, <2>1, <2>2 DEF LoadNewScope, Types, IntegrationsTypeOK
      <3> QED BY <1>7, <1>8, <1>9, <1>13, <3>1 DEF LoadNewScope
    <2>3. CASE durable[e].age # "never"
      <3>1. save' = [save EXCEPT ![s].pc = "restore", ![s].snap = durable[e]]
        BY <1>13, <2>1, <2>3 DEF LoadNewScope
      <3>2. save'[s].pc = "restore" /\ save'[s].row = save[s].row
        BY <1>1, <3>1 DEF Types, IntegrationsTypeOK, Save
      <3>3. FormBacked(e, s)'
        BY <1>3, <1>4, <1>6, <2>3, <3>2 DEF FormBacked, Kept
      <3> QED BY <1>7, <1>9, <1>13, <3>3 DEF LoadNewScope
    <2> QED BY <2>2, <2>3
  <1>14. CASE RestoreSnapshot(s)
    <2>1. Kept(e)'
      BY <1>1, <1>6, <1>14 DEF FormBacked, RestoreSnapshot
    <2>2. save'[s] = NoSave
      BY <1>14 DEF RestoreSnapshot, Types, IntegrationsTypeOK
    <2>3. client'.endpoint = e
      BY <1>3, <1>14 DEF RestoreSnapshot, Types, IntegrationsTypeOK, Client
    <2>4. ClientBacked(e)'
      BY <1>1, <1>3, <1>4, <1>14, <2>1, <2>3 DEF ClientBacked, RestoreSnapshot
    <2> QED BY <1>7, <1>8, <2>2, <2>4
  <1> QED BY <1>3, <1>10, <1>11, <1>12, <1>13, <1>14 DEF SaveStep, ClearOldScope

LEMMA StepBacked ==
  ASSUME NEW e \in Endpoints, OneAddress(e)
  PROVE  Types /\ Backed(e) /\ [INext]_ivars => Backed(e)'
  <1> SUFFICES ASSUME Types, Backed(e), [INext]_ivars PROVE Backed(e)'
    OBVIOUS
  <1>1. ASSUME UNCHANGED <<settings, client, up, crawl, save, durable, cleared>>
        PROVE  Backed(e)'
    <2>1. Kept(e)' <=> Kept(e)
      BY <1>1 DEF Kept
    <2>2. ClientBacked(e)'
      BY <1>1, <2>1, ClientStays DEF Backed
    <2> QED BY <1>1, <2>1, <2>2, NobodyMoves
  <1>2. CASE \/ \E x \in Endpoints, b \in Books : Import(x, b)
             \/ \E added \in SUBSET Books : SecondEnds(added)
             \/ SchedulerEnqueues \/ TasksPageEnqueues
             \/ UNCHANGED ivars
    BY <1>1, <1>2 DEF Import, SecondEnds, SchedulerEnqueues, TasksPageEnqueues,
                      EnqueueRefresh, ivars
  <1>3. CASE HalfDayPasses
    BY <1>3, HalfDayBacked
  <1>4. CASE Boot \/ Exit
    BY <1>4, LifeBacked
  <1>5. CASE RunRefresh \/ \E c \in Pages : EditPage(c)
    BY <1>5, BeginCrawlBacked
  <1>6. ASSUME NEW c \in Crawlers, CrawlStep(c) PROVE Backed(e)'
    BY <1>6, CrawlStepBacked
  <1>7. ASSUME NEW s \in Savers, SaveHardcoverForm(s) \/ SaveChaptarrForm(s) PROVE Backed(e)'
    BY <1>7, FormStepBacked
  <1>8. ASSUME NEW s \in Savers, SaveStep(s) PROVE Backed(e)'
    BY <1>8, SaveStepBacked
  (* What was kept counts as kept after the library is cleared.            *)
  <1>9. CASE ClearLibrary
    <2>1. Kept(e)' /\ UNCHANGED <<settings, client, up, crawl, save>>
      BY <1>9 DEF ClearLibrary, Kept
    <2>2. ClientBacked(e)'
      BY <2>1, ClientStays DEF Backed
    <2> QED BY <2>1, <2>2, NobodyMoves
  <1> QED BY <1>2, <1>3, <1>4, <1>5, <1>6, <1>7, <1>8, <1>9 DEF INext, ProgramStep

(* While every form names one server, the snapshot in use is backed by a   *)
(* durable one, whatever crawls overlap, fail or are cut off, unless the   *)
(* library was cleared since a crawl was last saved.                       *)
THEOREM SnapshotIsBacked ==
  ASSUME NEW e \in Endpoints, OneAddress(e)
  PROVE  ISpec => []MemoryIsBacked
  <1>1. IInit => Types /\ Backed(e)
    BY InitTypesHold, InitBacked
  <1>2. Types /\ Backed(e) /\ [INext]_ivars => Types' /\ Backed(e)'
    BY StepTypes, StepBacked
  <1>3. Backed(e) => MemoryIsBacked
    BY BlankIsBacked DEF Backed, ClientBacked, MemoryIsBacked, Kept, Off
  <1> QED BY <1>1, <1>2, <1>3, PTL DEF ISpec

-----------------------------------------------------------------------------
(* Enrichment.                                                             *)

LEMMA LeastNatural ==
  ASSUME NEW S \in SUBSET Nat, S # {}
  PROVE  \E n \in S : \A m \in S : n <= m
  <1> DEFINE R == OpToRel(<, Nat)
  <1>1. IsWellFoundedOn(R, Nat)
    BY NatLessThanWellFounded
  <1>2. \A x, y \in Nat : y < x => <<y, x>> \in R
    BY DEF OpToRel
  <1> HIDE DEF R
  <1>3. PICK x \in S : \A y \in S : ~ (<<y, x>> \in R)
    BY <1>1, WFMin
  <1>4. \A y \in S : ~ (y < x)
    BY <1>2, <1>3
  <1> QED BY <1>3, <1>4

(* The types of what Enrichment adds, and that the goroutine has a book in *)
(* hand whenever it is not polling.                                        *)
RowsTypeOK ==
  /\ book \in [Books -> {"absent", "local", "catalogued", "gone"}]
  /\ row \in [Books -> Row]
  /\ queue \in Queue
  /\ editor \in [Editors -> Books \cup {0}]
  /\ edits \in 0 .. MaxEdits /\ resets \in 0 .. MaxResets

HasBook == queue.pc # "poll" => queue.batch # {}

QInv == Types /\ RowsTypeOK /\ HasBook

LEMMA HeadOfBatch ==
  ASSUME RowsTypeOK, HasBook, queue.pc # "poll"
  PROVE  Head1 \in queue.batch /\ Head1 \in Books
  <1>1. queue.batch \in SUBSET Nat /\ queue.batch # {} /\ queue.batch \subseteq Books
    BY BooksAssumption DEF RowsTypeOK, HasBook, Queue
  <1>2. \E b \in queue.batch : \A a \in queue.batch : b <= a
    BY <1>1, LeastNatural
  <1>3. Head1 \in queue.batch
    BY <1>2 DEF Head1
  <1> QED BY <1>1, <1>3

LEMMA PollingIsQueue == Polling \in Queue /\ Polling.pc = "poll"
  BY BlankRecords DEF Polling, Queue

LEMMA NoRowIsRow == NoRow \in Row
  BY DEF NoRow, Row

(* The rest of the batch.                                                  *)
LEMMA RestOfBatch ==
  ASSUME RowsTypeOK, HasBook, queue.pc # "poll"
  PROVE  /\ Rest \in Queue
         /\ Rest.pc \in {"poll", "next"} /\ Rest.outcome = "none"
         /\ Rest.batch = queue.batch \ {Head1} \/ Rest = Polling
         /\ Rest.pc # "poll" => Rest.batch # {}
  <1>1. Head1 \in queue.batch /\ queue \in Queue
    BY HeadOfBatch DEF RowsTypeOK
  <1>2. CASE queue.batch = {Head1}
    BY <1>2, PollingIsQueue DEF Rest, Polling
  <1>3. CASE queue.batch # {Head1}
    <2> DEFINE r == [queue EXCEPT !.pc = "next", !.batch = queue.batch \ {Head1}, !.outcome = "none"]
    <2>1. Rest = r
      BY <1>3 DEF Rest
    <2>2. r \in Queue /\ r.pc = "next" /\ r.batch = queue.batch \ {Head1} /\ r.outcome = "none"
      BY <1>1 DEF Queue
    <2>3. queue.batch \ {Head1} # {}
      BY <1>1, <1>3
    <2> QED BY <2>1, <2>2, <2>3
  <1> QED BY <1>2, <1>3

(* A merge of two sets of fields gives fields again.                       *)
Titles == {"none", "file", "chaptarr", "hardcover", "manual"}
Dates  == {"none", "file", "hardcover", "manual"}
Fields == [title : Titles, date : Dates]

LEMMA CurrentFields ==
  ASSUME RowsTypeOK, NEW b \in Books
  PROVE  /\ Current(b) \in Fields
         /\ row[b].date = "manual" => Current(b).date = "manual"
  <1>1. row[b] \in Row
    BY DEF RowsTypeOK
  <1> QED BY <1>1 DEF Current, Fields, Titles, Dates, Row

LEMMA ProviderFields ==
  ASSUME NEW cur \in Fields, NEW patch \in Fields
  PROVE  /\ MergeProvider(cur, patch) \in Fields
         /\ cur.date = "manual" => MergeProvider(cur, patch).date = "manual"
  BY DEF MergeProvider, Fields, Titles, Dates

LEMMA ManualFields ==
  ASSUME NEW cur \in Fields, NEW patch \in Fields, patch.date \in {"none", "manual"}
  PROVE  /\ MergeManual(cur, patch) \in Fields
         /\ cur.date = "manual" => MergeManual(cur, patch).date = "manual"
  BY DEF MergeManual, Fields, Titles, Dates

LEMMA WrittenRow ==
  ASSUME RowsTypeOK, NEW b \in Books, NEW f \in Fields,
         NEW s \in {"chaptarr", "hardcover", "manual"}
  PROVE  /\ Written(b, f, s) \in Row
         /\ Written(b, f, s).date = f.date
         /\ Written(b, f, s).source = s
         /\ Written(b, f, s).status = "done"
  <1>1. row[b] \in Row /\ f.title \in Titles /\ f.date \in Dates
    BY DEF RowsTypeOK, Fields
  <1> QED BY <1>1 DEF Written, Row, Titles, Dates

(* One row is written; the others stay.                                    *)
LEMMA RowBecomes ==
  ASSUME RowsTypeOK, NEW b \in Books, NEW r \in Row, row' = [row EXCEPT ![b] = r]
  PROVE  /\ row' \in [Books -> Row]
         /\ row'[b] = r
         /\ \A a \in Books \ {b} : row'[a] = row[a]
  BY DEF RowsTypeOK

-----------------------------------------------------------------------------
(* What the actions that write a row make of it.                           *)

LEMMA ChaptarrRow ==
  ASSUME RowsTypeOK, NEW b \in Books, NEW d \in {"none", "hardcover"},
         ApplyChaptarr(b, [title |-> "chaptarr", date |-> d])
  PROVE  \E r \in Row : /\ row' = [row EXCEPT ![b] = r]
                        /\ r.source = "chaptarr" /\ r.status = "done"
                        /\ row[b].date = "manual" => r.date = "manual"
  <1> DEFINE patch == [title |-> "chaptarr", date |-> d]
             f == MergeProvider(Current(b), patch)
             w == Written(b, f, "chaptarr")
             r == [w EXCEPT !.ch = "done"]
  <1>1. patch \in Fields
    BY DEF Fields, Titles, Dates
  <1>2. f \in Fields /\ (row[b].date = "manual" => f.date = "manual")
    BY <1>1, CurrentFields, ProviderFields
  <1>3. row' = [row EXCEPT ![b] = r]
    BY DEF ApplyChaptarr
  <1> HIDE DEF f
  <1>4. w \in Row /\ w.date = f.date /\ w.source = "chaptarr" /\ w.status = "done"
    BY <1>2, WrittenRow
  <1> HIDE DEF w
  <1>5. r \in Row /\ r.date = w.date /\ r.source = w.source /\ r.status = w.status
    BY <1>4 DEF Row
  <1> QED BY <1>2, <1>3, <1>4, <1>5

LEMMA HardcoverRow ==
  ASSUME RowsTypeOK, NEW b \in Books,
         ApplyHardcover(b, [title |-> "hardcover", date |-> "hardcover"])
  PROVE  \E r \in Row : /\ row' = [row EXCEPT ![b] = r]
                        /\ r.source = "hardcover" /\ r.status = "done"
                        /\ row[b].date = "manual" => r.date = "manual"
  <1> DEFINE patch == [title |-> "hardcover", date |-> "hardcover"]
             f == MergeProvider(Current(b), patch)
             w == Written(b, f, "hardcover")
             r == [w EXCEPT !.hc = "done"]
  <1>1. patch \in Fields
    BY DEF Fields, Titles, Dates
  <1>2. f \in Fields /\ (row[b].date = "manual" => f.date = "manual")
    BY <1>1, CurrentFields, ProviderFields
  <1>3. row' = [row EXCEPT ![b] = r]
    BY DEF ApplyHardcover
  <1> HIDE DEF f
  <1>4. w \in Row /\ w.date = f.date /\ w.source = "hardcover" /\ w.status = "done"
    BY <1>2, WrittenRow
  <1> HIDE DEF w
  <1>5. r \in Row /\ r.date = w.date /\ r.source = w.source /\ r.status = w.status
    BY <1>4 DEF Row
  <1> QED BY <1>2, <1>3, <1>4, <1>5

LEMMA FormRow ==
  ASSUME RowsTypeOK, NEW e \in Editors, NEW b \in Books, SaveMetadata(e, b)
  PROVE  \E r \in Row : /\ row' = [row EXCEPT ![b] = r]
                        /\ r.source = "manual" /\ r.status = "done"
                        /\ row[b].date = "manual" => r.date = "manual"
  <1>1. PICK title, date \in {"none", "manual"} :
          row' = [row EXCEPT ![b] =
                    Written(b, MergeManual(Current(b), [title |-> title, date |-> date]), "manual")]
    BY DEF SaveMetadata
  <1> DEFINE patch == [title |-> title, date |-> date]
             f == MergeManual(Current(b), patch)
  <1>2. patch \in Fields /\ patch.date \in {"none", "manual"}
    BY DEF Fields, Titles, Dates
  <1>3. f \in Fields /\ (row[b].date = "manual" => f.date = "manual")
    BY <1>2, CurrentFields, ManualFields
  <1> DEFINE w == Written(b, f, "manual")
  <1>4. row' = [row EXCEPT ![b] = w]
    BY <1>1
  <1> HIDE DEF f
  <1>5. w \in Row /\ w.date = f.date /\ w.source = "manual" /\ w.status = "done"
    BY <1>3, WrittenRow
  <1> HIDE DEF w
  <1> QED BY <1>3, <1>4, <1>5

(* A status is written and nothing else.                                   *)
LEMMA StatusRow ==
  ASSUME RowsTypeOK, NEW b \in Books, NEW s \in {"none", "done", "no_match", "error"},
         row' = [row EXCEPT ![b].status = s]
  PROVE  /\ row' \in [Books -> Row]
         /\ row'[b] = [row[b] EXCEPT !.status = s]
         /\ \A a \in Books \ {b} : row'[a] = row[a]
  <1>1. row[b] \in Row /\ row' = [row EXCEPT ![b] = [row[b] EXCEPT !.status = s]]
    BY DEF RowsTypeOK
  <1>2. [row[b] EXCEPT !.status = s] \in Row
    BY <1>1 DEF Row
  <1> QED BY <1>1, <1>2, RowBecomes

LEMMA ConcedeRow ==
  ASSUME RowsTypeOK, NEW b \in Books, row' = [row EXCEPT ![b].ch = "no_match"]
  PROVE  /\ row' \in [Books -> Row]
         /\ row'[b] = [row[b] EXCEPT !.ch = "no_match"]
         /\ \A a \in Books \ {b} : row'[a] = row[a]
  <1>1. row[b] \in Row /\ row' = [row EXCEPT ![b] = [row[b] EXCEPT !.ch = "no_match"]]
    BY DEF RowsTypeOK
  <1>2. [row[b] EXCEPT !.ch = "no_match"] \in Row
    BY <1>1 DEF Row
  <1> QED BY <1>1, <1>2, RowBecomes

LEMMA ProviderRow ==
  ASSUME RowsTypeOK, NEW b \in Books, NEW s \in {"none", "done", "no_match", "error"},
         row' = [row EXCEPT ![b].hc = s]
  PROVE  /\ row' \in [Books -> Row]
         /\ row'[b] = [row[b] EXCEPT !.hc = s]
         /\ \A a \in Books \ {b} : row'[a] = row[a]
  <1>1. row[b] \in Row /\ row' = [row EXCEPT ![b] = [row[b] EXCEPT !.hc = s]]
    BY DEF RowsTypeOK
  <1>2. [row[b] EXCEPT !.hc = s] \in Row
    BY <1>1 DEF Row
  <1> QED BY <1>1, <1>2, RowBecomes

-----------------------------------------------------------------------------
(* A provider's claim.  The inductive part: a claimed row is done, and no  *)
(* book the goroutine has before it is claimed, but the one it has just    *)
(* claimed for Hardcover and whose status it is about to record again.     *)
Claimed(b) == row[b].source \in {"chaptarr", "hardcover"}

ClaimedIsDone == \A b \in Books : Claimed(b) => row[b].status = "done"

BatchIsUnclaimed ==
  \A b \in queue.batch :
    Claimed(b) => b = Head1 /\ queue.pc = "status" /\ queue.outcome = "done"

OutcomeIsKnown ==
  /\ queue.pc = "apply" => queue.outcome = "done"
  /\ queue.pc = "status" => queue.outcome \in {"done", "no_match", "error"}
  /\ queue.pc = "provider" => queue.outcome \in {"no_match", "error"}

RowInv == RowsTypeOK /\ HasBook /\ ClaimedIsDone /\ BatchIsUnclaimed /\ OutcomeIsKnown

(* What a step does to a row that is claimed, or has a date that was typed.*)
ClaimKept(b) ==
  Claimed(b) =>
    \/ row'[b] = NoRow \/ row'[b].source = "manual"
    \/ [row'[b] EXCEPT !.ch = row[b].ch, !.hc = row[b].hc] = row[b]

DateKept(b) == row[b].date = "manual" => row'[b].date = "manual" \/ row'[b] = NoRow

RowsKept == \A b \in Books : ClaimKept(b) /\ DateKept(b)

LEMMA SameRowKept ==
  ASSUME RowsTypeOK, NEW b \in Books, row'[b] = row[b]
  PROVE  /\ ClaimKept(b) /\ DateKept(b)
         /\ Claimed(b)' <=> Claimed(b)
  <1>1. row[b] \in Row
    BY DEF RowsTypeOK
  <1>2. [row[b] EXCEPT !.ch = row[b].ch, !.hc = row[b].hc] = row[b]
    BY <1>1 DEF Row
  <1> QED BY <1>2 DEF ClaimKept, DateKept, Claimed

(* A step that leaves the rows alone keeps the invariant when the batch    *)
(* only shrinks and a book that was claimed just now has left it.          *)
LEMMA RowsAlone ==
  ASSUME RowInv, row' = row, RowsTypeOK', HasBook', OutcomeIsKnown', BatchIsUnclaimed'
  PROVE  RowInv' /\ RowsKept
  <1>1. \A b \in Books : ClaimKept(b) /\ DateKept(b) /\ (Claimed(b)' <=> Claimed(b))
    BY SameRowKept DEF RowInv
  <1>2. ClaimedIsDone'
    BY <1>1 DEF RowInv, ClaimedIsDone
  <1> QED BY <1>1, <1>2 DEF RowInv, RowsKept

(* Rows and goroutine alone.                                               *)
LEMMA QueueAlone ==
  ASSUME RowInv, row' = row, queue' = queue, RowsTypeOK'
  PROVE  RowInv' /\ RowsKept
  <1>1. HasBook' /\ OutcomeIsKnown'
    BY DEF RowInv, HasBook, OutcomeIsKnown
  <1>2. BatchIsUnclaimed'
    BY DEF RowInv, BatchIsUnclaimed, Claimed, Head1
  <1> QED BY <1>1, <1>2, RowsAlone

(* One row becomes r, which keeps what must be kept.                       *)
LEMMA OneRowMoves ==
  ASSUME RowInv, NEW b \in Books, RowsTypeOK', HasBook', OutcomeIsKnown', BatchIsUnclaimed',
         \A a \in Books \ {b} : row'[a] = row[a],
         ClaimKept(b), DateKept(b),
         Claimed(b)' => row'[b].status = "done"
  PROVE  RowInv' /\ RowsKept
  <1>1. \A a \in Books \ {b} : ClaimKept(a) /\ DateKept(a) /\ (Claimed(a)' <=> Claimed(a))
    BY SameRowKept DEF RowInv
  <1>2. ClaimedIsDone'
    BY <1>1 DEF RowInv, ClaimedIsDone
  <1> QED BY <1>1, <1>2 DEF RowInv, RowsKept

(* The goroutine goes on to the rest of its batch, in which nothing is     *)
(* claimed when only the row of its first book is written.                 *)
LEMMA OnToTheRest ==
  ASSUME RowInv, queue.pc # "poll", queue' = Rest,
         \A a \in Books \ {Head1} : row'[a] = row[a]
  PROVE  queue' \in Queue /\ HasBook' /\ OutcomeIsKnown' /\ BatchIsUnclaimed'
  <1>1. /\ Rest \in Queue /\ Rest.pc \in {"poll", "next"} /\ Rest.outcome = "none"
        /\ Rest.batch = queue.batch \ {Head1} \/ Rest = Polling
        /\ Rest.pc # "poll" => Rest.batch # {}
    BY RestOfBatch DEF RowInv
  <1>2. HasBook' /\ OutcomeIsKnown'
    BY <1>1 DEF HasBook, OutcomeIsKnown
  <1>3. queue'.batch \subseteq queue.batch \ {Head1} /\ queue.batch \subseteq Books
    BY <1>1 DEF Polling, RowInv, RowsTypeOK, Queue
  <1>4. \A b \in queue'.batch : ~ Claimed(b)'
    BY <1>3 DEF RowInv, BatchIsUnclaimed, Claimed
  <1> QED BY <1>1, <1>2, <1>4 DEF BatchIsUnclaimed

(* The goroutine moves on with the same book in hand.                      *)
LEMMA SameBook ==
  ASSUME RowInv, queue.pc # "poll", NEW pc \in {"snapshot", "next", "claim", "concede", "search",
                     "apply", "status", "provider"},
         NEW o \in {"none", "done", "no_match", "error"}, NEW k \in Snapshot,
         queue' = [queue EXCEPT !.pc = pc, !.known = k, !.outcome = o]
  PROVE  /\ queue' \in Queue /\ HasBook' /\ Head1' = Head1
         /\ queue'.batch = queue.batch /\ queue'.pc = pc /\ queue'.outcome = o
  <1>1. queue \in Queue /\ queue.batch # {}
    BY DEF RowInv, RowsTypeOK, HasBook
  <1>2. queue' \in Queue /\ queue'.batch = queue.batch /\ queue'.pc = pc /\ queue'.outcome = o
    BY <1>1 DEF Queue
  <1>3. Head1' = Head1
    BY <1>2 DEF Head1
  <1> QED BY <1>1, <1>2, <1>3 DEF HasBook

-----------------------------------------------------------------------------
LEMMA ReadBatchStep ==
  ASSUME RowInv, ReadBatch
  PROVE  RowInv' /\ RowsKept
  <1>1. queue \in Queue /\ Batch # {} /\ Batch \subseteq Books
        /\ \A b \in Batch : row[b].status = "none"
    BY DEF RowInv, RowsTypeOK, ReadBatch, Batch, Candidates
  <1>2. queue' = [queue EXCEPT !.pc = "snapshot", !.batch = Batch]
    BY DEF ReadBatch
  <1>3. /\ queue' \in Queue /\ queue'.pc = "snapshot" /\ queue'.batch = Batch
        /\ queue'.outcome = queue.outcome
    BY <1>1, <1>2 DEF Queue
  <1>4. HasBook' /\ OutcomeIsKnown'
    BY <1>1, <1>3 DEF HasBook, OutcomeIsKnown
  <1>5. row' = row /\ RowsTypeOK'
    BY <1>3 DEF ReadBatch, RowInv, RowsTypeOK
  <1>6. \A b \in Batch : ~ Claimed(b)
    BY <1>1 DEF RowInv, ClaimedIsDone
  <1>7. \A b \in queue'.batch : ~ Claimed(b)'
    BY <1>1, <1>3, <1>5, <1>6 DEF Claimed
  <1> QED BY <1>4, <1>5, <1>7, RowsAlone DEF BatchIsUnclaimed

(* The goroutine polls again.                                              *)
LEMMA BackToPolling ==
  ASSUME queue' = Polling
  PROVE  queue' \in Queue /\ HasBook' /\ OutcomeIsKnown' /\ BatchIsUnclaimed'
  <1>1. queue' \in Queue /\ queue'.pc = "poll" /\ queue'.batch = {}
    BY PollingIsQueue DEF Polling
  <1> QED BY <1>1 DEF HasBook, OutcomeIsKnown, BatchIsUnclaimed

(* The rows stay; the goroutine moves on from a place where it has claimed *)
(* nothing to one where it records nothing.                                *)
LEMMA QuietMove ==
  ASSUME RowInv, row' = row, queue.pc \notin {"poll", "status"},
         UNCHANGED <<book, editor, edits, resets>>,
         \/ queue' = Polling
         \/ queue' = Rest
         \/ \E pc \in {"next", "claim", "concede", "search"}, k \in Snapshot :
              queue' = [queue EXCEPT !.pc = pc, !.known = k]
         \/ queue' = [queue EXCEPT !.pc = "apply", !.outcome = "done"]
         \/ \E o \in {"no_match", "error"} :
              queue' = [queue EXCEPT !.pc = "status", !.outcome = o]
  PROVE  RowInv' /\ RowsKept
  <1>1. queue \in Queue /\ queue.known \in Snapshot
        /\ queue.outcome \in {"none", "done", "no_match", "error"}
    BY DEF RowInv, RowsTypeOK, Queue
  <1>2. \A b \in queue.batch : ~ Claimed(b)
    BY DEF RowInv, BatchIsUnclaimed
  <1>3. ASSUME queue' \in Queue, HasBook', OutcomeIsKnown', BatchIsUnclaimed'
        PROVE  RowInv' /\ RowsKept
    <2>1. RowsTypeOK'
      BY <1>3 DEF RowInv, RowsTypeOK
    <2> QED BY <1>3, <2>1, RowsAlone
  <1>4. CASE queue' = Polling
    BY <1>3, <1>4, BackToPolling
  <1>5. CASE queue' = Rest
    BY <1>3, <1>5, OnToTheRest
  <1>6. ASSUME NEW pc \in {"next", "claim", "concede", "search", "apply", "status"},
               NEW k \in Snapshot, NEW o \in {"none", "done", "no_match", "error"},
               queue' = [queue EXCEPT !.pc = pc, !.known = k, !.outcome = o],
               pc = "apply" => o = "done",
               pc = "status" => o \in {"no_match", "error"}
        PROVE  RowInv' /\ RowsKept
    <2>1. /\ queue' \in Queue /\ HasBook'
          /\ queue'.batch = queue.batch /\ queue'.pc = pc /\ queue'.outcome = o
      BY <1>6, SameBook
    <2>2. OutcomeIsKnown'
      BY <1>6, <2>1 DEF OutcomeIsKnown
    <2>3. BatchIsUnclaimed'
      BY <1>2, <2>1 DEF BatchIsUnclaimed, Claimed
    <2> QED BY <1>3, <2>1, <2>2, <2>3
  <1>7. ASSUME NEW pc \in {"next", "claim", "concede", "search"}, NEW k \in Snapshot,
               queue' = [queue EXCEPT !.pc = pc, !.known = k]
        PROVE  RowInv' /\ RowsKept
    <2>1. queue' = [queue EXCEPT !.pc = pc, !.known = k, !.outcome = queue.outcome]
      BY <1>1, <1>7 DEF Queue
    <2> QED BY <1>1, <1>6, <1>7, <2>1
  <1>8. ASSUME NEW pc \in {"apply", "status"}, NEW o \in {"done", "no_match", "error"},
               queue' = [queue EXCEPT !.pc = pc, !.outcome = o],
               pc = "apply" => o = "done",
               pc = "status" => o \in {"no_match", "error"}
        PROVE  RowInv' /\ RowsKept
    <2>1. queue' = [queue EXCEPT !.pc = pc, !.known = queue.known, !.outcome = o]
      BY <1>1, <1>8 DEF Queue
    <2> QED BY <1>1, <1>6, <1>8, <2>1
  <1> QED BY <1>4, <1>5, <1>7, <1>8

LEMMA SearchSteps ==
  ASSUME RowInv, Types, ReadSnapshot \/ TakeBook \/ SearchHardcover
  PROVE  RowInv' /\ RowsKept
  <1>1. queue \in Queue /\ queue.known \in Snapshot /\ client.snap \in Snapshot
    BY DEF RowInv, RowsTypeOK, Queue, Types, IntegrationsTypeOK, Client
  <1>2. ASSUME NEW pc \in {"next", "claim", "concede", "search"},
               queue' = [queue EXCEPT !.pc = pc]
        PROVE  queue' = [queue EXCEPT !.pc = pc, !.known = queue.known]
    BY <1>1, <1>2 DEF Queue
  <1>3. CASE ReadSnapshot
    BY <1>1, <1>2, <1>3, QuietMove DEF ReadSnapshot
  <1>4. CASE TakeBook
    <2>1. queue' = Rest \/ \E pc \in {"claim", "concede", "search"} : queue' = [queue EXCEPT !.pc = pc]
      BY <1>4 DEF TakeBook
    <2> QED BY <1>1, <1>2, <1>4, <2>1, QuietMove DEF TakeBook
  <1>5. CASE SearchHardcover
    BY <1>5, QuietMove DEF SearchHardcover
  <1> QED BY <1>3, <1>4, <1>5

LEMMA ClaimBookStep ==
  ASSUME RowInv, ClaimBook
  PROVE  RowInv' /\ RowsKept
  <1>0. PICK h \in Books : h = Head1 /\ h \in queue.batch
    BY HeadOfBatch DEF RowInv, ClaimBook
  <1>1. RowsTypeOK /\ h \in queue.batch /\ h \in Books
    BY <1>0 DEF RowInv
  <1>2. CASE Present(h)
    <2>1. PICK d \in {"none", "hardcover"} :
            ApplyChaptarr(h, [title |-> "chaptarr", date |-> d])
      BY <1>0, <1>2 DEF ClaimBook, ApplyChaptarr
    <2>2. PICK r \in Row : /\ row' = [row EXCEPT ![h] = r]
                           /\ r.source = "chaptarr" /\ r.status = "done"
                           /\ row[h].date = "manual" => r.date = "manual"
      BY <1>1, <2>1, ChaptarrRow
    <2>3. /\ row' \in [Books -> Row] /\ row'[h] = r
          /\ \A a \in Books \ {h} : row'[a] = row[a]
      BY <1>1, <2>2, RowBecomes
    <2>4. queue' \in Queue /\ HasBook' /\ OutcomeIsKnown' /\ BatchIsUnclaimed'
      BY <1>0, <2>3, OnToTheRest DEF ClaimBook
    <2>5. RowsTypeOK'
      BY <1>1, <2>3, <2>4 DEF ClaimBook, RowsTypeOK
    <2>6. ~ Claimed(h)
      BY <1>1 DEF RowInv, BatchIsUnclaimed, ClaimBook
    <2>7. ClaimKept(h) /\ DateKept(h)
      BY <2>2, <2>3, <2>6 DEF ClaimKept, DateKept
    <2> QED BY <1>1, <2>2, <2>3, <2>4, <2>5, <2>7, OneRowMoves
  <1>3. CASE ~ Present(h)
    BY <1>0, <1>3, QuietMove DEF ClaimBook
  <1> QED BY <1>2, <1>3

LEMMA ConcedeBookStep ==
  ASSUME RowInv, ConcedeBook
  PROVE  RowInv' /\ RowsKept
  <1>0. PICK h \in Books : h = Head1 /\ h \in queue.batch
    BY HeadOfBatch DEF RowInv, ConcedeBook
  <1>1. RowsTypeOK /\ h \in queue.batch /\ h \in Books /\ row[h] \in Row
    BY <1>0 DEF RowInv, RowsTypeOK
  <1>2. /\ row' \in [Books -> Row]
        /\ row'[h] = [row[h] EXCEPT !.ch = "no_match"]
        /\ \A a \in Books \ {h} : row'[a] = row[a]
    BY <1>0, <1>1, ConcedeRow DEF ConcedeBook
  <1>3. queue \in Queue /\ queue.known \in Snapshot
        /\ queue.outcome \in {"none", "done", "no_match", "error"}
    BY <1>1 DEF RowsTypeOK, Queue
  <1>4. queue' = [queue EXCEPT !.pc = "search", !.known = queue.known, !.outcome = queue.outcome]
    BY <1>3 DEF ConcedeBook, Queue
  <1>5. /\ queue' \in Queue /\ HasBook' /\ queue'.batch = queue.batch /\ queue'.pc = "search"
    BY <1>3, <1>4, SameBook DEF ConcedeBook
  <1>6. \A b \in queue.batch : ~ Claimed(b)
    BY DEF RowInv, BatchIsUnclaimed, ConcedeBook
  <1>7. row'[h].source = row[h].source /\ row'[h].date = row[h].date
    BY <1>1, <1>2 DEF Row
  <1>8. queue.batch \subseteq Books
    BY <1>3 DEF Queue
  <1>9. BatchIsUnclaimed' /\ OutcomeIsKnown'
    BY <1>1, <1>2, <1>5, <1>6, <1>7, <1>8 DEF BatchIsUnclaimed, Claimed, OutcomeIsKnown
  <1>10. RowsTypeOK'
    BY <1>1, <1>2, <1>5 DEF ConcedeBook, RowsTypeOK
  <1>11. ClaimKept(h) /\ DateKept(h) /\ ~ Claimed(h)'
    BY <1>1, <1>6, <1>7 DEF ClaimKept, DateKept, Claimed
  <1> QED BY <1>1, <1>2, <1>5, <1>9, <1>10, <1>11, OneRowMoves

LEMMA ApplyMatchStep ==
  ASSUME RowInv, ApplyMatch
  PROVE  RowInv' /\ RowsKept
  <1>0. PICK h \in Books : h = Head1 /\ h \in queue.batch
    BY HeadOfBatch DEF RowInv, ApplyMatch
  <1>1. RowsTypeOK /\ h \in queue.batch /\ h \in Books /\ row[h] \in Row
        /\ queue.outcome = "done" /\ ~ Claimed(h)
    BY <1>0 DEF RowInv, ApplyMatch, RowsTypeOK, OutcomeIsKnown, BatchIsUnclaimed
  <1>2. CASE Present(h)
    <2>1. PICK r \in Row : /\ row' = [row EXCEPT ![h] = r]
                           /\ r.source = "hardcover" /\ r.status = "done"
                           /\ row[h].date = "manual" => r.date = "manual"
      BY <1>0, <1>1, <1>2, HardcoverRow DEF ApplyMatch, ApplyHardcover
    <2>2. /\ row' \in [Books -> Row] /\ row'[h] = r
          /\ \A a \in Books \ {h} : row'[a] = row[a]
      BY <1>1, <2>1, RowBecomes
    <2>3. queue \in Queue /\ queue.known \in Snapshot
      BY <1>1 DEF RowsTypeOK, Queue
    <2>4. queue' = [queue EXCEPT !.pc = "status", !.known = queue.known, !.outcome = "done"]
      BY <1>0, <1>1, <1>2, <2>3 DEF ApplyMatch, Queue
    <2>5. /\ queue' \in Queue /\ HasBook' /\ Head1' = Head1
          /\ queue'.batch = queue.batch /\ queue'.pc = "status" /\ queue'.outcome = "done"
      BY <2>3, <2>4, SameBook DEF ApplyMatch
    <2>6. \A b \in queue.batch \ {h} : b \in Books /\ ~ Claimed(b)
      BY <1>0, <1>1 DEF RowInv, BatchIsUnclaimed, ApplyMatch, RowsTypeOK, Queue
    <2>7. BatchIsUnclaimed' /\ OutcomeIsKnown'
      BY <1>0, <2>2, <2>5, <2>6 DEF BatchIsUnclaimed, Claimed, OutcomeIsKnown
    <2>8. RowsTypeOK'
      BY <1>1, <2>2, <2>5 DEF ApplyMatch, RowsTypeOK
    <2>9. ClaimKept(h) /\ DateKept(h)
      BY <1>1, <2>1, <2>2 DEF ClaimKept, DateKept
    <2> QED BY <1>1, <2>1, <2>2, <2>5, <2>7, <2>8, <2>9, OneRowMoves
  <1>3. CASE ~ Present(h)
    <2>1. /\ row' \in [Books -> Row]
          /\ row'[h] = [row[h] EXCEPT !.status = "error"]
          /\ \A a \in Books \ {h} : row'[a] = row[a]
      BY <1>0, <1>1, <1>3, StatusRow DEF ApplyMatch
    <2>2. queue' \in Queue /\ HasBook' /\ OutcomeIsKnown' /\ BatchIsUnclaimed'
      BY <1>0, <1>3, <2>1, OnToTheRest DEF ApplyMatch
    <2>3. RowsTypeOK'
      BY <1>1, <2>1, <2>2 DEF ApplyMatch, RowsTypeOK
    <2>4. row'[h].source = row[h].source /\ row'[h].date = row[h].date
      BY <1>1, <2>1 DEF Row
    <2>5. ClaimKept(h) /\ DateKept(h) /\ ~ Claimed(h)'
      BY <1>1, <2>4 DEF ClaimKept, DateKept, Claimed
    <2> QED BY <1>1, <2>1, <2>2, <2>3, <2>5, OneRowMoves
  <1> QED BY <1>2, <1>3

LEMMA RecordStatusStep ==
  ASSUME RowInv, RecordStatus
  PROVE  RowInv' /\ RowsKept
  <1>0. PICK h \in Books : h = Head1 /\ h \in queue.batch
    BY HeadOfBatch DEF RowInv, RecordStatus
  <1>1. RowsTypeOK /\ row[h] \in Row /\ queue \in Queue
        /\ queue.outcome \in {"done", "no_match", "error"}
    BY DEF RowInv, RowsTypeOK, OutcomeIsKnown, RecordStatus
  <1>2. /\ row' \in [Books -> Row]
        /\ row'[h] = [row[h] EXCEPT !.status = queue.outcome]
        /\ \A a \in Books \ {h} : row'[a] = row[a]
    <2>1. PICK o \in {"done", "no_match", "error"} : o = queue.outcome
      BY <1>1
    <2>2. row' = [row EXCEPT ![h].status = o]
      BY <1>0, <2>1 DEF RecordStatus
    <2> QED BY <1>1, <2>1, <2>2, StatusRow
  <1>3. /\ row'[h].source = row[h].source /\ row'[h].date = row[h].date
        /\ row'[h].status = queue.outcome
    BY <1>1, <1>2 DEF Row
  <1>4. Claimed(h) => queue.outcome = "done" /\ row[h].status = "done"
    BY <1>0 DEF RowInv, BatchIsUnclaimed, ClaimedIsDone
  <1>5. Claimed(h) => row'[h] = row[h]
    BY <1>1, <1>2, <1>4 DEF Row
  <1>6. ClaimKept(h) /\ DateKept(h)
    <2>1. CASE Claimed(h)
      BY <1>1, <1>5, <2>1, SameRowKept
    <2>2. CASE ~ Claimed(h)
      BY <1>3, <2>2 DEF ClaimKept, DateKept
    <2> QED BY <2>1, <2>2
  <1>7. Claimed(h)' => row'[h].status = "done"
    BY <1>3, <1>4 DEF Claimed
  <1>8. queue' \in Queue /\ HasBook' /\ OutcomeIsKnown' /\ BatchIsUnclaimed'
    <2>1. CASE queue.outcome = "done"
      BY <1>0, <1>2, <2>1, OnToTheRest DEF RecordStatus
    <2>2. CASE queue.outcome # "done"
      <3>1. queue.known \in Snapshot
        BY <1>1 DEF Queue
      <3>2. queue' = [queue EXCEPT !.pc = "provider", !.known = queue.known,
                                   !.outcome = queue.outcome]
        BY <1>1, <2>2 DEF RecordStatus, Queue
      <3>3. /\ queue' \in Queue /\ HasBook' /\ queue'.batch = queue.batch
            /\ queue'.pc = "provider" /\ queue'.outcome = queue.outcome
        BY <1>1, <3>1, <3>2, SameBook DEF RecordStatus
      <3>4. \A b \in queue.batch : b \in Books /\ ~ Claimed(b)
        BY <1>1, <2>2 DEF RowInv, BatchIsUnclaimed, Queue
      <3>5. \A b \in queue.batch : ~ Claimed(b)'
        BY <1>2, <1>3, <3>4 DEF Claimed
      <3>6. OutcomeIsKnown'
        BY <1>1, <2>2, <3>3 DEF OutcomeIsKnown
      <3> QED BY <3>3, <3>5, <3>6 DEF BatchIsUnclaimed
    <2> QED BY <2>1, <2>2
  <1>9. RowsTypeOK'
    BY <1>1, <1>2, <1>8 DEF RecordStatus, RowsTypeOK
  <1> QED BY <1>2, <1>6, <1>7, <1>8, <1>9, OneRowMoves

LEMMA RecordProviderStep ==
  ASSUME RowInv, RecordProvider
  PROVE  RowInv' /\ RowsKept
  <1>0. PICK h \in Books : h = Head1 /\ h \in queue.batch
    BY HeadOfBatch DEF RowInv, RecordProvider
  <1>1. RowsTypeOK /\ row[h] \in Row /\ queue.outcome \in {"no_match", "error"}
        /\ ~ Claimed(h)
    BY <1>0 DEF RowInv, RowsTypeOK, OutcomeIsKnown, RecordProvider, BatchIsUnclaimed
  <1>2. /\ row' \in [Books -> Row]
        /\ row'[h] = [row[h] EXCEPT !.hc = queue.outcome]
        /\ \A a \in Books \ {h} : row'[a] = row[a]
    <2>1. PICK o \in {"no_match", "error"} : o = queue.outcome
      BY <1>1
    <2>2. row' = [row EXCEPT ![h].hc = o]
      BY <1>0, <2>1 DEF RecordProvider
    <2> QED BY <1>1, <2>1, <2>2, ProviderRow
  <1>3. row'[h].source = row[h].source /\ row'[h].date = row[h].date
    BY <1>1, <1>2 DEF Row
  <1>4. ClaimKept(h) /\ DateKept(h) /\ ~ Claimed(h)'
    BY <1>1, <1>3 DEF ClaimKept, DateKept, Claimed
  <1>5. queue' \in Queue /\ HasBook' /\ OutcomeIsKnown' /\ BatchIsUnclaimed'
    BY <1>0, <1>2, OnToTheRest DEF RecordProvider
  <1>6. RowsTypeOK'
    BY <1>1, <1>2, <1>5 DEF RecordProvider, RowsTypeOK
  <1> QED BY <1>2, <1>4, <1>5, <1>6, OneRowMoves

(* A row is written from outside the goroutine, and is not claimed then    *)
(* unless it was before.                                                   *)
LEMMA WrittenFromOutside ==
  ASSUME RowInv, NEW b \in Books, queue' = queue, RowsTypeOK',
         \A a \in Books \ {b} : row'[a] = row[a],
         ClaimKept(b), DateKept(b),
         Claimed(b)' => Claimed(b) /\ row'[b].status = "done"
  PROVE  RowInv' /\ RowsKept
  <1>1. HasBook' /\ OutcomeIsKnown' /\ Head1' = Head1
    BY DEF RowInv, HasBook, OutcomeIsKnown, Head1
  <1>2. queue.batch \subseteq Books
    BY DEF RowInv, RowsTypeOK, Queue
  <1>3. \A a \in queue.batch : Claimed(a)' => Claimed(a)
    BY <1>2 DEF Claimed
  <1>4. BatchIsUnclaimed'
    BY <1>1, <1>3 DEF RowInv, BatchIsUnclaimed
  <1> QED BY <1>1, <1>4, OneRowMoves

LEMMA SaveMetadataStep ==
  ASSUME RowInv, NEW e \in Editors, NEW b \in Books, SaveMetadata(e, b)
  PROVE  RowInv' /\ RowsKept
  <1>1. PICK r \in Row : /\ row' = [row EXCEPT ![b] = r]
                         /\ r.source = "manual" /\ r.status = "done"
                         /\ row[b].date = "manual" => r.date = "manual"
    BY FormRow DEF RowInv
  <1>2. /\ row' \in [Books -> Row] /\ row'[b] = r
        /\ \A a \in Books \ {b} : row'[a] = row[a]
    BY <1>1, RowBecomes DEF RowInv
  <1>3. editor' \in [Editors -> Books \cup {0}] /\ edits' \in 0 .. MaxEdits
    <2>1. edits < MaxEdits /\ edits' = edits + 1 /\ editor' = [editor EXCEPT ![e] = b]
      BY DEF SaveMetadata
    <2>2. edits \in 0 .. MaxEdits /\ editor \in [Editors -> Books \cup {0}]
      BY DEF RowInv, RowsTypeOK
    <2>3. edits' \in 0 .. MaxEdits
      BY <2>1, <2>2, EnrichmentBounds
    <2> QED BY <2>1, <2>2, <2>3
  <1>4. RowsTypeOK'
    BY <1>2, <1>3 DEF SaveMetadata, RowInv, RowsTypeOK
  <1>5. ClaimKept(b) /\ DateKept(b) /\ ~ Claimed(b)'
    BY <1>1, <1>2 DEF ClaimKept, DateKept, Claimed
  <1> QED BY <1>2, <1>4, <1>5, WrittenFromOutside DEF SaveMetadata

LEMMA MarkEditedStep ==
  ASSUME RowInv, NEW e \in Editors, MarkEdited(e)
  PROVE  RowInv' /\ RowsKept
  <1>1. PICK b \in Books : b = editor[e]
    BY DEF RowInv, RowsTypeOK, MarkEdited
  <1>2. RowsTypeOK /\ row[b] \in Row
    BY DEF RowInv, RowsTypeOK
  <1>3. /\ row' \in [Books -> Row]
        /\ row'[b] = [row[b] EXCEPT !.status = "done"]
        /\ \A a \in Books \ {b} : row'[a] = row[a]
    <2>1. row' = [row EXCEPT ![b].status = "done"]
      BY <1>1 DEF MarkEdited
    <2> QED BY <1>2, <2>1, StatusRow
  <1>4. /\ row'[b].source = row[b].source /\ row'[b].date = row[b].date
        /\ row'[b].status = "done"
    BY <1>2, <1>3 DEF Row
  <1>5. RowsTypeOK'
    BY <1>2, <1>3 DEF MarkEdited, RowsTypeOK
  <1>6. ClaimKept(b) /\ DateKept(b)
    <2>1. CASE Claimed(b)
      <3>1. row'[b] = row[b]
        BY <1>2, <1>3, <2>1 DEF RowInv, ClaimedIsDone, Row
      <3> QED BY <1>2, <3>1, SameRowKept
    <2>2. CASE ~ Claimed(b)
      BY <1>4, <2>2 DEF ClaimKept, DateKept
    <2> QED BY <2>1, <2>2
  <1>7. Claimed(b)' => Claimed(b) /\ row'[b].status = "done"
    BY <1>4 DEF Claimed
  <1> QED BY <1>3, <1>5, <1>6, <1>7, WrittenFromOutside DEF MarkEdited

(* All rows go at once, by a reset or with the library.                    *)
LEMMA AllRowsGo ==
  ASSUME RowInv, RowsTypeOK', row' = [b \in Books |-> NoRow], queue' = queue
  PROVE  RowInv' /\ RowsKept
  <1>1. \A b \in Books : row'[b] = NoRow /\ ~ Claimed(b)'
    BY DEF Claimed, NoRow
  <1>2. RowsKept
    BY <1>1 DEF RowsKept, ClaimKept, DateKept
  <1>3. queue.batch \subseteq Books
    BY DEF RowInv, RowsTypeOK, Queue
  <1>4. HasBook' /\ OutcomeIsKnown' /\ ClaimedIsDone' /\ BatchIsUnclaimed'
    BY <1>1, <1>3 DEF RowInv, HasBook, OutcomeIsKnown, ClaimedIsDone, BatchIsUnclaimed
  <1> QED BY <1>2, <1>4 DEF RowInv

LEMMA ResetStep ==
  ASSUME RowInv, ResetEnrichment
  PROVE  RowInv' /\ RowsKept
  <1>1. row' = [b \in Books |-> NoRow] /\ queue' = queue
    BY DEF ResetEnrichment
  <1>2. resets' \in 0 .. MaxResets
    <2>1. resets < MaxResets /\ resets' = resets + 1
      BY DEF ResetEnrichment
    <2>2. resets \in 0 .. MaxResets
      BY DEF RowInv, RowsTypeOK
    <2> QED BY <2>1, <2>2, EnrichmentBounds
  <1>3. RowsTypeOK'
    BY <1>1, <1>2, NoRowIsRow DEF ResetEnrichment, RowInv, RowsTypeOK
  <1> QED BY <1>1, <1>3, AllRowsGo

LEMMA ClearStep ==
  ASSUME RowInv, ClearIndex
  PROVE  RowInv' /\ RowsKept
  <1>1. row' = [b \in Books |-> NoRow] /\ queue' = queue
    BY DEF ClearIndex
  <1>2. book' \in [Books -> {"absent", "local", "catalogued", "gone"}]
    BY DEF ClearIndex, RowInv, RowsTypeOK
  <1>3. RowsTypeOK'
    BY <1>1, <1>2, NoRowIsRow DEF ClearIndex, RowInv, RowsTypeOK
  <1> QED BY <1>1, <1>3, AllRowsGo

LEMMA OutsideStep ==
  ASSUME RowInv,
         \/ \E b \in Books : AddBook(b) \/ DropBook(b)
         \/ SecondPasses \/ IntegrationStep \/ Halt \/ UNCHANGED vars
  PROVE  RowInv' /\ RowsKept
  <1>1. ASSUME row' = row, queue' = queue, RowsTypeOK' PROVE RowInv' /\ RowsKept
    BY <1>1, QueueAlone
  <1>2. ASSUME NEW b \in Books, AddBook(b) \/ DropBook(b) PROVE RowInv' /\ RowsKept
    <2>1. book' \in [Books -> {"absent", "local", "catalogued", "gone"}]
      BY <1>2 DEF AddBook, DropBook, RowInv, RowsTypeOK
    <2>2. RowsTypeOK'
      BY <1>2, <2>1 DEF AddBook, DropBook, RowInv, RowsTypeOK
    <2> QED BY <1>1, <1>2, <2>2 DEF AddBook, DropBook
  <1>3. CASE SecondPasses \/ IntegrationStep \/ UNCHANGED vars
    <2>1. UNCHANGED evars
      BY <1>3 DEF SecondPasses, IntegrationStep, vars
    <2>2. RowsTypeOK'
      BY <2>1 DEF RowInv, RowsTypeOK, evars
    <2> QED BY <1>1, <2>1, <2>2 DEF evars
  <1>4. CASE Halt
    <2>1. queue' \in Queue /\ HasBook' /\ OutcomeIsKnown' /\ BatchIsUnclaimed'
      BY <1>4, BackToPolling DEF Halt
    <2>2. RowsTypeOK'
      BY <1>4, <2>1 DEF Halt, RowInv, RowsTypeOK
    <2> QED BY <1>4, <2>1, <2>2, RowsAlone DEF Halt
  <1> QED BY <1>2, <1>3, <1>4

LEMMA StepRows == RowInv /\ Types /\ [Next]_vars => RowInv' /\ RowsKept
  <1> SUFFICES ASSUME RowInv, Types, [Next]_vars PROVE RowInv' /\ RowsKept
    OBVIOUS
  <1>1. CASE \/ \E b \in Books : AddBook(b) \/ DropBook(b)
             \/ SecondPasses \/ IntegrationStep \/ Halt \/ UNCHANGED vars
    BY <1>1, OutsideStep
  <1>2. CASE QueueStep
    BY <1>2, ReadBatchStep, SearchSteps, ClaimBookStep, ConcedeBookStep, ApplyMatchStep,
       RecordStatusStep, RecordProviderStep DEF QueueStep
  <1>3. ASSUME NEW e \in Editors, MarkEdited(e) PROVE RowInv' /\ RowsKept
    BY <1>3, MarkEditedStep
  <1>4. ASSUME NEW e \in Editors, NEW b \in Books, SaveMetadata(e, b) PROVE RowInv' /\ RowsKept
    BY <1>4, SaveMetadataStep
  <1>5. CASE ResetEnrichment \/ ClearIndex
    BY <1>5, ResetStep, ClearStep
  <1> QED BY <1>1, <1>2, <1>3, <1>4, <1>5 DEF Next

(* Of the clients, the catalog and the forms a step of this module is a    *)
(* step of Integrations, or leaves them as they are.                       *)
LEMMA StepOfIntegrations == Next => [INext]_ivars
  <1> SUFFICES ASSUME Next PROVE INext \/ UNCHANGED ivars
    OBVIOUS
  <1>1. CASE Halt \/ IntegrationStep \/ ClearIndex
    BY <1>1 DEF Halt, IntegrationStep, ClearIndex, INext, ProgramStep
  <1>2. CASE SecondPasses
    <2>1. {b \in Books : book[b] # "absent"} \in SUBSET Books
      OBVIOUS
    <2> QED BY <1>2, <2>1 DEF SecondPasses, INext
  <1>3. CASE \/ \E b \in Books : AddBook(b) \/ DropBook(b)
             \/ QueueStep \/ ResetEnrichment
             \/ \E e \in Editors : MarkEdited(e) \/ \E b \in Books : SaveMetadata(e, b)
    BY <1>3 DEF AddBook, DropBook, QueueStep, ReadBatch, ReadSnapshot, TakeBook, ClaimBook,
                ConcedeBook, SearchHardcover, ApplyMatch, RecordStatus, RecordProvider,
                ResetEnrichment, MarkEdited, SaveMetadata
  <1> QED BY <1>1, <1>2, <1>3 DEF Next

LEMMA InitRows == Init => Types /\ RowInv
  <1> SUFFICES ASSUME Init PROVE Types /\ RowInv
    OBVIOUS
  <1>1. Types
    BY InitTypesHold DEF Init
  <1>2. \A b \in Books : row[b] = NoRow /\ ~ Claimed(b)
    BY DEF Init, Claimed, NoRow
  <1>3. queue = Polling /\ queue.pc = "poll" /\ queue.batch = {} /\ queue \in Queue
    BY PollingIsQueue DEF Init, Polling
  <1>4. RowsTypeOK
    BY <1>3, NoRowIsRow, EnrichmentBounds DEF Init, RowsTypeOK
  <1>5. HasBook /\ OutcomeIsKnown /\ BatchIsUnclaimed /\ ClaimedIsDone
    BY <1>2, <1>3 DEF HasBook, OutcomeIsKnown, BatchIsUnclaimed, ClaimedIsDone
  <1> QED BY <1>1, <1>4, <1>5 DEF RowInv

LEMMA StepAll == Types /\ RowInv /\ [Next]_vars => Types' /\ RowInv'
  <1>1. [Next]_vars => [INext]_ivars
    BY StepOfIntegrations DEF vars
  <1> QED BY <1>1, StepTypes, StepRows

(* Every state is of its type.                                             *)
THEOREM EnrichmentTypeCorrect == Spec => []TypeOK
  <1>1. Types /\ RowInv => TypeOK
    BY DEF Types, RowInv, RowsTypeOK, TypeOK
  <1> QED BY <1>1, InitRows, StepAll, PTL DEF Spec

(* Only the form, the reset and the clearing of the library change what a  *)
(* provider has claimed: the Hardcover pass never touches a book of        *)
(* Chaptarr's.                                                             *)
THEOREM ClaimsAreFinal == Spec => ClaimIsFinal
  <1>1. RowsKept =>
          \A b \in Books :
            row[b].source \in {"chaptarr", "hardcover"} =>
              \/ row'[b] = NoRow \/ row'[b].source = "manual"
              \/ [row'[b] EXCEPT !.ch = row[b].ch, !.hc = row[b].hc] = row[b]
    BY DEF RowsKept, ClaimKept, Claimed
  <1>2. Types /\ RowInv /\ [Next]_vars => RowsKept
    BY StepRows
  <1> QED BY <1>1, <1>2, InitRows, StepAll, PTL DEF Spec, ClaimIsFinal

(* A release date that was typed survives every automatic pass.            *)
THEOREM TypedDatesStay == Spec => TypedDateStays
  <1>1. RowsKept =>
          \A b \in Books :
            row[b].date = "manual" => row'[b].date = "manual" \/ row'[b] = NoRow
    BY DEF RowsKept, DateKept
  <1>2. Types /\ RowInv /\ [Next]_vars => RowsKept
    BY StepRows
  <1> QED BY <1>1, <1>2, InitRows, StepAll, PTL DEF Spec, TypedDateStays

=============================================================================
