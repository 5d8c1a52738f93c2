---------------------------- MODULE Integrations ----------------------------
(***************************************************************************)
(* The two metadata providers as the program knows them: the row           *)
(* integration_settings, the runtime Hardcover and Chaptarr clients, and   *)
(* the snapshot of Chaptarr's catalog, in memory and in the table          *)
(* chaptarr_catalog_cache (src/internal/chaptarr/client.go,                *)
(* index/chaptarr_cache.go, web/chaptarr_refresh.go, the two save handlers *)
(* in web/handlers.go).  Crawls, saves of the settings and restarts        *)
(* interleave between any two of their statements, requests and locks.     *)
(*                                                                         *)
(* Time is told apart only as far as the code does: an instant is the set  *)
(* of books whose added_at lies in an earlier second (settled), and a      *)
(* snapshot is fresh until twelve hours have passed.                       *)
(***************************************************************************)
EXTENDS Naturals

CONSTANTS
  Books,       \* files that a Chaptarr server and the library may both hold
  Endpoints,   \* base URLs of Chaptarr servers
  NoEndpoint,  \* a blank base URL
  Task,        \* the task worker, when it runs chaptarr-refresh
  Pages,       \* requests of the Edit Metadata page with mode=chaptarr
  Savers,      \* requests that save one of the two integration forms
  AtFirst,     \* what integration_settings may hold at the first start
  Forms,       \* what the Chaptarr form may hold the first time, the second, ...
  MaxSaves,    \* bound on the forms submitted
  MaxBoots,    \* bound on the starts of the program
  MaxFails     \* bound on the requests and statements that fail

ASSUME EndpointAssumption == NoEndpoint \notin Endpoints

ASSUME CrawlerAssumption == Task \notin Pages

Scopes == Endpoints \cup {NoEndpoint}

Settings == [hardcover : BOOLEAN, enabled : BOOLEAN, endpoint : Scopes]

ASSUME FormAssumption ==
  /\ \A n \in 1 .. MaxSaves : Forms[n] \subseteq [enabled : BOOLEAN, endpoint : Scopes]
  /\ AtFirst \subseteq Settings

ASSUME IntegrationBounds ==
  MaxSaves \in Nat /\ MaxBoots \in Nat /\ MaxFails \in Nat

VARIABLES
  server,     \* the files each Chaptarr server has
  settled,    \* the books added in an earlier second
  up,         \* is the program running?
  settings,   \* the row integration_settings
  hardcover,  \* the Hardcover client: is it enabled?
  client,     \* the Chaptarr client: configuration and snapshot
  durable,    \* the rows of chaptarr_catalog_cache, by scope
  cleared,    \* has the library been cleared since a crawl was last saved?
  refresh,    \* is a run of chaptarr-refresh queued or running?
  crawl,      \* what each crawl has left to do
  save,       \* what each saved form has left to do
  saves, boots, fails

ivars == <<server, settled, up, settings, hardcover, client, durable, cleared,
           refresh, crawl, save, saves, boots, fails>>

Crawlers == Pages \cup {Task}

(* An entry of a snapshot: a file, and the server whose record of it the   *)
(* snapshot has.  covers: the books added before the stamp, to the second. *)
Snapshot == [books  : SUBSET (Books \X Endpoints),
             covers : SUBSET Books,
             age    : {"never", "fresh", "stale"}]

NoSnapshot == [books |-> {}, covers |-> {}, age |-> "never"]

Lists(s, b) == \E e \in Endpoints : <<b, e>> \in s.books

Client == [enabled : BOOLEAN, endpoint : Scopes, snap : Snapshot]

Off == [enabled |-> FALSE, endpoint |-> NoEndpoint, snap |-> NoSnapshot]

Enabled == client.enabled /\ client.endpoint # NoEndpoint

Crawl == [pc    : {"idle", "list", "files", "stamp", "save", "publish"},
          from  : Scopes,
          list  : SUBSET Books,
          scope : Scopes,
          snap  : Snapshot]

NoCrawl == [pc |-> "idle", from |-> NoEndpoint, list |-> {},
            scope |-> NoEndpoint, snap |-> NoSnapshot]

Save == [pc   : {"idle", "write", "hardcover", "chaptarr", "clear", "load", "restore"},
         form : {"hardcover", "chaptarr"},
         row  : Settings,
         old  : Scopes,
         snap : Snapshot]

NoSave == [pc   |-> "idle", form |-> "hardcover",
           row  |-> [hardcover |-> FALSE, enabled |-> FALSE, endpoint |-> NoEndpoint],
           old  |-> NoEndpoint, snap |-> NoSnapshot]

Fails == fails < MaxFails /\ fails' = fails + 1

IInit ==
  /\ server = [e \in Endpoints |-> {}]
  /\ settled = {}
  /\ up = FALSE
  /\ settings \in AtFirst
  /\ hardcover = FALSE
  /\ client = Off
  /\ durable = [e \in Endpoints |-> NoSnapshot]
  /\ cleared = FALSE
  /\ refresh = FALSE
  /\ crawl = [c \in Crawlers |-> NoCrawl]
  /\ save = [s \in Savers |-> NoSave]
  /\ saves = 0 /\ boots = 0 /\ fails = 0

-----------------------------------------------------------------------------
(* What happens outside: Chaptarr imports a file; a second ends; half a    *)
(* day passes, and every snapshot there is has reached its TTL.            *)

Import(e, b) ==
  /\ b \notin server[e]
  /\ server' = [server EXCEPT ![e] = @ \cup {b}]
  /\ UNCHANGED <<settled, up, settings, hardcover, client, durable, cleared,
                 refresh, crawl, save, saves, boots, fails>>

SecondEnds(added) ==
  /\ settled' = settled \cup added
  /\ settled' # settled
  /\ UNCHANGED <<server, up, settings, hardcover, client, durable, cleared,
                 refresh, crawl, save, saves, boots, fails>>

Aged(s) == IF s.age = "fresh" THEN [s EXCEPT !.age = "stale"] ELSE s

HalfDayPasses ==
  /\ client' = [client EXCEPT !.snap = Aged(@)]
  /\ durable' = [e \in Endpoints |-> Aged(durable[e])]
  /\ <<client', durable'>> # <<client, durable>>
  /\ UNCHANGED <<server, settled, up, settings, hardcover, cleared, refresh,
                 crawl, save, saves, boots, fails>>

-----------------------------------------------------------------------------
(* The program: New and SetCacheStore at the start, nothing at the end.    *)

Stored(scope) == IF scope = NoEndpoint THEN NoSnapshot ELSE durable[scope]

Boot ==
  /\ ~up /\ boots < MaxBoots
  /\ up' = TRUE
  /\ boots' = boots + 1
  /\ hardcover' = settings.hardcover
  /\ client' = [enabled |-> settings.enabled, endpoint |-> settings.endpoint,
                snap |-> Stored(settings.endpoint)]
  /\ UNCHANGED <<server, settled, settings, durable, cleared, refresh, crawl,
                 save, saves, fails>>

(* The row of the run is marked interrupted at the next start.             *)
Exit ==
  /\ up
  /\ up' = FALSE
  /\ hardcover' = FALSE
  /\ client' = Off
  /\ refresh' = FALSE
  /\ crawl' = [c \in Crawlers |-> NoCrawl]
  /\ save' = [s \in Savers |-> NoSave]
  /\ UNCHANGED <<server, settled, settings, durable, cleared, saves, boots,
                 fails>>

-----------------------------------------------------------------------------
(* A refresh is queued by the scheduler when the snapshot is absent or     *)
(* stale, and by the Tasks page at any time; Enqueue keeps one at most.    *)

EnqueueRefresh ==
  /\ ~refresh
  /\ refresh' = TRUE
  /\ UNCHANGED <<server, settled, up, settings, hardcover, client, durable,
                 cleared, crawl, save, saves, boots, fails>>

(* Mutant: only an absent snapshot is refreshed.                           *)
EnqueuesWhenAbsent == up /\ Enabled /\ client.snap.age = "never" /\ EnqueueRefresh

SchedulerEnqueues == up /\ Enabled /\ client.snap.age # "fresh" /\ EnqueueRefresh
TasksPageEnqueues == up /\ EnqueueRefresh

RunRefresh ==
  /\ refresh /\ crawl[Task].pc = "idle"
  /\ IF Enabled
     THEN /\ crawl' = [crawl EXCEPT ![Task] = [NoCrawl EXCEPT !.pc = "list"]]
          /\ UNCHANGED refresh
     ELSE refresh' = FALSE /\ UNCHANGED crawl
  /\ UNCHANGED <<server, settled, up, settings, hardcover, client, durable,
                 cleared, save, saves, boots, fails>>

(* runChaptarrSearch crawls for itself, whatever the age of the snapshot.  *)
EditPage(c) ==
  /\ up /\ Enabled
  /\ crawl[c].pc = "idle"
  /\ crawl' = [crawl EXCEPT ![c] = [NoCrawl EXCEPT !.pc = "list"]]
  /\ UNCHANGED <<server, settled, up, settings, hardcover, client, durable,
                 cleared, refresh, save, saves, boots, fails>>

EndCrawl(c) ==
  /\ crawl' = [crawl EXCEPT ![c] = NoCrawl]
  /\ refresh' = (refresh /\ c # Task)

-----------------------------------------------------------------------------
(* RefreshBooks: ListBooks asks for the records and then for the paths,    *)
(* each request with the configuration of that moment; the stamp and the   *)
(* scope are read afterwards; the snapshot is saved and then published.    *)

CrawlList(c) ==
  /\ crawl[c].pc = "list" /\ client.endpoint # NoEndpoint
  /\ crawl' = [crawl EXCEPT ![c].pc = "files",
                            ![c].from = client.endpoint,
                            ![c].list = server[client.endpoint]]
  /\ UNCHANGED <<server, settled, up, settings, hardcover, client, durable,
                 cleared, refresh, save, saves, boots, fails>>

CrawlFiles(c) ==
  LET found == crawl[c].list \cap server[client.endpoint] IN
  /\ crawl[c].pc = "files" /\ client.endpoint # NoEndpoint
  /\ crawl' = [crawl EXCEPT ![c].pc = "stamp",
                            ![c].list = {},
                            ![c].snap.books = found \X {crawl[c].from}]
  /\ UNCHANGED <<server, settled, up, settings, hardcover, client, durable,
                 cleared, refresh, save, saves, boots, fails>>

(* Mutant: the snapshot is published and not saved.                        *)
StampOnly(c) ==
  /\ crawl[c].pc = "stamp"
  /\ crawl' = [crawl EXCEPT ![c].pc = "publish",
                            ![c].from = NoEndpoint,
                            ![c].snap.covers = settled,
                            ![c].snap.age = "fresh"]
  /\ UNCHANGED <<server, settled, up, settings, hardcover, client, durable,
                 cleared, refresh, save, saves, boots, fails>>

CrawlStamp(c) ==
  /\ crawl[c].pc = "stamp"
  /\ crawl' = [crawl EXCEPT ![c].pc = IF client.endpoint = NoEndpoint THEN "publish" ELSE "save",
                            ![c].from = NoEndpoint,
                            ![c].scope = client.endpoint,
                            ![c].snap.covers = settled,
                            ![c].snap.age = "fresh"]
  /\ UNCHANGED <<server, settled, up, settings, hardcover, client, durable,
                 cleared, refresh, save, saves, boots, fails>>

CrawlSave(c) ==
  /\ crawl[c].pc = "save"
  /\ durable' = [durable EXCEPT ![crawl[c].scope] = crawl[c].snap]
  /\ cleared' = FALSE
  /\ crawl' = [crawl EXCEPT ![c].pc = "publish"]
  /\ UNCHANGED <<server, settled, up, settings, hardcover, client, refresh,
                 save, saves, boots, fails>>

CrawlPublish(c) ==
  /\ crawl[c].pc = "publish"
  /\ client' = [client EXCEPT !.snap = crawl[c].snap]
  /\ EndCrawl(c)
  /\ UNCHANGED <<server, settled, up, settings, hardcover, durable, cleared,
                 save, saves, boots, fails>>

(* A request fails, or the statement; without a base URL a request always  *)
(* does.                                                                   *)
CrawlFails(c) ==
  /\ \/ crawl[c].pc \in {"list", "files", "save"} /\ Fails
     \/ crawl[c].pc \in {"list", "files"} /\ client.endpoint = NoEndpoint /\ UNCHANGED fails
  /\ EndCrawl(c)
  /\ UNCHANGED <<server, settled, up, settings, hardcover, client, durable,
                 cleared, save, saves, boots>>

CrawlStep(c) ==
  \/ CrawlList(c) \/ CrawlFiles(c) \/ CrawlStamp(c)
  \/ CrawlSave(c) \/ CrawlPublish(c) \/ CrawlFails(c)

-----------------------------------------------------------------------------
(* The two forms.  Each handler reads the whole row, changes its part,     *)
(* writes the whole row back and configures its client.                    *)

BeginSave(s, form, row) ==
  /\ up /\ save[s].pc = "idle" /\ saves < MaxSaves
  /\ saves' = saves + 1
  /\ save' = [save EXCEPT ![s] = [NoSave EXCEPT !.pc = "write", !.form = form, !.row = row]]
  /\ UNCHANGED <<server, settled, up, settings, hardcover, client, durable,
                 cleared, refresh, crawl, boots, fails>>

SaveHardcoverForm(s) ==
  \E on \in BOOLEAN : BeginSave(s, "hardcover", [settings EXCEPT !.hardcover = on])

SaveChaptarrForm(s) ==
  /\ saves < MaxSaves
  /\ \E f \in Forms[saves + 1] :
       BeginSave(s, "chaptarr", [settings EXCEPT !.enabled = f.enabled, !.endpoint = f.endpoint])

SaveWrite(s) ==
  /\ save[s].pc = "write"
  /\ settings' = save[s].row
  /\ save' = [save EXCEPT ![s].pc = save[s].form]
  /\ UNCHANGED <<server, settled, up, hardcover, client, durable, cleared,
                 refresh, crawl, saves, boots, fails>>

ConfigureHardcover(s) ==
  /\ save[s].pc = "hardcover"
  /\ hardcover' = save[s].row.hardcover
  /\ save' = [save EXCEPT ![s] = NoSave]
  /\ UNCHANGED <<server, settled, up, settings, client, durable, cleared,
                 refresh, crawl, saves, boots, fails>>

(* SetConfig: under the lock the configuration changes and the snapshot is *)
(* dropped; the store is told, and asked, after the unlock.                *)
AfterClear(row) == IF row.endpoint = NoEndpoint THEN "idle" ELSE "load"

ConfigureChaptarr(s) ==
  LET row == save[s].row
      old == client.endpoint IN
  /\ save[s].pc = "chaptarr"
  /\ client' = [enabled |-> row.enabled, endpoint |-> row.endpoint, snap |-> NoSnapshot]
  /\ save' = [save EXCEPT ![s].pc = IF old \notin {NoEndpoint, row.endpoint}
                                    THEN "clear" ELSE AfterClear(row),
                          ![s].old = old]
  /\ UNCHANGED <<server, settled, up, settings, hardcover, durable, cleared,
                 refresh, crawl, saves, boots, fails>>

ClearOldScope(s) ==
  /\ save[s].pc = "clear"
  /\ durable' = [durable EXCEPT ![save[s].old] = NoSnapshot]
  /\ save' = [save EXCEPT ![s].pc = AfterClear(save[s].row)]
  /\ UNCHANGED <<server, settled, up, settings, hardcover, client, cleared,
                 refresh, crawl, saves, boots, fails>>

LoadNewScope(s) ==
  LET found == Stored(save[s].row.endpoint) IN
  /\ save[s].pc = "load"
  /\ save' = IF found.age = "never"
             THEN [save EXCEPT ![s] = NoSave]
             ELSE [save EXCEPT ![s].pc = "restore", ![s].snap = found]
  /\ UNCHANGED <<server, settled, up, settings, hardcover, client, durable,
                 cleared, refresh, crawl, saves, boots, fails>>

RestoreSnapshot(s) ==
  /\ save[s].pc = "restore"
  /\ client' = [client EXCEPT !.snap = save[s].snap]
  /\ save' = [save EXCEPT ![s] = NoSave]
  /\ UNCHANGED <<server, settled, up, settings, hardcover, durable, cleared,
                 refresh, crawl, saves, boots, fails>>

(* A statement fails: the handler, or SetConfig, ends there.               *)
SaveFails(s) ==
  /\ save[s].pc \in {"write", "clear", "load"}
  /\ Fails
  /\ save' = [save EXCEPT ![s] = NoSave]
  /\ UNCHANGED <<server, settled, up, settings, hardcover, client, durable,
                 cleared, refresh, crawl, saves, boots>>

SaveStep(s) ==
  \/ SaveWrite(s) \/ ConfigureHardcover(s) \/ ConfigureChaptarr(s)
  \/ ClearOldScope(s) \/ LoadNewScope(s) \/ RestoreSnapshot(s) \/ SaveFails(s)
-----------------------------------------------------------------------------
(* The Clear Library button: one transaction, which has the rows of the    *)
(* cache among others; the client is not told and keeps its snapshot.      *)
ClearLibrary ==
  /\ up
  /\ durable' = [e \in Endpoints |-> NoSnapshot]
  /\ cleared' = TRUE
  /\ UNCHANGED <<server, settled, up, settings, hardcover, client, refresh,
                 crawl, save, saves, boots, fails>>

-----------------------------------------------------------------------------
ProgramStep ==
  \/ Boot \/ Exit
  \/ SchedulerEnqueues \/ TasksPageEnqueues \/ RunRefresh
  \/ \E c \in Pages : EditPage(c)
  \/ \E c \in Crawlers : CrawlStep(c)
  \/ \E s \in Savers : SaveHardcoverForm(s) \/ SaveChaptarrForm(s) \/ SaveStep(s)
  \/ ClearLibrary

INext ==
  \/ \E e \in Endpoints, b \in Books : Import(e, b)
  \/ \E added \in SUBSET Books : SecondEnds(added)
  \/ HalfDayPasses
  \/ ProgramStep

ISpec == IInit /\ [][INext]_ivars

(* The scheduler polls, the task worker runs what is queued, and a request *)
(* ends: the HTTP client has a timeout of thirty seconds.                  *)
RefreshFairness ==
  WF_ivars(SchedulerEnqueues) /\ WF_ivars(RunRefresh) /\ WF_ivars(CrawlStep(Task))

IFairSpec == ISpec /\ RefreshFairness

-----------------------------------------------------------------------------
IntegrationsTypeOK ==
  /\ server \in [Endpoints -> SUBSET Books] /\ settled \subseteq Books
  /\ up \in BOOLEAN /\ settings \in Settings /\ hardcover \in BOOLEAN
  /\ client \in Client /\ durable \in [Endpoints -> Snapshot]
  /\ cleared \in BOOLEAN /\ refresh \in BOOLEAN
  /\ crawl \in [Crawlers -> Crawl] /\ save \in [Savers -> Save]
  /\ saves \in 0 .. MaxSaves /\ boots \in 0 .. MaxBoots /\ fails \in 0 .. MaxFails

(* Until its address is changed, the snapshot in use for a server is       *)
(* backed by a durable one, whatever crawls overlap, fail or are cut off   *)
(* and however often the provider is switched off and on: a restart or a   *)
(* save does not send the queue back to waiting for a crawl.  Only the     *)
(* clearing of the library takes the durable one from under the one in     *)
(* use, and the next crawl that is saved puts one there again.             *)
MemoryIsBacked ==
  client.snap.age # "never" /\ client.endpoint # NoEndpoint
    => cleared \/ durable[client.endpoint].age # "never"

(* A snapshot that is absent or stale is replaced, or Chaptarr is switched *)
(* off or the program stops: no failed crawl, and no run that found        *)
(* Chaptarr off, keeps the next one from being queued.                     *)
StaleIsRefreshed ==
  (up /\ Enabled /\ client.snap.age # "fresh") ~>
    (~up \/ ~Enabled \/ client.snap.age = "fresh")

(* What is stored for a server was read from that server.                  *)
DurableIsOfScope ==
  \A e \in Endpoints : \A x \in durable[e].books : x[2] = e

(* What is in use was read from the server that is configured.             *)
MemoryIsOfEndpoint ==
  \A x \in client.snap.books : x[2] = client.endpoint

(* When no form is being saved, the clients run with what is stored.       *)
ClientsFollowSettings ==
  (up /\ \A s \in Savers : save[s].pc = "idle") =>
    /\ hardcover = settings.hardcover
    /\ client.enabled = settings.enabled /\ client.endpoint = settings.endpoint
=============================================================================
