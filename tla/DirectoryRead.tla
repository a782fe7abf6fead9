---------------------------- MODULE DirectoryRead ----------------------------
(***************************************************************************)
(* The reads of the marketplace: what the pages and the API routes of one  *)
(* web process answer (marketplace-server.ts, marketplace-contract.ts)     *)
(* while the database behind them changes.  A live deployment reads the    *)
(* registered directory through a cache of one slot that concurrent reads  *)
(* share, or the gated read model (read-model.ts, source.ts); a page may   *)
(* forward to a remote API; other deployments answer from fixtures or with *)
(* nothing.                                                                *)
(*                                                                         *)
(* A row is what the queries return of an agent.  Seller agents have a     *)
(* reviewed profile on mainnet; one agent is the reference provider, whose *)
(* task slots are limited.  Cards are abstracted to who is shown and who   *)
(* may be hired.  Ids of a page are a set: pages of the same agents in the *)
(* same order share the slot.                                              *)
(***************************************************************************)
EXTENDS Naturals, Sequences, FiniteSets

CONSTANTS MaxRequests,   \* bound: page renders and API calls, in the order they arrive
          Sellers,       \* agents with a reviewed mainnet profile
          Reference,     \* the reference provider
          Deployments,   \* environments of the process
          Asks,          \* requests
          Changes,       \* <<kind, agent>>: what may change in the database
          Ttl,           \* life of a finished load in the cache: 15 s
          FreshFor,      \* age up to which a probe is fresh: 120 s
          Slots,         \* lifetime tasks of the reference provider
          LastTime, MaxLoads, MaxChanges,   \* bounds
          Nothing

VARIABLES clock,      \* the wall clock
          site,       \* the environment of the process
          rows,       \* agents -> their rows
          allowance,  \* the reference provider's allowance
          cache,      \* directoryCache: Nothing, or the slot
          loads,      \* the directory loads of the process, in order
          reader,     \* the requests
          changes,    \* changes of the database so far
          gone,       \* history: since when an agent is taken down
          unready     \* history: since when the reference has no capacity

dbVars == <<rows, allowance, changes, gone, unready>>
readVars == <<clock, site, dbVars, cache, loads, reader>>

Readers == 1..MaxRequests
Agents == Sellers \cup {Reference}
Forever == LastTime + Ttl + 1
Chain(a) == IF a \in Sellers THEN 56 ELSE 97

Idle == [pc |-> "idle", ask |-> Nothing, start |-> 0, ids |-> {}, load |-> 0, cards |-> <<>>, answer |-> Nothing]
FirstRow == [listing |-> "published", verification |-> "verified", metadata |-> TRUE, offer |-> "agreed",
             evidence |-> site.evidence, probe |-> [at |-> 0, status |-> "healthy"]]

ReadInit ==
  /\ clock = 0 /\ site \in Deployments
  /\ rows = [a \in Agents |-> FirstRow]
  /\ allowance = [enabled |-> TRUE, admitted |-> 0]
  /\ cache = Nothing /\ loads = <<>> /\ changes = 0
  /\ reader = [p \in Readers |-> Idle]
  /\ gone = [a \in Agents |-> Nothing] /\ unready = Nothing

-----------------------------------------------------------------------------
(* The database under the reads.                                             *)

(* Nothing is looked at once every request is answered, nor by a process that
   answers from fixtures. *)
Waiting == site.mode \in {"live", "unset"} /\ \E p \in Readers : reader[p].pc # "answered"

Change == Waiting /\ changes < MaxChanges /\ changes' = changes + 1

PassTime ==
  /\ Waiting /\ clock < LastTime /\ clock' = clock + 1
  /\ UNCHANGED <<site, dbVars, cache, loads, reader>>

(* A moderator suspends or delists an agent, or restores a suspended one. *)
ModerateRow(a) ==
  /\ Change
  /\ \/ rows[a].listing = "published" /\ \E s \in {"suspended", "delisted"} : rows' = [rows EXCEPT ![a].listing = s]
     \/ rows[a].listing = "suspended" /\ rows' = [rows EXCEPT ![a].listing = "published"]
  /\ gone' = [gone EXCEPT ![a] = IF @ = Nothing THEN clock ELSE Nothing]
  /\ UNCHANGED <<clock, site, allowance, unready, cache, loads, reader>>

(* The health job stores a probe. *)
StoreProbe(a) ==
  /\ Change
  /\ \E s \in {"healthy", "unhealthy"} : rows' = [rows EXCEPT ![a].probe = [at |-> clock, status |-> s]]
  /\ rows' # rows
  /\ UNCHANGED <<clock, site, allowance, gone, unready, cache, loads, reader>>

(* A new version has other terms than the agreed ones, terms that cannot be
   read, or nothing that can be presented. *)
Republish(a) ==
  /\ Change
  /\ \/ rows[a].offer = "agreed" /\ \E o \in {"changed", "malformed"} : rows' = [rows EXCEPT ![a].offer = o]
     \/ rows[a].metadata /\ rows' = [rows EXCEPT ![a].metadata = FALSE]
  /\ UNCHANGED <<clock, site, allowance, gone, unready, cache, loads, reader>>

(* readReferenceCapacity: an enabled allowance with a slot left. *)
Ready == allowance.enabled /\ allowance.admitted < Slots

(* reserveReferenceCapacity takes a slot for good; the worker or an operator
   may pause admission. *)
TakeSlot ==
  /\ Change
  /\ \/ Ready /\ allowance' = [allowance EXCEPT !.admitted = @ + 1]
     \/ allowance' = [allowance EXCEPT !.enabled = ~@]
  /\ unready' = IF Ready' THEN Nothing ELSE IF unready = Nothing THEN clock ELSE unready
  /\ UNCHANGED <<clock, site, rows, gone, cache, loads, reader>>

-----------------------------------------------------------------------------
(* Which source a request is answered from.                                  *)

(* configuredMarketplaceDataMode *)
DataMode ==
  CASE site.mode = "unset" -> IF site.url # "none" THEN "live" ELSE IF site.production THEN "empty" ELSE "fixture"
    [] site.mode \in {"fixture", "degraded"} -> IF site.production THEN "empty" ELSE site.mode
    [] site.mode \in {"empty", "live", "error"} -> site.mode
    [] OTHER -> "error"

(* shouldReadMarketplaceLocally: no API URL, or one of this very process. *)
ReadsLocally == site.url \in {"none", "self"}

Answer(mode, source, shown, hireable) ==
  [mode |-> mode, source |-> source, shown |-> shown, hireable |-> hireable, evidence |-> FALSE]

ErrorAnswer == Answer("error", "none", {}, {})

(* The home page shows what may be hired, and only from a live source. *)
Shelf(ask, answer) ==
  IF ask.kind # "home" THEN answer
  ELSE [answer EXCEPT !.shown = IF answer.mode = "live" THEN answer.hireable ELSE {}]

Reply(p, answer) ==
  reader' = [reader EXCEPT ![p].pc = "answered", ![p].answer = Shelf(reader[p].ask, answer), ![p].cards = <<>>]

Asked(ask) == [Idle EXCEPT !.ask = ask, !.start = clock]

Previewed(ask) == ask.preview # Nothing /\ ~site.production

(* previewResponse, only outside production. *)
PreviewAnswer(preview) ==
  CASE preview = "loading" -> Answer("fixture", "none", {}, {})
    [] preview = "empty" -> Answer("empty", "none", {}, {})
    [] preview = "degraded" -> Answer("degraded", "fixture", Agents, {})
    [] OTHER -> ErrorAnswer

(* localSearch and localAgent: the fixtures, labelled as such, or nothing. *)
LocalAnswer == CASE DataMode = "error" -> ErrorAnswer
                 [] DataMode = "empty" -> Answer("empty", "none", {}, {})
                 [] OTHER -> Answer(DataMode, "fixture", Agents, {})

(* readMarketplaceApi of the contract module, which owns no database. *)
AdapterAnswer(ask) ==
  IF Previewed(ask) THEN PreviewAnswer(ask.preview)
  ELSE IF DataMode = "live" THEN ErrorAnswer ELSE LocalAnswer

(* A request enters: a page that does not read locally is forwarded, a
   process that is not live answers at once, and a live one queries the
   directory or the read model. *)
Ask(p, ask) ==
  /\ reader[p].pc = "idle" /\ \A q \in 1..(p - 1) : reader[q].pc # "idle"
  /\ LET remote == ask.page /\ ~(DataMode = "live" /\ ReadsLocally)
     IN reader' = [reader EXCEPT ![p] =
          IF remote /\ DataMode = "live" /\ ~Previewed(ask)
          THEN [Asked(ask) EXCEPT !.pc = "remote"]
          ELSE IF remote \/ DataMode # "live"
          THEN [Asked(ask) EXCEPT !.pc = "answered", !.answer = Shelf(ask, AdapterAnswer(ask))]
          ELSE [Asked(ask) EXCEPT !.pc = IF site.directory THEN "select" ELSE "service"]]
  /\ UNCHANGED <<clock, site, dbVars, cache, loads>>

(* remoteSearch and remoteAgent: an unusable URL, an unreachable server, an
   error status or a body outside the contract all become an error. *)
RemoteAnswer(p) ==
  /\ reader[p].pc = "remote"
  /\ \/ site.url = "remote" /\ \E m \in {"live", "degraded", "empty"} : Reply(p, Answer(m, "remote", {}, {}))
     \/ Reply(p, ErrorAnswer)
  /\ UNCHANGED <<clock, site, dbVars, cache, loads>>

-----------------------------------------------------------------------------
(* The registered directory.                                                 *)

Listed(row) == row.listing \notin {"delisted", "suspended"} /\ row.verification # "rejected"

(* selectionMatches, searchDirectoryCatalog: the filters of a search. *)
Matches(a, ask) == ask.chain \in {Nothing, Chain(a)}

(* searchDirectoryCatalog, the identity of a slug, or the candidates of the
   shelf: sellers, and the reference while it has capacity. *)
SelectedIds(ask) ==
  CASE ask.kind = "search" -> {a \in Agents : Listed(rows[a]) /\ Matches(a, ask)}
    [] ask.kind = "agent" -> {ask.agent}
    [] ask.kind = "home" -> Sellers \cup (IF site.admission /\ Ready THEN {Reference} ELSE {})

(* includeCommerce: pages do without the commerce projections. *)
Commerce(ask) == ask.kind = "agent" \/ ~ask.page

Key(ids, ask) == [ids |-> ids, commerce |-> Commerce(ask)]

NewLoad(ids, ask) == [ids |-> ids, commerce |-> Commerce(ask), pc |-> "query", found |-> <<>>,
                      cards |-> <<>>, began |-> clock, ended |-> Nothing]

(* The ids of the request, then readRegisteredDirectory: an unexpired slot of
   the same key is awaited; otherwise a load starts and takes the slot until
   it ends. *)
Select(p) ==
  /\ reader[p].pc = "select"
  /\ LET ask == reader[p].ask
         ids == SelectedIds(ask)
         key == Key(ids, ask)
     IN \/ /\ cache # Nothing /\ cache.key = key /\ cache.expiresAt > clock
           /\ reader' = [reader EXCEPT ![p].pc = "await", ![p].ids = ids, ![p].load = cache.load]
           /\ UNCHANGED <<cache, loads>>
        \/ /\ ~(cache # Nothing /\ cache.key = key /\ cache.expiresAt > clock)
           /\ Len(loads) < MaxLoads
           /\ loads' = Append(loads, NewLoad(ids, ask))
           /\ cache' = [key |-> key, expiresAt |-> Forever, load |-> Len(loads) + 1]
           /\ reader' = [reader EXCEPT ![p].pc = "await", ![p].ids = ids, ![p].load = Len(loads) + 1]
        \/ Reply(p, ErrorAnswer) /\ UNCHANGED <<cache, loads>>
  /\ UNCHANGED <<clock, site, dbVars>>

(* loadRegisteredDirectory: the rows of the listed agents selected. *)
LoadQuery(l) ==
  /\ loads[l].pc = "query"
  /\ loads' = [loads EXCEPT ![l].pc = "project",
                            ![l].found = [a \in {b \in loads[l].ids : Listed(rows[b])} |-> rows[a]]]
  /\ UNCHANGED <<clock, site, dbVars, cache, reader>>

FreshProbe(probe) == probe.at <= clock /\ clock - probe.at <= FreshFor

(* sellerBound, sellerFresh, sellerReady *)
SellerReady(a, row) ==
  /\ a \in Sellers /\ site.release
  /\ row.offer = "agreed" /\ row.listing = "published" /\ row.verification = "verified"
  /\ row.probe.status = "healthy" /\ FreshProbe(row.probe)

(* Each row becomes a card, by the clock when its projections are read. *)
LoadProject(l) ==
  /\ loads[l].pc = "project"
  /\ loads' = [loads EXCEPT ![l].pc = "reference", ![l].found = <<>>,
                            ![l].cards = [a \in DOMAIN loads[l].found |-> SellerReady(a, loads[l].found[a])]]
  /\ UNCHANGED <<clock, site, dbVars, cache, reader>>

(* metadataFromRow: a version with a name, a description and terms that parse. *)
Presentable(row) == row.metadata

(* resolveActivationOffer: an offer that cannot be read is none. *)
Method(row) == IF row.offer = "malformed" THEN "none" ELSE "erc8183"

(* mapActivation of the reference: admission is open, its endpoint answered
   recently, and the offer agrees with the price.  Other cards of the read
   model are never activated. *)
Activated(a, row) == /\ a = Reference /\ site.admission
                     /\ Method(row) = "erc8183" /\ row.offer = "agreed"
                     /\ row.probe.status = "healthy" /\ FreshProbe(row.probe)

(* Mutation: a finished load keeps the slot as if it were still under way. *)
KeepForever(l) == IF cache # Nothing /\ cache.load = l THEN [cache EXCEPT !.expiresAt = Forever] ELSE cache

(* The slot expires after the load only if it is still the load's own. *)
Settle(l) == IF cache # Nothing /\ cache.load = l THEN [cache EXCEPT !.expiresAt = clock + Ttl] ELSE cache

(* The reference is read through the read model, not the directory's rows,
   and a failure of that read leaves the directory as it is. *)
LoadReference(l) ==
  /\ loads[l].pc = "reference"
  /\ \/ /\ Reference \in loads[l].ids /\ Presentable(rows[Reference])
        /\ loads' = [loads EXCEPT ![l].pc = "done", ![l].ended = clock,
                       ![l].cards = [a \in DOMAIN loads[l].cards \cup {Reference} |->
                          IF a = Reference THEN Activated(a, rows[a]) ELSE loads[l].cards[a]]]
     \/ loads' = [loads EXCEPT ![l].pc = "done", ![l].ended = clock]
  /\ cache' = Settle(l)
  /\ UNCHANGED <<clock, site, dbVars, reader>>

(* A load fails for every read that awaits it, and gives up the slot. *)
LoadFails(l) ==
  /\ loads[l].pc \in {"query", "project"}
  /\ loads' = [loads EXCEPT ![l].pc = "failed", ![l].ended = clock]
  /\ cache' = IF cache # Nothing /\ cache.load = l THEN Nothing ELSE cache
  /\ UNCHANGED <<clock, site, dbVars, reader>>

(* withReferenceCapacity: read again for every answer. *)
Hireable(cards) == {a \in DOMAIN cards : cards[a] /\ (a = Reference => Ready /\ site.admission)}

(* readEvidenceForIdentity: a detail page shows published evidence if it can
   be read in time, and the agent in any case. *)
Evidence(ask) == IF ask.kind = "agent" THEN {FALSE, rows[ask.agent].evidence} ELSE {FALSE}

(* The answer of the directory, once its load has ended.  A search restores
   the order of the page with one more query, which may fail; the shelf keeps
   what may be hired; an agent the directory does not have is looked up in
   the read model. *)
Finish(p) ==
  /\ reader[p].pc = "await" /\ loads[reader[p].load].ended # Nothing
  /\ LET ask == reader[p].ask
         load == loads[reader[p].load]
         hireable == Hireable(load.cards)
         shown == DOMAIN load.cards
     IN \/ (load.pc = "failed" \/ ask.kind = "search") /\ Reply(p, ErrorAnswer)
        \/ /\ load.pc = "done"
           /\ IF ask.kind = "agent" /\ ask.agent \notin shown
              THEN reader' = [reader EXCEPT ![p].pc = "service"]
              ELSE \E e \in Evidence(ask) :
                     Reply(p, [Answer("live", "directory", shown, hireable) EXCEPT !.evidence = e])
  /\ UNCHANGED <<clock, site, dbVars, cache, loads>>

-----------------------------------------------------------------------------
(* The gated read model.                                                     *)

(* source.read: records that cannot be presented are withheld. *)
ServiceRead(p) ==
  /\ reader[p].pc = "service"
  /\ \/ LET records == {a \in Agents : Presentable(rows[a])}
        IN reader' = [reader EXCEPT ![p].pc = "evaluate", ![p].cards = [a \in records |-> rows[a]]]
     \/ Reply(p, ErrorAnswer)
  /\ UNCHANGED <<clock, site, dbVars, cache, loads>>

(* modeFromSourceMeta: a source that withheld records, or is not fed, is
   degraded, even when nothing is left of it. *)
SourceMode(records) == IF records # Agents \/ ~site.ingestion THEN "degraded" ELSE "live"

(* evaluateListing *)
Eligible(row) == /\ row.listing = "published" /\ row.verification \notin {"pending", "rejected"}
                 /\ row.probe.status = "healthy" /\ FreshProbe(row.probe)

(* search keeps eligible listings that match; readAgent shows any record,
   and evidence that cannot be read in time leaves it as it is. *)
ServiceEvaluate(p) ==
  /\ reader[p].pc = "evaluate"
  /\ LET ask == reader[p].ask
         cards == reader[p].cards
         shown == IF ask.kind = "agent" THEN {ask.agent} \cap DOMAIN cards
                  ELSE {a \in DOMAIN cards : Eligible(cards[a]) /\ Matches(a, ask)}
         activated == [a \in shown |-> Activated(a, cards[a])]
         hireable == IF ask.kind = "agent" THEN Hireable(activated) ELSE {a \in shown : activated[a]}
     IN \E e \in Evidence(ask) :
          Reply(p, [Answer(SourceMode(DOMAIN cards), "service", shown, hireable) EXCEPT !.evidence = e])
  /\ UNCHANGED <<clock, site, dbVars, cache, loads>>

-----------------------------------------------------------------------------
ReadNext ==
  \/ PassTime
  \/ <<"capacity", Reference>> \in Changes /\ TakeSlot
  \/ \E a \in Agents : \/ <<"listing", a>> \in Changes /\ ModerateRow(a)
                       \/ <<"probe", a>> \in Changes /\ StoreProbe(a)
                       \/ <<"version", a>> \in Changes /\ Republish(a)
  \/ \E p \in Readers : \/ \E ask \in Asks : Ask(p, ask)
                        \/ RemoteAnswer(p) \/ Select(p) \/ Finish(p)
                        \/ ServiceRead(p) \/ ServiceEvaluate(p)
  \/ \E l \in DOMAIN loads : LoadQuery(l) \/ LoadProject(l) \/ LoadReference(l) \/ LoadFails(l)

ReadSpec == ReadInit /\ [][ReadNext]_readVars

-----------------------------------------------------------------------------
Answered(p, source) == reader[p].pc = "answered" /\ reader[p].answer.source = source

(* An answer of the directory is one for the request's own selection, from a
   load that was under way when the request was made or had ended less than
   Ttl before (marketplace-server.ts readRegisteredDirectory): an agent taken
   down before that load began is not in it, the reference only by its own
   read.  The reference provider is offered only if it had a slot at some
   moment since the request was made (withReferenceCapacity), and a failed
   load is never the answer to a request made after it failed.  Fixtures are
   the answer of neither a production nor a live process, and are labelled
   ("no fixture fallback is permitted", marketplace-contract.ts). *)
AnswerIsCurrent ==
  \A p \in DOMAIN reader :
    LET r == reader[p]
        load == loads[r.load]
    IN /\ Answered(p, "directory") =>
            /\ load.ids = r.ids /\ load.commerce = Commerce(r.ask)
            /\ r.start < load.ended + Ttl
            /\ \A a \in r.answer.shown \ {Reference} : gone[a] = Nothing \/ gone[a] >= load.began
            /\ Reference \in r.answer.hireable => unready = Nothing \/ unready >= r.start
       /\ r.pc = "answered" /\ r.load # 0 /\ load.pc = "failed" => load.ended >= r.start
       /\ Answered(p, "fixture") => /\ ~site.production /\ r.answer.mode \in {"fixture", "degraded"}
                                    /\ DataMode = "live" => r.ask.preview # Nothing
=============================================================================
