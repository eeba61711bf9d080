------------------------------- MODULE Covers -------------------------------
(***************************************************************************)
(* The stored cover images (handlers/storage.go, cover_meta.go, cache.go,  *)
(* favorites.go, torrents.go, services/storage/object_storage.go,          *)
(* pkg/mongo/data.go, jobs/cover_storage_maintenance.go,                   *)
(* description_image_cache.go, search_query_cache.go), with the object     *)
(* store enabled.  A cover row has a primary slot, which the user, the      *)
(* jobs and the readers of a page all write, and two slots of its own for   *)
(* metadata posters and for scraped pictures.  Whoever stores a cover first *)
(* decides from the row it read, then fetches and uploads the image, and    *)
(* writes the row last.  A maintenance job signs, backfills and cleans up   *)
(* meanwhile.  An image stands for its bytes, which name its object.        *)
(***************************************************************************)
EXTENDS Integers, FiniteSets

CONSTANTS
  Keys,       (* the torrent keys, numbers, in the order the store sorts them   *)
  Images,     (* the images                                                     *)
  Setters,    (* the requests and jobs that may be storing covers at one time    *)
  Posters,    (* per key, what shared_meta holds: an image and its source, or   *)
              (* the image "none"                                               *)
  MaxFaults,  (* bound on the store and bucket calls that fail                  *)
  MaxStores   (* bound on the covers stored in a behaviour                      *)

ASSUME CoversAssumption == Keys \subseteq Nat /\ IsFiniteSet(Keys)
ASSUME CoversBounds == MaxFaults \in Nat /\ MaxStores \in Nat
ASSUME PostersAssumption == \A k \in Keys : Posters[k].img \in Images \cup {"none"}

VARIABLES
  rows,      (* per key, its row in the collection images, or NoRow             *)
  objects,   (* the objects in the bucket                                       *)
  setter,    (* per request or job, the cover it is storing, or Rest            *)
  keeper,    (* the maintenance job                                             *)
  missing,   (* history: rows without an object since the backfill began        *)
  budget     (* the failures and the stores that are left (bounds of the model)  *)

coverVars == <<rows, objects, setter, keeper, missing, budget>>

None == [at |-> "none", img |-> "none"]
(* An address: the site's own, or a signed one of an object in one of the two *)
(* folders.  An object is named by its folder and its image (CoverKey).        *)
Raw(i) == [at |-> "raw", img |-> i]
Keep(i) == [at |-> "keep", img |-> i]
Temp(i) == [at |-> "temp", img |-> i]
Object == {Keep(i) : i \in Images} \cup {Temp(i) : i \in Images}
Url == Object \cup {Raw(i) : i \in Images}

(* The fields of a row: pixhost_url, storage_key, cover_source, and the       *)
(* addresses of the slots tpdb_url and details_url (with their storage keys).  *)
Row == [url : Url \cup {None}, key : Object \cup {None}, source : {"", "manual", "tpdb", "description"},
        tpdb : Url \cup {None}, details : Url \cup {None}]
NoRow == [url |-> None, key |-> None, source |-> "", tpdb |-> None, details |-> None]
Exists(k) == rows[k] # NoRow

Rest == [op |-> "rest"]

CoverFails == budget.faults > 0 /\ budget' = [budget EXCEPT !.faults = @ - 1]
CoverSucceeds == UNCHANGED budget

(* Rows of earlier versions: none, a site's address, or a temporary object.   *)
CoverInit ==
  /\ rows \in [Keys -> {NoRow} \cup
                 {[NoRow EXCEPT !.url = Raw(i)] : i \in Images} \cup
                 {[NoRow EXCEPT !.url = Temp(i), !.key = Temp(i)] : i \in Images}]
  /\ objects = {rows[k].key : k \in Keys} \ {None}
  /\ setter = [w \in Setters |-> Rest]
  /\ keeper = [pc |-> "idle"]
  /\ missing = {}
  /\ budget = [faults |-> MaxFaults, stores |-> MaxStores]

-----------------------------------------------------------------------------
(* Reading.                                                                *)

(* refreshCoverPresignedURL: the primary address a reader gets. *)
Primary(r) == IF r.key # None THEN r.key ELSE r.url

IsUpgraded(s) == s \in {"tpdb", "manual"}

(* resolveCover: manual, then the poster of shared_meta, a primary slot that   *)
(* metadata filled, the slots, and any primary slot last.                      *)
PosterUrl(k) == IF Posters[k].img = "none" THEN None ELSE Raw(Posters[k].img)

Resolved(k) ==
  LET r == rows[k]
      first == <<IF r.source = "manual" THEN Primary(r) ELSE None,
                 PosterUrl(k),
                 IF IsUpgraded(r.source) THEN Primary(r) ELSE None,
                 r.tpdb, r.details, Primary(r)>>
      at == {n \in 1 .. 6 : first[n] # None}
  IN  IF at = {} THEN None ELSE first[CHOOSE n \in at : \A m \in at : n <= m]

(* resolved.upgraded: a poster would replace a primary slot that no metadata   *)
(* filled.                                                                     *)
WouldUpgrade(k) ==
  /\ rows[k].source # "manual" /\ PosterUrl(k) # None
  /\ rows[k].url # None /\ ~IsUpgraded(rows[k].source)

-----------------------------------------------------------------------------
(* Storing: who decides to, from the row as it is then.                     *)

Stores(w, op, k, i) ==
  /\ setter[w] = Rest
  /\ budget.stores > 0 /\ budget' = [budget EXCEPT !.stores = @ - 1]
  /\ setter' = [setter EXCEPT ![w] = [op |-> op, key |-> k, img |-> i, at |-> "fetch",
                                      url |-> None, keepsPrimary |-> FALSE]]
  /\ UNCHANGED <<rows, objects, keeper, missing>>

(* StoreCoverImage: the user chooses a cover. *)
StoreCoverImage(w, k, i) == Stores(w, "manual", k, i)

(* AddFavorite, in the background: unless a permanent object is recorded.     *)
AddFavoriteCover(w, k, i) ==
  /\ rows[k].key.at # "keep"
  /\ Stores(w, "plain", k, i)

(* GetFavorites, in the background: what the page shows instead of the primary *)
(* slot, or a poster for a favorite without a row.                             *)
PromoteFavoriteCover(w, k) ==
  /\ Resolved(k) # None
  /\ Exists(k) => Resolved(k) # Primary(rows[k])
  /\ Stores(w, "plain", k, Resolved(k).img)

(* SetCoverImageEnriched routes by its source: the label of a poster that the  *)
(* two sources agree on is neither of theirs.                                  *)
Enriched(source) == IF source \in {"tpdb", "stashdb"} THEN "tpdb" ELSE "enriched"

(* GetCoverImageForTorrent and a page of results: upgradeCoverFromMeta.        *)
UpgradeCover(w, k) ==
  /\ WouldUpgrade(k)
  /\ Stores(w, Enriched(Posters[k].source), k, Posters[k].img)

(* A page of results for which no cover resolves scrapes one.                  *)
ScrapeCover(w, k, i) ==
  /\ Resolved(k) = None
  /\ Stores(w, "details", k, i)

(* The description-image job, unless the cover is an upgraded one; a forced    *)
(* run does not look.  The search-query job stores for torrents without one.   *)
DescribeCover(w, k, i, force) ==
  /\ ~force => ~(rows[k].url # None /\ IsUpgraded(rows[k].source))
  /\ IF PosterUrl(k) # None
     THEN i = Posters[k].img /\ Stores(w, Enriched(Posters[k].source), k, i)
     ELSE Stores(w, "enriched", k, i)

QueryCover(w, k, i) ==
  /\ rows[k].url = None
  /\ Stores(w, "plain", k, i)

-----------------------------------------------------------------------------
(* Storing: the image, then the row.                                       *)

Goes(w, next) == setter' = [setter EXCEPT ![w] = next]

(* After the upload: the two upserts that look at the row first. *)
AfterUpload(w) == IF setter[w].op \in {"tpdb", "details", "enriched"} THEN "read" ELSE "write"

(* fetchImageData and UploadCover.  A site that refuses the server, or a bucket *)
(* that fails, leaves the site's own address to store; the enriched setters     *)
(* give up.  (UploadUnchecked: a bug that ignores the error of the upload.)      *)
UploadUnchecked(i) == objects' \in {objects, objects \cup {Keep(i)}}
Uploaded(i) == objects' = objects \cup {Keep(i)}

StoreImage(w) ==
  /\ setter[w] # Rest /\ setter[w].at = "fetch"
  /\ \/ /\ Uploaded(setter[w].img)
        /\ Goes(w, [setter[w] EXCEPT !.at = AfterUpload(w), !.url = Keep(setter[w].img)])
     \/ /\ IF setter[w].op \in {"tpdb", "enriched"} THEN Goes(w, Rest)
           ELSE Goes(w, [setter[w] EXCEPT !.at = AfterUpload(w), !.url = Raw(setter[w].img)])
        /\ UNCHANGED objects
  /\ UNCHANGED <<rows, keeper, missing, budget>>

(* UpsertTpdbCover keeps a primary slot the user chose, UpsertDetailsCover any  *)
(* that is filled; a read that fails finds neither.                             *)
ReadRow(w) ==
  /\ setter[w] # Rest /\ setter[w].at = "read"
  /\ \/ /\ CoverSucceeds
        /\ LET r == rows[setter[w].key] IN
           Goes(w, [setter[w] EXCEPT !.at = "write", !.keepsPrimary =
                   IF setter[w].op = "tpdb" THEN r.source = "manual" ELSE r.url # None])
     \/ CoverFails /\ Goes(w, [setter[w] EXCEPT !.at = "write"])
  /\ UNCHANGED <<rows, objects, keeper, missing>>

(* coverUpsert: only the fields given are set, on the row as it is now.  An     *)
(* address without an object leaves storage_key as it was; UpsertDetailsCover   *)
(* never sets it.                                                               *)
KeyOr(w, old) == IF setter[w].url.at = "keep" THEN setter[w].url ELSE old

Upserted(w, r) ==
  CASE setter[w].op = "plain" -> [r EXCEPT !.url = setter[w].url, !.key = KeyOr(w, @)]
    [] setter[w].op = "manual" ->
         [r EXCEPT !.url = setter[w].url, !.key = KeyOr(w, @), !.source = "manual"]
    [] setter[w].op = "tpdb" /\ setter[w].keepsPrimary -> [r EXCEPT !.tpdb = setter[w].url]
    [] setter[w].op = "tpdb" ->
         [r EXCEPT !.tpdb = setter[w].url, !.url = setter[w].url, !.key = KeyOr(w, @), !.source = "tpdb"]
    [] setter[w].keepsPrimary -> [r EXCEPT !.details = setter[w].url]
    [] OTHER ->
         [r EXCEPT !.details = setter[w].url, !.url = setter[w].url, !.source = "description"]

WriteRow(w) ==
  /\ setter[w] # Rest /\ setter[w].at = "write"
  /\ \/ /\ CoverSucceeds
        /\ rows' = [rows EXCEPT ![setter[w].key] = Upserted(w, @)]
        /\ missing' = missing \ {setter[w].key}
     \/ CoverFails /\ UNCHANGED <<rows, missing>>
  /\ Goes(w, Rest)
  /\ UNCHANGED <<objects, keeper>>

(* DeleteCoverImage: the user removes the cover of a torrent. *)
DeleteCoverImage(k) ==
  /\ Exists(k)
  /\ rows' = [rows EXCEPT ![k] = NoRow]
  /\ missing' = missing \ {k}
  /\ UNCHANGED <<objects, setter, keeper, budget>>

-----------------------------------------------------------------------------
(* The maintenance job; a page of its walks holds one row.                  *)

Least(S) == CHOOSE k \in S : \A j \in S : k <= j
Turns(next) == keeper' = next

RunMaintenance ==
  /\ keeper.pc = "idle"
  /\ Turns([pc |-> "refresh", skip |-> 0])
  /\ UNCHANGED <<rows, objects, setter, missing, budget>>

(* refreshPresignedUrls: GetObjectStorageCovers, sorted, with skip and limit.  *)
(* A page that cannot be read ends the job.                                    *)
Keyed == {k \in Keys : Exists(k) /\ rows[k].key # None}
AfterSkip(S, n) == {k \in S : Cardinality({j \in S : j < k}) >= n}

RefreshPage ==
  /\ keeper.pc = "refresh"
  /\ LET left == AfterSkip(Keyed, keeper.skip) IN
     \/ /\ CoverSucceeds
        /\ IF left # {}
           THEN /\ LET k == Least(left) IN
                   Turns([pc |-> "sign", key |-> k, obj |-> rows[k].key, skip |-> keeper.skip + 1])
                /\ UNCHANGED missing
           ELSE /\ Turns([pc |-> "backfill", after |-> -1])
                /\ missing' = {k \in Keys : Exists(k) /\ rows[k].url # None /\ rows[k].key = None}
     \/ CoverFails /\ Turns([pc |-> "idle"]) /\ UNCHANGED missing
  /\ UNCHANGED <<rows, objects, setter>>

(* UpdateCoverPresignedURL of the row, if it is still there, for the object    *)
(* that was read.                                                              *)
SignRow ==
  /\ keeper.pc = "sign"
  /\ \/ /\ CoverSucceeds
        /\ rows' = IF Exists(keeper.key) THEN [rows EXCEPT ![keeper.key].url = keeper.obj] ELSE rows
     \/ CoverFails /\ UNCHANGED rows
  /\ Turns([pc |-> "refresh", skip |-> keeper.skip])
  /\ UNCHANGED <<objects, setter, missing>>

(* backfillMissingStorageKeys: GetCoverImagesMissingStorageKey after the last   *)
(* key.  (SkipPaging: what its comment warns of, paging by an offset that       *)
(* counts the rows done.)                                                       *)
Unkeyed == {k \in Keys : Exists(k) /\ rows[k].url # None /\ rows[k].key = None}
SkipPaging(after) == AfterSkip(Unkeyed, Cardinality({k \in Keys : k <= after}))
PageAfter(after) == {k \in Unkeyed : k > after}

BackfillPage ==
  /\ keeper.pc = "backfill"
  /\ LET left == PageAfter(keeper.after) IN
     \/ /\ CoverSucceeds
        /\ IF left # {}
           THEN LET k == Least(left) IN Turns([pc |-> "fill", key |-> k, img |-> rows[k].url.img])
           ELSE Turns([pc |-> "cleanup", left |-> objects \cap {Temp(i) : i \in Images}])
     \/ CoverFails /\ Turns([pc |-> "idle"])
  /\ UNCHANGED <<rows, objects, setter, missing>>

(* BackfillCoverStorageKey: fetch and upload what was read, or leave the row   *)
(* to the next run; then UpdateCoverStorageKey, if the row is still there.      *)
FillImage ==
  /\ keeper.pc = "fill"
  /\ \/ /\ objects' = objects \cup {Keep(keeper.img)}
        /\ Turns([keeper EXCEPT !.pc = "record"])
        /\ UNCHANGED missing
     \/ /\ Turns([pc |-> "backfill", after |-> keeper.key])
        /\ missing' = missing \ {keeper.key}
        /\ UNCHANGED objects
  /\ UNCHANGED <<rows, setter, budget>>

RecordObject ==
  /\ keeper.pc = "record"
  /\ \/ /\ CoverSucceeds
        /\ rows' = IF Exists(keeper.key)
                   THEN [rows EXCEPT ![keeper.key].key = Keep(keeper.img),
                                     ![keeper.key].url = Keep(keeper.img)]
                   ELSE rows
     \/ CoverFails /\ UNCHANGED rows
  /\ missing' = missing \ {keeper.key}
  /\ Turns([pc |-> "backfill", after |-> keeper.key])
  /\ UNCHANGED <<objects, setter>>

(* cleanupExpiredTemp: of the objects that the listing of the temporary folder *)
(* returned, the expired ones: the object, then DeleteCoverByStorageKey, one     *)
(* row that still names it.  An error of either call leaves the rest for later. *)
CleanObject(o) ==
  /\ keeper.pc = "cleanup" /\ o \in keeper.left
  /\ \/ /\ CoverSucceeds
        /\ objects' = objects \ {o}
        /\ Turns([pc |-> "drop", obj |-> o, left |-> keeper.left \ {o}])
     \/ CoverFails /\ Turns([keeper EXCEPT !.left = @ \ {o}]) /\ UNCHANGED objects
  /\ UNCHANGED <<rows, setter, missing>>

DropRow ==
  /\ keeper.pc = "drop"
  /\ LET named == {k \in Keys : rows[k].key = keeper.obj} IN
     \/ /\ CoverSucceeds
        /\ IF named = {} THEN UNCHANGED rows
           ELSE \E k \in named : rows' = [rows EXCEPT ![k] = NoRow]
     \/ CoverFails /\ UNCHANGED rows
  /\ Turns([pc |-> "cleanup", left |-> keeper.left])
  /\ UNCHANGED <<objects, setter, missing>>

(* The other temporary objects have not expired yet. *)
MaintenanceEnds ==
  /\ keeper.pc = "cleanup"
  /\ Turns([pc |-> "idle"])
  /\ missing' = {}
  /\ UNCHANGED <<rows, objects, setter, budget>>

Decides(w) ==
  \E k \in Keys :
    \/ PromoteFavoriteCover(w, k) \/ UpgradeCover(w, k)
    \/ \E i \in Images :
         \/ StoreCoverImage(w, k, i) \/ AddFavoriteCover(w, k, i) \/ ScrapeCover(w, k, i)
         \/ QueryCover(w, k, i)
         \/ \E force \in BOOLEAN : DescribeCover(w, k, i, force)

Maintenance ==
  \/ RunMaintenance \/ RefreshPage \/ SignRow \/ BackfillPage \/ FillImage \/ RecordObject
  \/ \E o \in objects : CleanObject(o)
  \/ DropRow \/ MaintenanceEnds

CoverNext ==
  \/ \E w \in Setters : Decides(w) \/ StoreImage(w) \/ ReadRow(w) \/ WriteRow(w)
  \/ \E k \in Keys : DeleteCoverImage(k)
  \/ Maintenance

CoverSpec == CoverInit /\ [][CoverNext]_coverVars

-----------------------------------------------------------------------------
(* Every variable has its type. *)
CoverTypeOK ==
  /\ \A k \in Keys : rows[k] = NoRow \/ rows[k] \in Row
  /\ objects \subseteq Object
  /\ missing \subseteq Keys
  /\ budget \in [faults : 0 .. MaxFaults, stores : 0 .. MaxStores]

(* A row never names a permanent object that is not in the bucket: whoever     *)
(* stores a cover uploads before it writes, falls back to the site's address    *)
(* when the upload fails, and the cleanup touches temporary objects only.  A    *)
(* broken picture would otherwise be re-signed for ever.                        *)
KeyedObjectsExist ==
  \A k \in Keys : \A o \in {rows[k].key, rows[k].url, rows[k].tpdb, rows[k].details} :
    o.at = "keep" => o \in objects

(* A backfill that reads all its pages misses no row that lacked an object when *)
(* it began, except those it could not fetch or record and those that changed   *)
(* meanwhile: "a successful backfill removes the row from the matched set, so    *)
(* skip-offset paging would silently skip pages".                               *)
BackfillCovers == keeper.pc \in {"cleanup", "drop"} => missing = {}
=============================================================================
