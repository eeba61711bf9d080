----------------------------- MODULE CatalogPage -----------------------------
(***************************************************************************)
(* How a catalog page of the Stremio addon is put together and how its      *)
(* items are opened again (stremio/catalog.go, pornrips_catalog.go,         *)
(* meta.go, torrent.go, tpdb_catalog.go).  A compact page merges the 4K and *)
(* the 1080p catalogs round by round until it has enough scenes, groups the *)
(* releases of a scene, cuts its page out of the ranking and renders one    *)
(* item for each group; a plain page renders each row; a PornRips row       *)
(* carries its members from Mongo.  Rendering stores the record of every    *)
(* row under its id, takes posters from the store and from live lookups,    *)
(* and hands them on between rows of one product code or performer.         *)
(***************************************************************************)
EXTENDS Integers, FiniteSets, Sequences, SequencesExt

CONSTANTS
  Hashes,      (* the releases                                                  *)
  Scene,       (* the scene of each, compactSceneKey of its title               *)
  Resolution,  (* detectQuality of its title: "2160p", "1080p" or "none"        *)
  Code,        (* javCodeKey of its title, or NoCode                            *)
  NoCode,
  Star,        (* onlyFansPerformerKey of its title, or NoCode                  *)
  Mentions,    (* the performers its title names                                *)
  Seeds,       (* seeder counts a listing may show                              *)
  Rounds,      (* maxCompactFetchPages: the underlying pages a request may read *)
  Listing,     (* the releases on each underlying page                          *)
  MaxResults,  (* the rows of a page                                            *)
  Skips,       (* the skips a client asks for                                   *)
  LiveMax,     (* catalogLiveMetaMaxPerPage                                     *)
  Kinds        (* the kinds of page checked: "compact", "plain", "pornrips"     *)

ASSUME PageAssumption ==
  /\ IsFiniteSet(Hashes) /\ Rounds \in Nat \ {0} /\ Listing \in [1..Rounds -> SUBSET Hashes]
  /\ Seeds \cup Skips \cup {MaxResults, LiveMax} \subseteq Nat
  /\ Kinds \subseteq {"compact", "plain", "pornrips"}

Stamps == <<"4k", "fhd">>      (* the variants, in the order they are collected *)

VARIABLES
  kind, skip,
  phase,    (* "load", "group", "render", "live", "share", "emit", "done"       *)
  round,    (* the underlying pages read                                        *)
  batch,    (* the rows of this round                                           *)
  next,     (* the variant to read next                                         *)
  merged,   (* the rows kept so far                                             *)
  groups,   (* the groups on the page, members by seeders                       *)
  metas,    (* the previews, in the order of the rows                           *)
  out,      (* the items answered                                               *)
  recs,     (* the ids with a record in Redis                                   *)
  lost,     (* ids whose record expired or was not written                      *)
  opened    (* the record the last opened item was looked up by, and the answer *)

page == <<kind, skip>>
pageVars == <<page, phase, round, batch, next, merged, groups, metas, out, recs, lost, opened>>

NoPoster == "none"

(* filterByStampedQuality, filterByQualityScope: an unknown resolution fits. *)
Fits(hash, stamp) ==
  \/ Resolution[hash] = "none" \/ stamp = ""
  \/ Resolution[hash] = (IF stamp = "4k" THEN "2160p" ELSE "1080p")

(* dedupeCatalogTorrents: of the copies of a release the one with the most     *)
(* seeders, of equals the first: the one kept so far, then the 4K catalog's.    *)
Place(row) == IF row \in merged THEN 0 ELSE IF row.stamp = "4k" THEN 1 ELSE 2
Beats(row, other) ==
  row.seeds > other.seeds \/ (row.seeds = other.seeds /\ Place(row) <= Place(other))
Dedupe(rows) == {r \in rows : \A q \in rows : q.hash = r.hash => Beats(r, q)}

ScenesOf(rows) == {Scene[r.hash] : r \in rows}
OfScene(rows, c) == {r \in rows : Scene[r.hash] = c}

PageInit ==
  /\ kind \in Kinds /\ skip \in Skips
  /\ phase = (IF kind = "compact" THEN "load" ELSE "group")
  /\ round = 0 /\ batch = {} /\ next = 1 /\ merged = {}
  /\ groups = <<>> /\ metas = <<>> /\ out = <<>>
  /\ recs = {} /\ lost = {}
  /\ opened = [id |-> <<>>, found |-> TRUE]

(* loadCompactMergedTorrents: one variant of the round; a load that errs is   *)
(* skipped.  The catalogs hold the rows of their own resolution only.          *)
Load ==
  /\ phase = "load" /\ next <= Len(Stamps)
  /\ \E some \in {{}, {h \in Listing[round + 1] : Fits(h, Stamps[next])}} :
     \E seeds \in [some -> Seeds] :
       batch' = batch \cup {[hash |-> h, seeds |-> seeds[h], stamp |-> Stamps[next]] : h \in some}
  /\ next' = next + 1
  /\ UNCHANGED <<page, phase, round, merged, groups, metas, out, recs, lost, opened>>

(* The end of a round: merge, and stop with enough groups, nothing new or at   *)
(* the last page.                                                              *)
Need == skip + MaxResults
EndRound ==
  LET rows == {r \in Dedupe(merged \cup batch) : Fits(r.hash, r.stamp)} IN
  /\ phase = "load" /\ next > Len(Stamps)
  /\ IF batch = {} THEN UNCHANGED <<merged, round>> ELSE merged' = rows /\ round' = round + 1
  /\ phase' = IF batch = {} \/ round + 1 = Rounds \/ Cardinality(ScenesOf(rows)) >= Need
              THEN "group" ELSE "load"
  /\ batch' = {} /\ next' = 1
  /\ UNCHANGED <<page, groups, metas, out, recs, lost, opened>>

(* The groups of the releases of a scene, in every order: sort.Slice leaves it  *)
(* open which of the rows of equal seeders comes first.                         *)
BySeeds(rows) == {s \in SetToSeqs(rows) : \A i, j \in DOMAIN s : i < j => s[i].seeds >= s[j].seeds}
Groupings(rows) ==
  {[n \in DOMAIN ranking |-> members[ranking[n]]] :
     ranking \in SetToSeqs(ScenesOf(rows)),
     members \in {m \in [ScenesOf(rows) -> UNION {BySeeds(OfScene(rows, c)) : c \in ScenesOf(rows)}] :
                   \A c \in ScenesOf(rows) : m[c] \in BySeeds(OfScene(rows, c))}}
TopFirst(gs) == \A i, j \in DOMAIN gs : i < j => gs[i][1].seeds >= gs[j][1].seeds

(* buildCompactSceneGroups, and the cut of the page out of the ranking. *)
Cut(gs) == SubSeq(gs, skip + 1, IF skip + MaxResults < Len(gs) THEN skip + MaxResults ELSE Len(gs))

GroupCompact ==
  /\ phase = "group" /\ kind = "compact"
  /\ \E gs \in Groupings(merged) :
       TopFirst(gs) /\ groups' = (IF skip > Len(gs) THEN <<>> ELSE Cut(gs))
  /\ phase' = "render"
  /\ UNCHANGED <<page, round, batch, next, merged, metas, out, recs, lost, opened>>

(* loadCatalogTorrents, a row for each release of a 4K catalog; and            *)
(* fetchPornripsFromStore, a row for each scene with its members.              *)
Row(hash, stamp) == [hash |-> hash, seeds |-> 0, stamp |-> stamp]
GroupOthers ==
  /\ phase = "group" /\ kind # "compact"
  /\ \E n \in 1..Rounds :
       IF kind = "plain"
       THEN \E rows \in SetToSeqs({Row(h, "4k") : h \in {g \in Listing[n] : Fits(g, "4k")}}) :
              groups' = [i \in DOMAIN rows |-> <<rows[i]>>]
       ELSE groups' \in Groupings({Row(h, "") : h \in Listing[n]})
  /\ phase' = "render"
  /\ UNCHANGED <<page, round, batch, next, merged, metas, out, recs, lost, opened>>

(* The rows that are rendered: every member of a compact group, the            *)
(* representative of a PornRips group.                                         *)
Rendered ==
  IF kind = "compact" THEN FlattenSeq(groups) ELSE [n \in DOMAIN groups |-> groups[n][1]]

(* EncodeItemID and EncodeGroupID: what an id carries of its records. *)
Payload(r) == [hash |-> r.hash, stamp |-> r.stamp]
ItemId(r) == <<"item", Payload(r)>>
GroupId(ms) == <<"group">> \o [i \in DOMAIN ms |-> Payload(ms[i])]

(* A row with Members gets a group id, and its record is stored under that.    *)
RowIdBare(i) ==                        (* RowIdBare: the stamped quality is left out *)
  ItemId([Rendered[i] EXCEPT !.stamp = ""])
RowId(i) ==
  IF kind = "pornrips" /\ Len(groups[i]) > 1 THEN GroupId(groups[i]) ELSE ItemId(Rendered[i])

(* buildMetas: a preview of each row and its record under its id; the store    *)
(* has a poster for some rows.                                                 *)
Render ==
  /\ phase = "render"
  /\ \E covered \in SUBSET DOMAIN Rendered :
       metas' = [i \in DOMAIN Rendered |->
                  LET h == Rendered[i].hash
                  IN  [row |-> h, name |-> h, poster |-> IF i \in covered THEN h ELSE NoPoster]]
  /\ recs' = {RowId(i) : i \in DOMAIN Rendered}
  /\ phase' = "live"
  /\ UNCHANGED <<page, round, batch, next, merged, groups, out, lost, opened>>

(* enrichCatalogLiveMeta: a lookup for the first rows without a poster, never  *)
(* for PornRips; some find one in time.                                        *)
Needy == {i \in DOMAIN metas : metas[i].poster = NoPoster /\ kind # "pornrips"}
Live ==
  /\ phase = "live"
  /\ \E found \in SUBSET {i \in Needy : Cardinality({j \in Needy : j < i}) < LiveMax} :
       metas' = [i \in DOMAIN metas |->
                  IF i \in found THEN [metas[i] EXCEPT !.poster = metas[i].row] ELSE metas[i]]
  /\ phase' = "code"
  /\ UNCHANGED <<page, round, batch, next, merged, groups, out, recs, lost, opened>>

(* propagateMetaByJAVCode: of the rows of one code the donor is one with a     *)
(* poster if there is any, of those the one with the longest name.             *)
Siblings(i) == {j \in DOMAIN metas : Code[metas[j].row] = Code[metas[i].row]}
Postered(rows) == {j \in rows : metas[j].poster # NoPoster}
Donors(i) == IF Code[metas[i].row] = NoCode THEN {} ELSE Postered(Siblings(i))

ShareCode ==
  /\ phase = "code"
  /\ \E donor \in [DOMAIN metas -> DOMAIN metas] :
       /\ \A i \in DOMAIN metas : IF Donors(i) = {} THEN donor[i] = i ELSE donor[i] \in Donors(i)
       /\ \A i, j \in DOMAIN metas : Donors(i) # {} /\ Donors(i) = Donors(j) => donor[i] = donor[j]
       /\ metas' = [i \in DOMAIN metas |->
                     IF metas[i].poster = NoPoster /\ Donors(i) # {}
                     THEN [metas[i] EXCEPT !.poster = metas[donor[i]].poster, !.name = metas[donor[i]].name]
                     ELSE metas[i]]
  /\ phase' = "star"
  /\ UNCHANGED <<page, round, batch, next, merged, groups, out, recs, lost, opened>>

(* propagateMetaByOnlyFansPerformer: the poster of the first row that has one  *)
(* and names the performer.                                                    *)
StarDonors(i) == Postered({j \in DOMAIN metas : Star[metas[i].row] \in Mentions[metas[j].row]})
ShareStar ==
  /\ phase = "star"
  /\ metas' = [i \in DOMAIN metas |->
       IF metas[i].poster = NoPoster /\ Star[metas[i].row] # NoCode /\ StarDonors(i) # {}
       THEN LET donor == CHOOSE j \in StarDonors(i) : \A k \in StarDonors(i) : j <= k
            IN  [metas[i] EXCEPT !.poster = metas[donor].poster]
       ELSE metas[i]]
  /\ phase' = "emit"
  /\ UNCHANGED <<page, round, batch, next, merged, groups, out, recs, lost, opened>>

(* serveCompactMergedCatalog: one item for each group, with the preview of its *)
(* first member, found by counting the rows of the groups before it.           *)
GroupsBefore(n) == n - 1                 (* GroupsBefore: counts groups, not rows *)
RowsBefore(n) == IF kind = "compact" THEN Len(FlattenSeq(SubSeq(groups, 1, n - 1))) ELSE n - 1

Emit ==
  /\ phase = "emit"
  /\ out' = [n \in DOMAIN groups |->
              LET m == metas[RowsBefore(n) + 1]
              IN  [id |-> IF kind = "compact" THEN GroupId(groups[n]) ELSE RowId(n),
                   name |-> m.name, poster |-> m.poster]]
  /\ phase' = "done"
  /\ UNCHANGED <<page, round, batch, next, merged, groups, metas, recs, lost, opened>>

(* ServeMeta: a group is looked up by its first member, re-encoded.            *)
LookupId(id) == <<"item", id[2]>>
Open(n) ==
  /\ phase = "done" /\ n \in DOMAIN out
  /\ LET key == LookupId(out[n].id) IN
     opened' = [id |-> key, found |-> (IF out[n].id[1] = "group" THEN key ELSE out[n].id) \in recs]
  /\ UNCHANGED <<page, phase, round, batch, next, merged, groups, metas, out, recs, lost>>

(* The record of a row expires. *)
Expire(id) ==
  /\ phase = "done" /\ id \in recs
  /\ recs' = recs \ {id} /\ lost' = lost \cup {id}
  /\ UNCHANGED <<page, phase, round, batch, next, merged, groups, metas, out, opened>>

PageNext ==
  \/ Load \/ EndRound \/ GroupCompact \/ GroupOthers \/ Render \/ Live \/ ShareCode \/ ShareStar \/ Emit
  \/ \E n \in DOMAIN out : Open(n)
  \/ \E id \in recs : Expire(id)

PageSpec == PageInit /\ [][PageNext]_pageVars

-----------------------------------------------------------------------------
Posters == Hashes \cup {NoPoster}

PageTypeOK ==
  /\ kind \in Kinds /\ skip \in Skips /\ round \in 0..Rounds /\ next \in 1..(Len(Stamps) + 1)
  /\ phase \in {"load", "group", "render", "live", "code", "star", "emit", "done"}
  /\ batch \cup merged \subseteq [hash : Hashes, seeds : Seeds, stamp : {"4k", "fhd"}]
  /\ Len(groups) <= MaxResults \/ kind # "compact"
  /\ \A i \in DOMAIN metas : metas[i] \in [row : Hashes, name : Hashes, poster : Posters]
  /\ phase = "done" => Len(out) = Len(groups)

(* An item shows its own scene: its name and poster are those of its best      *)
(* release, or were handed on by a row of the same code or the same performer. *)
Shows(h, other) == other = h \/ (Code[h] # NoCode /\ Code[other] = Code[h])
Aligned ==
  phase = "done" => \A n \in DOMAIN out :
    LET h == groups[n][1].hash IN
    /\ Shows(h, out[n].name)
    /\ \/ out[n].poster = NoPoster \/ Shows(h, out[n].poster)
       \/ \E g \in Hashes : Star[h] \in Mentions[g] /\ Shows(g, out[n].poster)

(* An item that is opened is found by the record that was stored when it was   *)
(* rendered, as long as that has not expired.                                  *)
Found == opened.found \/ opened.id \in lost
OpenFinds == kind # "pornrips" => Found

=============================================================================
