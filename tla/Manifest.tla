------------------------------ MODULE Manifest ------------------------------
(***************************************************************************)
(* What an install of the Stremio addon shows and what it may open          *)
(* (internal/stremio/config.go, manifest.go, sections.go,                   *)
(* sukebei_catalog.go and the dispatch of catalog.go).  The configuration   *)
(* travels in the URL of every request: BuildManifest derives the rows the   *)
(* client lists, and ServeCatalog decides, by other code and perhaps weeks   *)
(* later, whether a row may be opened and which listings it reads.  In        *)
(* between the server gets and loses its metadata keys, and the jobs find     *)
(* studios and fill the genre pickers of the tubes.                          *)
(***************************************************************************)
EXTENDS Integers, FiniteSets

CONSTANTS
  Studios,     (* the slugs of the studios, presets and discovered ones         *)
  Only1080,    (* those without a 4K listing                                    *)
  Discovered,  (* those the server knows from the key-value store only          *)
  Tubes,       (* the registered tube sources                                   *)
  Known,       (* the category slugs                                            *)
  Defaults,    (* those an install starts with                                  *)
  Raws         (* the configurations users make up                              *)

ASSUME ManifestAssumption ==
  /\ Only1080 \subseteq Studios /\ Discovered \subseteq Studios /\ Defaults \subseteq Known

VARIABLES
  raw,      (* the configuration in the URL of the install                      *)
  keys,     (* the metadata keys of the server's environment                    *)
  studios,  (* the studios found so far                                         *)
  genres,   (* the genre pickers each tube has options for                      *)
  rows,     (* the rows of the manifest the client fetched last                 *)
  loads     (* the listings the row it opened last was read from                *)

manVars == <<raw, keys, studios, genres, rows, loads>>

Sorts == {"recent", "top"}
Pickers == {"studio", "tag", "performer"}
Mains == {"xxx", "trans"}

(* A quality base of a TPB catalog is a pair; a row is a tuple that begins    *)
(* with its kind.                                                              *)
Qualities(c) == IF c \in Only1080 THEN {"fhd"} ELSE {"4k", "fhd"}
Bases(cs) == {<<c, q>> : c \in cs, q \in {"4k", "fhd"}}
Adult(cs) == UNION {{<<"tpb", <<c, q>>, s>> : q \in Qualities(c), s \in Sorts} : c \in cs}
Search == <<"search">>
Key(source) == <<"key", source>>   (* as a name in disabledCatalogs *)
Category(k) == <<"category", k>>
Own(prefix, names) == {<<prefix, n>> : n \in names}
TubeRows(t, opts) == {<<"tube", t, n>> : n \in {"recent", "search"} \cup opts}
Sukebei == Own("sukebei", Sorts)
Hentai == Own("hentai", {"new", "top", "all", "studios", "years", "search"})
Cams == Own("sc", {"girls", "couples", "guys", "trans"})
Pornrips == Own("pr", {"recent", "studio", "tag", "search"}) \cup Own("tpdb", {"new", "search"})

(***************************************************************************)
(* parseConfig: the server's keys stand in for those the user left empty,   *)
(* unknown names are dropped, and a list that was not supplied is not an     *)
(* empty one.                                                                 *)
(***************************************************************************)
Valid == {"piratebay", "pornrips", "hentai", "sukebei", "stripchat"} \cup Tubes

Parse(r) ==
  LET wanted == r.sources \cap Valid
      key(k) == k \in r.keys \/ k \in keys
      slugs(k) == IF r.catsGiven THEN r.cats \cap Known ELSE IF key(k) THEN Defaults ELSE {}
  IN [sources |-> IF wanted = {} THEN {"piratebay"} ELSE wanted,
      disabled |-> r.disabled, enabled |-> r.enabled,
      sorts |-> IF r.sortsGiven THEN r.sorts \cap Sorts ELSE Sorts,
      compact |-> r.compact, part |-> r.part, stash |-> key("stashdb"),
      extra |-> r.extra, cats |-> [k \in {"tpdb", "stashdb"} |-> slugs(k)]]

cfg == Parse(raw)

BaseEnabled(b) == IF cfg.enabled # {} THEN b \in cfg.enabled ELSE b \notin cfg.disabled
Compactable(c) == \E q \in Qualities(c) : BaseEnabled(<<c, q>>)

(***************************************************************************)
(* BuildManifest                                                            *)
(***************************************************************************)
TpbRows ==
  LET cs == Mains \cup studios
      single == {r \in Adult(cs) : ~cfg.compact /\ BaseEnabled(r[2]) /\ r[3] \in cfg.sorts}
      merged == {<<"compact", c>> : c \in {d \in cs : cfg.compact /\ cfg.sorts # {} /\ Compactable(d)}}
  IN single \cup merged \cup (IF cfg.part <= 1 THEN {Search} ELSE {})

PornripsRows == {r \in Pornrips \ cfg.disabled : r = <<"pr", "tag">> => keys # {}}

SukebeiRows ==
  IF Key("sukebei") \in cfg.disabled \/ ~cfg.stash THEN {}
  ELSE {r \in Sukebei : cfg.sorts # {} => r[2] \in cfg.sorts}

OfSource(source, some) == IF source \in cfg.sources THEN some ELSE {}
TubesShown == UNION {OfSource(t, TubeRows(t, genres[t]) \ cfg.disabled) : t \in Tubes}
CategoriesShown == {Category(k) : k \in {l \in keys : cfg.cats[l] # {}}}
Shown ==
  OfSource("piratebay", TpbRows) \cup OfSource("pornrips", PornripsRows)
  \cup OfSource("sukebei", SukebeiRows) \cup OfSource("hentai", Hentai \ cfg.disabled)
  \cup OfSource("stripchat", Cams \ cfg.disabled) \cup TubesShown \cup CategoriesShown

(***************************************************************************)
(* isCatalogAllowed, then the dispatch of ServeCatalog.  Every id a client  *)
(* may send: the rows of any manifest, and the bare ids of the compact ones. *)
(***************************************************************************)
Ids ==
  Adult(Mains \cup Studios) \cup {<<"compact", c>> : c \in Mains \cup Studios}
  \cup {Search, Category("tpdb"), Category("stashdb")} \cup Sukebei \cup Hentai \cup Cams \cup Pornrips
  \cup UNION {TubeRows(t, Pickers) : t \in Tubes}

Kind(id) == id[1]

(* A source that is switched off by its key takes its rows with it. *)
SwitchedOff(id) ==
  \/ id \in cfg.disabled
  \/ Kind(id) = "sukebei" /\ Key("sukebei") \in cfg.disabled
  \/ Kind(id) = "tube" /\ Key(id[2]) \in cfg.disabled

Whitelisted(id) == FALSE          (* Whitelisted: Search is a base like any other *)
SearchAllowed(id) == id = Search

TpbAllowed(b, sorts) ==
  BaseEnabled(b) /\ (cfg.enabled # {} \/ sorts = {} \/ sorts \cap cfg.sorts # {})

Allowed(id) ==
  CASE Kind(id) = "category" -> TRUE
    [] Kind(id) = "search" -> SearchAllowed(id) \/ TpbAllowed(id, {})
    [] Kind(id) = "compact" -> IF cfg.compact THEN Compactable(id[2]) ELSE TpbAllowed(<<id[2], "4k">>, {})
    [] Kind(id) = "tpb" -> TpbAllowed(id[2], {id[3]})
    [] OTHER -> ~SwitchedOff(id)

(* loadCompactMergedTorrents: the enabled qualities of the pair. *)
BothQualities(c) == {<<c, q>> : q \in Qualities(c)}   (* BothQualities: as the row was merged *)
Included(c) == {<<c, q>> : q \in {p \in Qualities(c) : BaseEnabled(<<c, p>>)}}

(* matchedSourcesFilter: the torrent sources the scenes of a page must have. *)
Matched ==
  (cfg.sources \cap {"piratebay", "pornrips"}) \cup (IF cfg.extra THEN {"indexers"} ELSE {})

(* The listings a row is read from.  A bare id of an install that is not       *)
(* compact reads the 4K listing, but for the bare "xxx", which no handler takes. *)
Listings(id) ==
  CASE Kind(id) = "tpb" -> {id[2]}
    [] Kind(id) = "compact" ->
         IF cfg.compact THEN (IF cfg.sorts = {} THEN {} ELSE Included(id[2]))
         ELSE IF id[2] = "xxx" THEN {} ELSE {<<id[2], "4k">>}
    [] Kind(id) \in {"category", "tpdb"} -> {<<Kind(id), s>> : s \in Matched}
    [] OTHER -> {<<Kind(id)>>}

Opened(id) == IF Allowed(id) THEN Listings(id) ELSE {}

-----------------------------------------------------------------------------
ManInit ==
  /\ raw \in Raws /\ keys \in SUBSET {"tpdb", "stashdb"}
  /\ studios = Studios \ Discovered /\ genres = [t \in Tubes |-> {}]
  /\ rows = {} /\ loads = {}

(* The client fetches manifest.json. *)
FetchManifest ==
  /\ rows' = Shown
  /\ UNCHANGED <<raw, keys, studios, genres, loads>>

(* It opens a row, of this manifest or of an older one. *)
OpenRow(id) ==
  /\ loads' = Opened(id)
  /\ UNCHANGED <<raw, keys, studios, genres, rows>>

(* The user installs the addon anew: another URL, another manifest. *)
Reconfigure(r) ==
  /\ raw' = r /\ rows' = {} /\ loads' = {}
  /\ UNCHANGED <<keys, studios, genres>>

(* The jobs: a studio is discovered; the sync of a tube counts its genres.     *)
Discover(s) ==
  /\ s \in Discovered \ studios /\ studios' = studios \cup {s}
  /\ UNCHANGED <<raw, keys, genres, rows, loads>>

CountGenres(t) ==
  /\ genres[t] = {} /\ \E some \in {{"studio"}, Pickers} : genres' = [genres EXCEPT ![t] = some]
  /\ UNCHANGED <<raw, keys, studios, rows, loads>>

(* The server is deployed with other keys. *)
Redeploy ==
  /\ keys' \in SUBSET {"tpdb", "stashdb"} /\ loads' = {}
  /\ UNCHANGED <<raw, studios, genres, rows>>

ManNext ==
  \/ FetchManifest \/ Redeploy
  \/ \E id \in Ids : OpenRow(id)
  \/ \E r \in Raws : Reconfigure(r)
  \/ \E s \in Discovered : Discover(s)
  \/ \E t \in Tubes : CountGenres(t)

ManSpec == ManInit /\ [][ManNext]_manVars

-----------------------------------------------------------------------------
ManTypeOK ==
  /\ raw \in Raws /\ keys \subseteq {"tpdb", "stashdb"} /\ studios \subseteq Studios
  /\ genres \in [Tubes -> SUBSET Pickers] /\ rows \subseteq Ids

(* A row the client was shown is never a dead end, whatever became of the      *)
(* server's keys, studios and genres since: the gate lets it through and it     *)
(* reads some listing.  Three kinds of rows are shown all the same: those of a   *)
(* tube that is switched off by its key, a Sukebei row switched off by its id,    *)
(* and the category rows of an install without a torrent source.                  *)
DeadEnd(id) ==
  \/ Kind(id) = "tube" /\ Key(id[2]) \in cfg.disabled
  \/ Kind(id) = "sukebei" /\ id \in cfg.disabled
  \/ Kind(id) = "category" /\ Matched = {}

RowsOpen == \A id \in rows : DeadEnd(id) \/ Opened(id) # {}

(* Whatever id a client sends, of an old manifest or of none: what is read of   *)
(* TPB is a quality the install has enabled, in a merged row as well.            *)
OnlyEnabled == \A l \in loads \cap Bases(Mains \cup Studios) : BaseEnabled(l)
=============================================================================
