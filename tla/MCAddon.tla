------------------------------- MODULE MCAddon -------------------------------
(* Small instances, for TLC, of four parts of the Stremio addon that share no   *)
(* state in the models: the manifest and its gate, the pages of a catalog, the  *)
(* caches of these pages, and the fan-outs that fill them.  A behaviour         *)
(* exercises one and leaves the others as they began.                           *)
EXTENDS Manifest, CatalogPage, CatalogCache, FanOut

VARIABLE side   (* the part this behaviour exercises: "rows", "page", "cache", "fan" *)

(* Manifest: disabled names and a whitelist; what no list supplies; split and   *)
(* compact installs.                                                            *)
Plain == [sources |-> {"piratebay"}, disabled |-> {}, enabled |-> {}, sortsGiven |-> FALSE, sorts |-> {},
          catsGiven |-> FALSE, cats |-> {}, compact |-> FALSE, part |-> 1, keys |-> {}, extra |-> FALSE]
MCRaws ==
  LET whitelist == {<<"s", "fhd">>, <<"trans", "4k">>}
      off == {<<"s", "4k">>, Key("tube"), <<"sukebei", "top">>}
  IN {[Plain EXCEPT !.compact = c, !.disabled = d, !.enabled = e, !.sortsGiven = c, !.sorts = s] :
        c \in BOOLEAN, d \in {{}, off}, e \in {{}, whitelist}, s \in {{}, {"top"}}}
     \cup {[Plain EXCEPT !.sources = {"junk"} \cup some, !.disabled = d, !.keys = {"stashdb"}, !.part = 2,
                        !.catsGiven = g, !.cats = {"bdsm"}] :
             some \in {{"tube", "pornrips"}, {"sukebei", "hentai"}}, d \in {{}, off}, g \in BOOLEAN}

(* CatalogPage: two releases of one scene in both resolutions, one of unknown    *)
(* resolution that both catalogs list, and a 4K release; two share a code.      *)
MCHashes == {"a4k", "ahd", "b", "c"}
MCScene == [h \in MCHashes |-> CASE h = "b" -> "B" [] h = "c" -> "C" [] OTHER -> "A"]
MCResolution == [h \in MCHashes |-> CASE h = "ahd" -> "1080p" [] h = "b" -> "none" [] OTHER -> "2160p"]
MCCode == [h \in MCHashes |-> IF h \in {"a4k", "b"} THEN "JAV-1" ELSE "no"]
MCStar == [h \in MCHashes |-> IF h = "c" THEN "anna" ELSE "no"]
MCMentions == [h \in MCHashes |-> IF h \in {"c", "ahd"} THEN {"anna"} ELSE {}]
MCListing == [n \in 1..2 |-> IF n = 1 THEN {"a4k", "ahd"} ELSE {"a4k", "b", "c"}]

(* CatalogCache: a hiddenbay row in the scope of the catalog and one outside    *)
(* it, and a row of an extra indexer; an install with hiddenbay only and one    *)
(* with both.                                                                   *)
MCRows == {"hd", "sd", "ext"}
MCIndexers == {"hb", "kn"}
MCIndexerOf == [r \in MCRows |-> IF r = "ext" THEN "kn" ELSE "hb"]
MCInScope == {"hd", "ext"}
MCBase == {"hb"}
MCInstalls == {"plain", "extra"}
MCEnabled == [n \in MCInstalls |-> IF n = "plain" THEN {"hb"} ELSE MCIndexers]
MCProfiles == {List, TPDBBrowse, TPDBSearch, PornripsList, SukebeiList, Yesporn}

(* FanOut: every fan-out of the program.                                        *)
MCSites == {CoverImages, ScenesOnDemand, MatchScenes, EnrichPornrips, TorrentBackfill,
            PirateBayTerms, SukebeiTerms, TorrentDetails, SukebeiJob, SukebeiOnDemand, LiveMeta,
            AdultSources, AdultBrowse, SearchAll, AdvancedSearch, PairProbes, TPDBStrides,
            DateWindows, StashStrides}

AddonInit ==
  /\ side \in {"rows", "page", "cache", "fan"}
  /\ ManInit /\ (side # "rows" => raw = Plain /\ keys = {})
  /\ PageInit /\ (side # "page" => kind = "plain" /\ skip = 0)
  /\ CacheInit /\ (side # "cache" => profile = List /\ wired)
  /\ FanInit /\ (side # "fan" => site = LiveMeta)

InRows(action) == side = "rows" /\ action /\ UNCHANGED <<side, pageVars, cacheVars, fanVars>>
InPage(action) == side = "page" /\ action /\ UNCHANGED <<side, manVars, cacheVars, fanVars>>
InCache(action) == side = "cache" /\ action /\ UNCHANGED <<side, manVars, pageVars, fanVars>>
InFan(action) == side = "fan" /\ action /\ UNCHANGED <<side, manVars, pageVars, cacheVars>>

AddonNext == InRows(ManNext) \/ InPage(PageNext) \/ InCache(CacheNext) \/ InFan(FanNext)

allVars == <<side, manVars, pageVars, cacheVars, fanVars>>

(* The fairness of FanOut, on its side. *)
AddonSpec == AddonInit /\ [][AddonNext]_allVars /\ WF_allVars(InFan(FanStep))
==============================================================================
