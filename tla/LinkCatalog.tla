----------------------------- MODULE LinkCatalog -----------------------------
(***************************************************************************)
(* The direct links of AtishMKV (services/streams/providers/atishmkv.go,    *)
(* atishmkv_catalog.go and atishmkv_resolver.go, handlers/atishmkv.go).  A  *)
(* daily sync writes the page each release is downloaded from into the      *)
(* catalog; a job resolves these pages to links that expire, and keeps the  *)
(* links in Redis; Scrape answers from Redis.  A request may start a sync,  *)
(* a whole refresh, or the refresh of one title at any time.                *)
(***************************************************************************)
EXTENDS Integers

CONSTANTS
  Releases,   (* the catalog entries, one for each title and quality           *)
  NoRelease,
  Interval,   (* half hours between two runs of the job: 8                      *)
  MaxAge,     (* a refresh leaves younger links alone: 7                        *)
  LinkTTL,    (* a link stays in Redis that long: 10                            *)
  EndOfTime,  (* bound on the clock                                             *)
  Versions,   (* bound on how often the site moves a download page              *)
  MaxMisses   (* bound on the pages that do not resolve and the writes lost     *)

ASSUME LinkAssumption ==
  /\ NoRelease \notin Releases
  /\ {Interval, MaxAge, LinkTTL} \subseteq Nat \ {0} /\ {EndOfTime, Versions, MaxMisses} \subseteq Nat
(* A link resolved as one run of the job begins is still there when the next run *)
(* ends, which lasts no longer than Interval - MaxAge: 4, 3.5 and 5 hours do.     *)
ASSUME TimingAssumption == MaxAge <= Interval /\ 2 * Interval < LinkTTL + MaxAge

Unset == -1                          (* a null last_refresh_attempt             *)
Refreshes == {"job", "request"}      (* the ticker's run and one of a request   *)

VARIABLES
  onSite,   (* the version of each download page the site shows                 *)
  entry,    (* the catalog: the version (0: no entry), last attempt and error   *)
  link,     (* Redis: the version a link was resolved from, and its expiry      *)
  todo,     (* per run, the entries it listed and has not resolved              *)
  sees,     (* per run, the version of each page when it listed, 0 if the write  *)
            (* of the link was lost                                             *)
  marks,    (* per run, the entry whose link it stored and which it marks next  *)
  hour,     (* the clock, and when the job runs next                            *)
  misses,
  kept,     (* history: the job resolved the entry last, and stored the link    *)
  excused   (* history: its mark is from a run that read an older page, or      *)
            (* whose write to Redis was lost                                    *)

linkVars == <<onSite, entry, link, todo, sees, marks, hour, misses, kept, excused>>

Known(r) == entry[r].version # 0
Resting(run) == todo[run] = {} /\ marks[run] = NoRelease

LinkInit ==
  /\ onSite = [r \in Releases |-> 1]
  /\ entry = [r \in Releases |-> [version |-> 0, attempt |-> Unset, error |-> FALSE]]
  /\ link = [r \in Releases |-> [version |-> 0, until |-> 0]]
  /\ todo = [run \in Refreshes |-> {}] /\ sees = [run \in Refreshes |-> [r \in Releases |-> 0]]
  /\ marks = [run \in Refreshes |-> NoRelease]
  /\ hour = [now |-> 0, due |-> 0] /\ misses = 0 /\ kept = {} /\ excused = {}

Move(r) ==
  /\ onSite[r] < Versions /\ onSite' = [onSite EXCEPT ![r] = @ + 1]
  /\ UNCHANGED <<entry, link, todo, sees, marks, hour, misses, kept, excused>>

(* Sync upserts the entries one by one, and resets what the refresh knows of     *)
(* each, whether or not its page has moved.                                      *)
ResyncedKept(r) == [entry[r] EXCEPT !.version = onSite[r]]   (* ResyncedKept: keeps the attempt *)
Resynced(r) == [version |-> onSite[r], attempt |-> Unset, error |-> FALSE]
SyncEntry(r) ==
  /\ Resynced(r) # entry[r]
  /\ entry' = [entry EXCEPT ![r] = Resynced(r)]
  /\ UNCHANGED <<onSite, link, todo, sees, marks, hour, misses, kept, excused>>

(* RefreshDirectLinks reads the entries that are due at once.                    *)
OldByInterval(r) == hour.now - entry[r].attempt >= Interval   (* OldByInterval: as old as the interval *)
Old(r) == hour.now - entry[r].attempt >= MaxAge
Due(r) == Known(r) /\ (entry[r].attempt = Unset \/ entry[r].error \/ Old(r))

Takes(run, entries) ==
  /\ Resting(run)
  /\ todo' = [todo EXCEPT ![run] = entries]
  /\ sees' = [sees EXCEPT ![run] = [r \in Releases |-> IF r \in entries THEN entry[r].version ELSE 0]]
  /\ UNCHANGED <<onSite, entry, link, marks, misses, kept, excused>>

JobRuns ==
  /\ hour.now = hour.due /\ hour' = [hour EXCEPT !.due = @ + Interval]
  /\ Takes("job", {r \in Releases : Due(r)})

RequestRuns == Takes("request", {r \in Releases : Due(r)}) /\ UNCHANGED hour

(* RefreshDirectLinksForName lists the entries of a title, whatever their age.   *)
RequestNames(r) == Known(r) /\ Takes("request", {r}) /\ UNCHANGED hour

(* Each entry in turn: ResolveDirect follows the page to a link, and the link    *)
(* goes to Redis before the entry is marked; an error of Redis is ignored.       *)
Took(run, r) == todo' = [todo EXCEPT ![run] = @ \ {r}]
Resolved(run, r, stored) ==
  /\ marks[run] = NoRelease /\ r \in todo[run] /\ Took(run, r)
  /\ stored \/ misses < MaxMisses
  /\ misses' = IF stored THEN misses ELSE misses + 1
  /\ link' = IF stored THEN [link EXCEPT ![r] = [version |-> sees[run][r], until |-> hour.now + LinkTTL]]
                       ELSE link
  /\ marks' = [marks EXCEPT ![run] = r]
  /\ kept' = IF stored /\ run = "job" THEN kept \cup {r} ELSE kept \ {r}
  /\ sees' = IF stored THEN sees ELSE [sees EXCEPT ![run][r] = 0]
  /\ excused' = IF sees'[run][r] = entry[r].version THEN excused \ {r} ELSE excused \cup {r}
  /\ UNCHANGED <<onSite, entry, hour>>

(* A page that does not resolve marks its entry with the error.                  *)
Unresolvable(run, r) ==
  /\ marks[run] = NoRelease /\ r \in todo[run] /\ Took(run, r)
  /\ misses < MaxMisses /\ misses' = misses + 1
  /\ entry' = [entry EXCEPT ![r].attempt = hour.now, ![r].error = TRUE]
  /\ kept' = kept \ {r}
  /\ UNCHANGED <<onSite, link, sees, marks, hour, excused>>

Mark(run) ==
  LET r == marks[run] IN
  /\ r # NoRelease
  /\ marks' = [marks EXCEPT ![run] = NoRelease]
  /\ entry' = [entry EXCEPT ![r].attempt = hour.now, ![r].error = FALSE]
  /\ excused' = IF sees[run][r] = entry[r].version THEN excused ELSE excused \cup {r}
  /\ UNCHANGED <<onSite, link, todo, sees, hour, misses, kept>>

(* Half an hour passes.  The ticker is on time, a run of the job takes no longer *)
(* than the difference between the interval and the maximum age, and none stops  *)
(* between its two writes for that long.                                         *)
HalfHour ==
  /\ hour.now < EndOfTime /\ hour.now # hour.due
  /\ Resting("job") \/ hour.now < hour.due - MaxAge
  /\ \A run \in Refreshes : marks[run] = NoRelease
  /\ hour' = [hour EXCEPT !.now = @ + 1]
  /\ UNCHANGED <<onSite, entry, link, todo, sees, marks, misses, kept, excused>>

LinkNext ==
  \/ \E r \in Releases : Move(r) \/ SyncEntry(r) \/ RequestNames(r)
  \/ JobRuns \/ RequestRuns \/ HalfHour
  \/ \E run \in Refreshes :
       \/ Mark(run)
       \/ \E r \in Releases : Unresolvable(run, r) \/ \E stored \in BOOLEAN : Resolved(run, r, stored)

LinkSpec == LinkInit /\ [][LinkNext]_linkVars

-----------------------------------------------------------------------------
(* What Scrape can answer with: an entry of the catalog whose link is in Redis.  *)
Served == {r \in Releases : Known(r) /\ link[r].until > hour.now}

LinkTypeOK ==
  /\ \A r \in Releases : entry[r].version \in 0..onSite[r] /\ link[r].version \in 0..onSite[r]
  /\ \A run \in Refreshes : todo[run] \subseteq Releases /\ marks[run] \in Releases \cup {NoRelease}
  /\ kept \subseteq Releases /\ excused \subseteq Releases /\ misses \in 0..MaxMisses

(* The links the job keeps never run out between two of its runs: as long as the *)
(* job was the last to resolve a release, Scrape finds it, at the end of the     *)
(* slowest run as well (atishmkv.go:124-176, the 3.5 hours against 4 and 5).     *)
LinksStay == kept \subseteq Served

(* A release whose page has moved is not taken for a fresh one: its link is of   *)
(* the page the catalog names, or the next refresh takes it up, or one is at it, *)
(* unless a run that had listed it before the sync marked it afterwards          *)
(* (atishmkv_catalog.go:157-187, atishmkv.go:143-176).                           *)
MovedIsDue ==
  \A r \in Releases : Known(r) /\ r \notin excused =>
    \/ link[r].version = entry[r].version
    \/ entry[r].attempt = Unset \/ entry[r].error
    \/ \E run \in Refreshes : r \in todo[run] /\ sees[run][r] = entry[r].version
=============================================================================
