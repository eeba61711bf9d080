--------------------------- MODULE LibraryProofs ---------------------------
(***************************************************************************)
(* What the server stores for its users: covers and their rows, favorites,   *)
(* accounts and sessions, and the torrents of a Real-Debrid account.         *)
(***************************************************************************)
EXTENDS Covers, Favorites, Accounts, Debrid, FiniteSetTheorems, WellFoundedInduction, TLAPS

-----------------------------------------------------------------------------
(* A set of naturals has a least one.                                      *)

LEMMA LeastOfNat ==
  ASSUME NEW S, S \subseteq Nat, S # {}
  PROVE  \E m \in S : \A n \in S : m <= n
<1>1. PICK m \in S : \A n \in S : ~(<<n, m>> \in OpToRel(<, Nat))
  BY WFMin, NatLessThanWellFounded, Zenon
<1>2. \A n \in S : ~(n < m)
  BY <1>1 DEF OpToRel
<1> QED
  BY <1>2

-----------------------------------------------------------------------------
(* Covers: rows that name objects, and the maintenance job.                *)

Temps == {Temp(i) : i \in Images}
Storing == [op : {"manual", "plain", "tpdb", "enriched", "details"}, key : Keys, img : Images,
            at : {"fetch", "read", "write"}, url : Url \cup {None}, keepsPrimary : BOOLEAN]
Kept(o, objs) == o.at = "keep" => o \in objs

RowOK(r, objs) ==
  /\ r \in Row
  /\ Kept(r.key, objs) /\ Kept(r.url, objs) /\ Kept(r.tpdb, objs) /\ Kept(r.details, objs)
SetterOK(s, objs) == s = Rest \/ (s \in Storing /\ Kept(s.url, objs))

(* What the job holds between two of its calls. *)
KeeperOK(j, objs) ==
  \/ j \in [pc : {"idle"}]
  \/ j \in [pc : {"refresh"}, skip : Nat]
  \/ j \in [pc : {"sign"}, key : Keys, obj : Object, skip : Nat] /\ Kept(j.obj, objs)
  \/ j \in [pc : {"backfill"}, after : Keys \cup {-1}]
  \/ j \in [pc : {"fill"}, key : Keys, img : Images]
  \/ j \in [pc : {"record"}, key : Keys, img : Images] /\ Keep(j.img) \in objs
  \/ j \in [pc : {"cleanup"}, left : SUBSET Temps]
  \/ j \in [pc : {"drop"}, obj : Temps, left : SUBSET Temps]

(* The rows a backfill has to reach still lie before it. *)
Ahead ==
  /\ missing \subseteq Keys
  /\ keeper.pc = "backfill" => missing \subseteq PageAfter(keeper.after)
  /\ keeper.pc \in {"fill", "record"} => missing \subseteq Unkeyed /\ \A k \in missing : keeper.key <= k
  /\ keeper.pc \in {"cleanup", "drop"} => missing = {}

CoverInv ==
  /\ rows = [k \in Keys |-> rows[k]] /\ \A k \in Keys : RowOK(rows[k], objects)
  /\ objects \subseteq Object
  /\ setter = [w \in Setters |-> setter[w]] /\ \A w \in Setters : SetterOK(setter[w], objects)
  /\ KeeperOK(keeper, objects)
  /\ Ahead
  /\ budget \in [faults : 0 .. MaxFaults, stores : 0 .. MaxStores]

LEMMA Addresses ==
  /\ \A i \in Images : /\ Raw(i) \in Url /\ Keep(i) \in Object /\ Temp(i) \in Temps
                       /\ Raw(i).at = "raw" /\ Keep(i).at = "keep" /\ Temp(i).at = "temp"
  /\ Temps \subseteq Object /\ Object \subseteq Url /\ None \notin Url /\ None.at = "none"
  /\ \A u \in Url : u.img \in Images
  /\ \A t \in Temps : t.at = "temp"
<1>1. None \notin Url /\ None.at = "none"
  BY DEF None, Url, Object, Raw, Keep, Temp
<1>2. \A u \in Url : u.img \in Images
  BY DEF Url, Object, Raw, Keep, Temp
<1>3. \A i \in Images : Raw(i) \in Url /\ Keep(i) \in Object /\ Temp(i) \in Temps
  BY DEF Url, Object, Temps
<1>4. \A i : Raw(i).at = "raw" /\ Keep(i).at = "keep" /\ Temp(i).at = "temp"
  BY DEF Raw, Keep, Temp
<1>5. Temps \subseteq Object /\ Object \subseteq Url
  BY DEF Url, Object, Temps
<1>6. \A t \in Temps : t.at = "temp"
  BY <1>4 DEF Temps
<1> QED
  BY <1>1, <1>2, <1>3, <1>4, <1>5, <1>6

(* What is not temporary stays in the bucket. *)
LEMMA KeptStays ==
  ASSUME NEW objs, NEW objs2, objs \ Temps \subseteq objs2
  PROVE  /\ \A o : Kept(o, objs) => Kept(o, objs2)
         /\ \A r : RowOK(r, objs) => RowOK(r, objs2)
         /\ \A s : SetterOK(s, objs) => SetterOK(s, objs2)
         /\ \A j : KeeperOK(j, objs) => KeeperOK(j, objs2)
<1>1. \A o : Kept(o, objs) => Kept(o, objs2)
  BY Addresses DEF Kept
<1>2. \A j : KeeperOK(j, objs) => KeeperOK(j, objs2)
  <2> SUFFICES ASSUME NEW j, KeeperOK(j, objs) PROVE KeeperOK(j, objs2)
    OBVIOUS
  <2>1. CASE j \in [pc : {"record"}, key : Keys, img : Images] /\ Keep(j.img) \in objs
    <3>1. Keep(j.img) \notin Temps
      BY <2>1, Addresses
    <3> QED
      BY <2>1, <3>1 DEF KeeperOK
  <2> QED
    BY <1>1, <2>1 DEF KeeperOK
<1> QED
  BY <1>1, <1>2 DEF RowOK, SetterOK

(* A row whose fields are overwritten with addresses that exist. *)
LEMMA RowSet ==
  ASSUME NEW objs, NEW r, RowOK(r, objs), NEW u \in Url \cup {None}, Kept(u, objs),
         NEW o \in Object \cup {None}, Kept(o, objs), NEW s \in {"", "manual", "tpdb", "description"}
  PROVE  /\ RowOK([r EXCEPT !.url = u], objs) /\ RowOK([r EXCEPT !.key = o], objs)
         /\ RowOK([r EXCEPT !.tpdb = u], objs) /\ RowOK([r EXCEPT !.details = u], objs)
         /\ RowOK([r EXCEPT !.source = s], objs)
  BY DEF RowOK, Row

LEMMA EmptyRow == \A objs : RowOK(NoRow, objs)
  BY DEF RowOK, NoRow, Row, Kept, None

LEMMA BudgetFaults ==
  ASSUME budget \in [faults : 0 .. MaxFaults, stores : 0 .. MaxStores], CoverFails \/ CoverSucceeds
  PROVE  budget' \in [faults : 0 .. MaxFaults, stores : 0 .. MaxStores]
<1>1. CASE CoverFails
  <2>1. budget.faults - 1 \in 0 .. MaxFaults
    BY <1>1, CoversBounds DEF CoverFails
  <2> QED
    BY <1>1, <2>1 DEF CoverFails
<1> QED
  BY <1>1 DEF CoverSucceeds

(* While only one row changes, which the backfill then need not reach. *)
LEMMA AheadWithout ==
  ASSUME CoverInv, NEW k, UNCHANGED keeper, missing' = missing \ {k},
         \A j \in Keys : j # k => rows'[j] = rows[j]
  PROVE  Ahead'
<1>1. \A j \in Unkeyed : j # k => j \in Unkeyed'
  BY DEF Unkeyed, Exists
<1> QED
  BY <1>1 DEF CoverInv, Ahead, PageAfter

LEMMA AheadSame ==
  ASSUME CoverInv, UNCHANGED <<rows, keeper, missing>>
  PROVE  Ahead'
  BY DEF CoverInv, Ahead, PageAfter, Unkeyed, Exists

LEMMA StoresInv ==
  ASSUME CoverInv, NEW w \in Setters, NEW op \in {"manual", "plain", "tpdb", "enriched", "details"},
         NEW k \in Keys, NEW i \in Images, Stores(w, op, k, i)
  PROVE  CoverInv'
<1> DEFINE s == [op |-> op, key |-> k, img |-> i, at |-> "fetch", url |-> None, keepsPrimary |-> FALSE]
<1>1. UNCHANGED <<rows, objects, keeper, missing>> /\ setter' = [setter EXCEPT ![w] = s]
  BY DEF Stores
<1>2. SetterOK(s, objects)
  BY DEF SetterOK, Storing, Kept, None
<1>3. budget' \in [faults : 0 .. MaxFaults, stores : 0 .. MaxStores]
  <2>1. /\ budget \in [faults : 0 .. MaxFaults, stores : 0 .. MaxStores]
        /\ budget.stores > 0 /\ budget' = [budget EXCEPT !.stores = @ - 1]
    BY DEF Stores, CoverInv
  <2>2. budget.stores - 1 \in 0 .. MaxStores
    BY <2>1, CoversBounds
  <2> QED
    BY <2>1, <2>2
<1> HIDE DEF s
<1>4. setter' = [v \in Setters |-> setter'[v]] /\ \A v \in Setters : SetterOK(setter'[v], objects')
  BY <1>1, <1>2 DEF CoverInv
<1> QED
  BY <1>1, <1>3, <1>4, AheadSame DEF CoverInv

(* A cover that resolves is an address. *)
LEMMA ResolvedIsUrl ==
  ASSUME CoverInv, NEW k \in Keys
  PROVE  Resolved(k) \in Url \cup {None}
<1> DEFINE r == rows[k]
           first == <<IF r.source = "manual" THEN Primary(r) ELSE None,
                      PosterUrl(k),
                      IF IsUpgraded(r.source) THEN Primary(r) ELSE None,
                      r.tpdb, r.details, Primary(r)>>
           at == {n \in 1 .. 6 : first[n] # None}
<1>1. r \in Row
  BY DEF CoverInv, RowOK
<1>2. Primary(r) \in Url \cup {None} /\ PosterUrl(k) \in Url \cup {None}
  BY <1>1, PostersAssumption, Addresses DEF Primary, PosterUrl, Row
<1>3. r.tpdb \in Url \cup {None} /\ r.details \in Url \cup {None}
  BY <1>1 DEF Row
<1>4. \A n \in 1 .. 6 : first[n] \in Url \cup {None}
  <2> HIDE DEF r
  <2> SUFFICES ASSUME NEW n \in 1 .. 6 PROVE first[n] \in Url \cup {None}
    OBVIOUS
  <2>1. n = 1 \/ n = 2 \/ n = 3 \/ n = 4 \/ n = 5 \/ n = 6
    OBVIOUS
  <2>2. CASE n = 1
    BY <1>2, <2>2
  <2>3. CASE n = 2
    BY <1>2, <2>3
  <2>4. CASE n = 3
    BY <1>2, <2>4
  <2>5. CASE n = 4
    BY <1>3, <2>5
  <2>6. CASE n = 5
    BY <1>3, <2>6
  <2>7. CASE n = 6
    BY <1>2, <2>7
  <2> QED
    BY <2>1, <2>2, <2>3, <2>4, <2>5, <2>6, <2>7
<1>5. Resolved(k) = IF at = {} THEN None ELSE first[CHOOSE n \in at : \A m \in at : n <= m]
  BY DEF Resolved
<1> HIDE DEF first
<1>6. CASE at # {}
  <2>1. \E n \in at : \A m \in at : n <= m
    BY <1>6, LeastOfNat
  <2>2. (CHOOSE n \in at : \A m \in at : n <= m) \in at
    BY <2>1
  <2> QED
    BY <1>4, <1>5, <1>6, <2>2
<1> QED
  BY <1>5, <1>6

LEMMA DecidesInv ==
  ASSUME CoverInv, NEW w \in Setters, Decides(w)
  PROVE  CoverInv'
<1>1. ASSUME NEW k \in Keys, PromoteFavoriteCover(w, k) PROVE CoverInv'
  <2>1. Resolved(k).img \in Images
    BY <1>1, ResolvedIsUrl, Addresses DEF PromoteFavoriteCover
  <2> QED
    BY <1>1, <2>1, StoresInv DEF PromoteFavoriteCover
<1>2. ASSUME NEW k \in Keys, PosterUrl(k) # None PROVE Posters[k].img \in Images
  BY <1>2, PostersAssumption DEF PosterUrl
<1>3. \A s : Enriched(s) \in {"manual", "plain", "tpdb", "enriched", "details"}
  BY DEF Enriched
<1>4. ASSUME NEW k \in Keys, UpgradeCover(w, k) PROVE CoverInv'
  BY <1>2, <1>3, <1>4, StoresInv DEF UpgradeCover, WouldUpgrade
<1>5. ASSUME NEW k \in Keys, NEW i \in Images, NEW force \in BOOLEAN, DescribeCover(w, k, i, force)
      PROVE  CoverInv'
  BY <1>2, <1>3, <1>5, StoresInv DEF DescribeCover
<1>6. ASSUME NEW k \in Keys, NEW i \in Images,
             StoreCoverImage(w, k, i) \/ AddFavoriteCover(w, k, i) \/ ScrapeCover(w, k, i) \/ QueryCover(w, k, i)
      PROVE  CoverInv'
  BY <1>6, StoresInv DEF StoreCoverImage, AddFavoriteCover, ScrapeCover, QueryCover
<1> QED
  BY <1>1, <1>4, <1>5, <1>6 DEF Decides

LEMMA SetterIs ==
  ASSUME CoverInv, NEW w \in Setters, setter[w] # Rest
  PROVE  setter[w] \in Storing /\ Kept(setter[w].url, objects)
  BY DEF CoverInv, SetterOK

(* The object is in the bucket before a row can name it. *)
LEMMA StoreImageInv ==
  ASSUME CoverInv, NEW w \in Setters, StoreImage(w)
  PROVE  CoverInv'
<1> DEFINE s == setter[w]
           good == [s EXCEPT !.at = AfterUpload(w), !.url = Keep(s.img)]
           site == [s EXCEPT !.at = AfterUpload(w), !.url = Raw(s.img)]
<1>1. /\ s \in Storing /\ UNCHANGED <<rows, keeper, missing, budget>>
      /\ AfterUpload(w) \in {"read", "write"} /\ s.img \in Images
  BY SetterIs DEF StoreImage, AfterUpload, Storing
<1>2. good \in Storing /\ good.url = Keep(s.img) /\ site \in Storing /\ site.url = Raw(s.img)
  BY <1>1, Addresses DEF Storing
<1>3. PICK g : /\ setter' = [setter EXCEPT ![w] = g] /\ SetterOK(g, objects')
               /\ objects' = objects \/ objects' = objects \cup {Keep(s.img)}
  <2>1. CASE Uploaded(s.img) /\ Goes(w, good)
    <3>1. SetterOK(good, objects') /\ setter' = [setter EXCEPT ![w] = good]
          /\ objects' = objects \cup {Keep(s.img)}
      BY <1>2, <2>1 DEF SetterOK, Kept, Uploaded, Goes
    <3> HIDE DEF good
    <3> QED
      BY <3>1
  <2>2. CASE Goes(w, site) /\ UNCHANGED objects
    <3>1. SetterOK(site, objects') /\ setter' = [setter EXCEPT ![w] = site]
      BY <1>1, <1>2, <2>2, Addresses DEF SetterOK, Kept, Goes
    <3> HIDE DEF site
    <3> QED
      BY <2>2, <3>1
  <2>3. CASE Goes(w, Rest) /\ UNCHANGED objects
    BY <2>3 DEF SetterOK, Goes
  <2> QED
    BY <2>1, <2>2, <2>3 DEF StoreImage
<1>4. objects \subseteq objects' /\ objects' \subseteq Object
  BY <1>1, <1>3, Addresses DEF CoverInv
<1>5. setter' = [v \in Setters |-> setter'[v]] /\ \A v \in Setters : SetterOK(setter'[v], objects')
  BY <1>3, <1>4, KeptStays DEF CoverInv
<1>6. KeeperOK(keeper', objects') /\ \A k \in Keys : RowOK(rows'[k], objects')
  BY <1>1, <1>4, KeptStays DEF CoverInv
<1> QED
  BY <1>1, <1>4, <1>5, <1>6, AheadSame DEF CoverInv

LEMMA ReadRowInv ==
  ASSUME CoverInv, NEW w \in Setters, ReadRow(w)
  PROVE  CoverInv'
<1> DEFINE s == setter[w]
<1>1. s \in Storing /\ Kept(s.url, objects) /\ UNCHANGED <<rows, objects, keeper, missing>>
  BY SetterIs DEF ReadRow
<1>2. PICK b \in BOOLEAN : setter' = [setter EXCEPT ![w] = [s EXCEPT !.at = "write", !.keepsPrimary = b]]
  <2>1. s.keepsPrimary \in BOOLEAN /\ [s EXCEPT !.at = "write"] = [s EXCEPT !.at = "write", !.keepsPrimary = s.keepsPrimary]
    BY <1>1 DEF Storing
  <2> QED
    BY <2>1 DEF ReadRow, Goes
<1>3. SetterOK([s EXCEPT !.at = "write", !.keepsPrimary = b], objects)
  BY <1>1 DEF SetterOK, Storing
<1>4. setter' = [v \in Setters |-> setter'[v]] /\ \A v \in Setters : SetterOK(setter'[v], objects')
  BY <1>1, <1>2, <1>3 DEF CoverInv
<1>5. budget' \in [faults : 0 .. MaxFaults, stores : 0 .. MaxStores]
  BY BudgetFaults DEF ReadRow, CoverInv
<1> QED
  BY <1>1, <1>4, <1>5, AheadSame DEF CoverInv

LEMMA UpsertedOK ==
  ASSUME CoverInv, NEW w \in Setters, setter[w] # Rest, NEW r, RowOK(r, objects)
  PROVE  RowOK(Upserted(w, r), objects)
<1> DEFINE s == setter[w]
           u == s.url
           o == KeyOr(w, r.key)
<1>1. s \in Storing /\ Kept(u, objects)
  BY SetterIs
<1>2. u \in Url \cup {None}
  BY <1>1 DEF Storing
<1>3. o \in Object \cup {None} /\ Kept(o, objects)
  <2>1. r.key \in Object \cup {None} /\ Kept(r.key, objects)
    BY DEF RowOK, Row
  <2>2. u.at = "keep" => u \in Object
    BY <1>1 DEF Kept, CoverInv
  <2> QED
    BY <1>1, <2>1, <2>2 DEF KeyOr
<1>4. /\ [r EXCEPT !.url = u, !.key = o] = [[r EXCEPT !.url = u] EXCEPT !.key = o]
      /\ [r EXCEPT !.url = u, !.key = o, !.source = "manual"]
           = [[[r EXCEPT !.url = u] EXCEPT !.key = o] EXCEPT !.source = "manual"]
      /\ [r EXCEPT !.tpdb = u, !.url = u, !.key = o, !.source = "tpdb"]
           = [[[[r EXCEPT !.tpdb = u] EXCEPT !.url = u] EXCEPT !.key = o] EXCEPT !.source = "tpdb"]
      /\ [r EXCEPT !.details = u, !.url = u, !.source = "description"]
           = [[[r EXCEPT !.details = u] EXCEPT !.url = u] EXCEPT !.source = "description"]
  OBVIOUS
<1>5. Upserted(w, r) \in {[r EXCEPT !.url = u, !.key = o],
                          [r EXCEPT !.url = u, !.key = o, !.source = "manual"],
                          [r EXCEPT !.tpdb = u],
                          [r EXCEPT !.tpdb = u, !.url = u, !.key = o, !.source = "tpdb"],
                          [r EXCEPT !.details = u],
                          [r EXCEPT !.details = u, !.url = u, !.source = "description"]}
  BY <1>1 DEF Upserted, Storing
<1> HIDE DEF u, o
<1>6. ASSUME NEW q, RowOK(q, objects)
      PROVE  /\ RowOK([q EXCEPT !.url = u], objects) /\ RowOK([q EXCEPT !.key = o], objects)
             /\ RowOK([q EXCEPT !.tpdb = u], objects) /\ RowOK([q EXCEPT !.details = u], objects)
             /\ \A t \in {"", "manual", "tpdb", "description"} : RowOK([q EXCEPT !.source = t], objects)
  BY <1>1, <1>2, <1>3, <1>6, RowSet DEF u
<1>7. /\ RowOK([r EXCEPT !.url = u, !.key = o], objects)
      /\ RowOK([r EXCEPT !.url = u, !.key = o, !.source = "manual"], objects)
  BY <1>4, <1>6
<1>8. RowOK([r EXCEPT !.tpdb = u, !.url = u, !.key = o, !.source = "tpdb"], objects)
  BY <1>4, <1>6
<1>9. RowOK([r EXCEPT !.details = u, !.url = u, !.source = "description"], objects)
  BY <1>4, <1>6
<1> QED
  BY <1>5, <1>6, <1>7, <1>8, <1>9

LEMMA WriteRowInv ==
  ASSUME CoverInv, NEW w \in Setters, WriteRow(w)
  PROVE  CoverInv'
<1> DEFINE k == setter[w].key
<1>1. setter[w] # Rest /\ setter[w] \in Storing /\ k \in Keys
  BY SetterIs DEF WriteRow, Storing
<1>2. UNCHANGED <<objects, keeper>> /\ setter' = [setter EXCEPT ![w] = Rest]
  BY DEF WriteRow, Goes
<1>3. \/ rows' = [rows EXCEPT ![k] = Upserted(w, @)] /\ missing' = missing \ {k}
      \/ rows' = rows /\ missing' = missing
  BY DEF WriteRow
<1>4. RowOK(Upserted(w, rows[k]), objects)
  BY <1>1, UpsertedOK DEF CoverInv
<1>5. rows' = [j \in Keys |-> rows'[j]] /\ \A j \in Keys : RowOK(rows'[j], objects')
  BY <1>1, <1>2, <1>3, <1>4 DEF CoverInv
<1>6. setter' = [v \in Setters |-> setter'[v]] /\ \A v \in Setters : SetterOK(setter'[v], objects')
  BY <1>2 DEF CoverInv, SetterOK
<1>7. Ahead'
  <2> HIDE DEF k
  <2>1. CASE rows' = [rows EXCEPT ![k] = Upserted(w, @)] /\ missing' = missing \ {k}
    <3>1. \A j \in Keys : j # k => rows'[j] = rows[j]
      BY <2>1 DEF CoverInv
    <3> QED
      BY <1>2, <2>1, <3>1, AheadWithout
  <2> QED
    BY <1>2, <1>3, <2>1, AheadSame
<1>8. budget' \in [faults : 0 .. MaxFaults, stores : 0 .. MaxStores]
  BY BudgetFaults DEF WriteRow, CoverInv
<1> QED
  BY <1>2, <1>5, <1>6, <1>7, <1>8 DEF CoverInv

(* What is left when one row is replaced and the rest of the state of the setters *)
(* and of the bucket stays.                                                         *)
LEMMA RowReplaced ==
  ASSUME CoverInv, UNCHANGED <<objects, setter>>, NEW k \in Keys, NEW r, RowOK(r, objects),
         rows' = [rows EXCEPT ![k] = r],
         KeeperOK(keeper', objects), Ahead',
         budget' \in [faults : 0 .. MaxFaults, stores : 0 .. MaxStores]
  PROVE  CoverInv'
<1>1. rows' = [j \in Keys |-> rows'[j]] /\ \A j \in Keys : RowOK(rows'[j], objects)
  BY DEF CoverInv
<1> QED
  BY <1>1 DEF CoverInv

LEMMA RowsStay ==
  ASSUME CoverInv, UNCHANGED <<objects, setter, rows>>,
         KeeperOK(keeper', objects), Ahead',
         budget' \in [faults : 0 .. MaxFaults, stores : 0 .. MaxStores]
  PROVE  CoverInv'
  BY DEF CoverInv

LEMMA DeleteCoverImageInv ==
  ASSUME CoverInv, NEW k \in Keys, DeleteCoverImage(k)
  PROVE  CoverInv'
<1>1. /\ rows' = [rows EXCEPT ![k] = NoRow] /\ missing' = missing \ {k}
      /\ UNCHANGED <<objects, setter, keeper, budget>>
  BY DEF DeleteCoverImage
<1>2. \A j \in Keys : j # k => rows'[j] = rows[j]
  BY <1>1 DEF CoverInv
<1>3. Ahead'
  BY <1>1, <1>2, AheadWithout
<1> QED
  BY <1>1, <1>3, EmptyRow, RowReplaced DEF CoverInv

LEMMA LeastIs ==
  ASSUME NEW S, S \subseteq Keys, S # {}
  PROVE  Least(S) \in S /\ \A j \in S : Least(S) <= j
<1>1. \E k \in S : \A j \in S : k <= j
  BY LeastOfNat, CoversAssumption
<1> QED
  BY <1>1 DEF Least

(* The job at the places where nothing is demanded of `missing`. *)
LEMMA NothingAhead ==
  ASSUME missing' \subseteq Keys, keeper'.pc \in {"idle", "refresh", "sign"}
  PROVE  Ahead'
  BY DEF Ahead

LEMMA RunMaintenanceInv ==
  ASSUME CoverInv, RunMaintenance
  PROVE  CoverInv'
<1>1. keeper' = [pc |-> "refresh", skip |-> 0] /\ UNCHANGED <<rows, objects, setter, missing, budget>>
  BY DEF RunMaintenance, Turns
<1>2. KeeperOK(keeper', objects) /\ keeper'.pc = "refresh"
  BY <1>1 DEF KeeperOK
<1>3. Ahead'
  BY <1>1, <1>2, NothingAhead DEF CoverInv, Ahead
<1> QED
  BY <1>1, <1>2, <1>3, RowsStay DEF CoverInv

LEMMA KeyedObject ==
  ASSUME CoverInv, NEW k \in Keyed
  PROVE  k \in Keys /\ rows[k].key \in Object /\ Kept(rows[k].key, objects)
  BY DEF Keyed, CoverInv, RowOK, Row

(* A backfill starts with every row without an object before it. *)
LEMMA RefreshPageInv ==
  ASSUME CoverInv, RefreshPage
  PROVE  CoverInv'
<1> DEFINE left == AfterSkip(Keyed, keeper.skip)
           k == Least(left)
<1>1. UNCHANGED <<rows, objects, setter>> /\ budget' \in [faults : 0 .. MaxFaults, stores : 0 .. MaxStores]
  BY BudgetFaults DEF RefreshPage, CoverInv
<1>2. keeper \in [pc : {"refresh"}, skip : Nat]
  BY DEF RefreshPage, CoverInv, KeeperOK
<1>3. CASE left # {} /\ keeper' = [pc |-> "sign", key |-> k, obj |-> rows[k].key, skip |-> keeper.skip + 1]
           /\ missing' = missing
  <2>1. left \subseteq Keyed /\ Keyed \subseteq Keys
    BY DEF AfterSkip, Keyed
  <2>2. k \in Keyed
    BY <1>3, <2>1, LeastIs
  <2>3. keeper.skip + 1 \in Nat
    BY <1>2
  <2>4. KeeperOK(keeper', objects) /\ keeper'.pc = "sign"
    <3> HIDE DEF k
    <3> QED
      BY <1>3, <2>2, <2>3, KeyedObject DEF KeeperOK
  <2>5. Ahead'
    BY <1>3, <2>4, NothingAhead DEF CoverInv, Ahead
  <2> QED
    BY <1>1, <2>4, <2>5, RowsStay
<1>4. CASE keeper' = [pc |-> "backfill", after |-> -1] /\ missing' = Unkeyed
  <2>1. KeeperOK(keeper', objects) /\ keeper'.pc = "backfill" /\ keeper'.after = -1
    BY <1>4 DEF KeeperOK
  <2>2. \A j \in Keys : j > -1
    BY CoversAssumption
  <2>3. Unkeyed' = Unkeyed /\ Unkeyed \subseteq Keys
    BY <1>1 DEF Unkeyed, Exists
  <2>4. missing' \subseteq Unkeyed' /\ \A j \in missing' : j > -1
    BY <1>4, <2>2, <2>3
  <2>5. missing' \subseteq PageAfter(keeper.after)'
    BY <2>1, <2>4 DEF PageAfter
  <2>6. Ahead'
    BY <2>1, <2>3, <2>4, <2>5 DEF Ahead
  <2> QED
    BY <1>1, <2>1, <2>6, RowsStay
<1>5. CASE keeper' = [pc |-> "idle"] /\ missing' = missing
  <2>1. KeeperOK(keeper', objects) /\ keeper'.pc = "idle"
    BY <1>5 DEF KeeperOK
  <2>2. Ahead'
    BY <1>5, <2>1, NothingAhead DEF CoverInv, Ahead
  <2> QED
    BY <1>1, <2>1, <2>2, RowsStay
<1> QED
  BY <1>3, <1>4, <1>5 DEF RefreshPage, Turns, Unkeyed

LEMMA SignRowInv ==
  ASSUME CoverInv, SignRow
  PROVE  CoverInv'
<1> DEFINE k == keeper.key
           r == [rows[k] EXCEPT !.url = keeper.obj]
<1>1. /\ UNCHANGED <<objects, setter, missing>> /\ keeper' = [pc |-> "refresh", skip |-> keeper.skip]
      /\ budget' \in [faults : 0 .. MaxFaults, stores : 0 .. MaxStores]
  BY BudgetFaults DEF SignRow, Turns, CoverInv
<1>2. keeper \in [pc : {"sign"}, key : Keys, obj : Object, skip : Nat] /\ Kept(keeper.obj, objects)
  BY DEF SignRow, CoverInv, KeeperOK
<1>3. KeeperOK(keeper', objects) /\ keeper'.pc = "refresh"
  BY <1>1, <1>2 DEF KeeperOK
<1>4. Ahead'
  BY <1>1, <1>3, NothingAhead DEF CoverInv, Ahead
<1>5. rows' = rows \/ rows' = [rows EXCEPT ![k] = r]
  BY DEF SignRow
<1>6. RowOK(r, objects) /\ k \in Keys
  BY <1>2, Addresses DEF CoverInv, RowOK, Row
<1> HIDE DEF r, k
<1> QED
  BY <1>1, <1>3, <1>4, <1>5, <1>6, RowReplaced, RowsStay

LEMMA BackfillPageInv ==
  ASSUME CoverInv, BackfillPage
  PROVE  CoverInv'
<1> DEFINE left == PageAfter(keeper.after)
           k == Least(left)
           page == [pc |-> "fill", key |-> k, img |-> rows[k].url.img]
<1>1. /\ UNCHANGED <<rows, objects, setter, missing>>
      /\ budget' \in [faults : 0 .. MaxFaults, stores : 0 .. MaxStores]
  BY BudgetFaults DEF BackfillPage, CoverInv
<1>2. missing \subseteq left /\ left \subseteq Unkeyed /\ Unkeyed \subseteq Keys
  BY DEF BackfillPage, CoverInv, Ahead, PageAfter, Unkeyed
<1>3. Unkeyed' = Unkeyed
  BY <1>1 DEF Unkeyed, Exists
<1>4. CASE left # {} /\ keeper' = page
  <2>1. k \in left /\ \A j \in left : k <= j
    BY <1>2, <1>4, LeastIs
  <2>2. rows[k].url.img \in Images /\ k \in Keys
    BY <1>2, <2>1, Addresses DEF Unkeyed, CoverInv, RowOK, Row
  <2>3. keeper'.pc = "fill" /\ keeper'.key = k
    BY <1>4
  <2>4. KeeperOK(keeper', objects)
    BY <1>4, <2>2 DEF KeeperOK
  <2> HIDE DEF page, k, left
  <2>5. missing' \subseteq Unkeyed' /\ missing' \subseteq Keys /\ \A j \in missing' : k <= j
    BY <1>1, <1>2, <1>3, <2>1
  <2>6. Ahead'
    BY <2>3, <2>5 DEF Ahead
  <2> QED
    BY <1>1, <2>4, <2>6, RowsStay
<1>5. CASE left = {} /\ keeper' = [pc |-> "cleanup", left |-> objects \cap {Temp(i) : i \in Images}]
  <2>1. KeeperOK(keeper', objects) /\ keeper'.pc = "cleanup"
    BY <1>5 DEF KeeperOK, Temps
  <2>2. Ahead'
    BY <1>1, <1>2, <1>5, <2>1 DEF Ahead
  <2> QED
    BY <1>1, <2>1, <2>2, RowsStay
<1>6. CASE keeper' = [pc |-> "idle"]
  <2>1. KeeperOK(keeper', objects) /\ keeper'.pc = "idle"
    BY <1>6 DEF KeeperOK
  <2>2. Ahead'
    BY <1>1, <2>1, NothingAhead DEF CoverInv, Ahead
  <2> QED
    BY <1>1, <2>1, <2>2, RowsStay
<1> QED
  BY <1>4, <1>5, <1>6 DEF BackfillPage, Turns

(* After a row is done or left, the backfill goes on behind it. *)
LEMMA BehindRow ==
  ASSUME CoverInv, keeper.pc \in {"fill", "record"}, missing' = missing \ {keeper.key},
         keeper' = [pc |-> "backfill", after |-> keeper.key],
         \A j \in Keys : j # keeper.key => rows'[j] = rows[j]
  PROVE  Ahead' /\ KeeperOK(keeper', objects)
<1> DEFINE k == keeper.key
<1>1. k \in Keys
  BY DEF CoverInv, KeeperOK
<1>2. missing \subseteq Keys /\ missing \subseteq Unkeyed /\ \A j \in missing : k <= j
  BY DEF CoverInv, Ahead
<1>3. \A j \in Unkeyed : j # k => j \in Unkeyed'
  BY DEF Unkeyed, Exists
<1>4. keeper'.pc = "backfill" /\ keeper'.after = k /\ KeeperOK(keeper', objects)
  BY <1>1 DEF KeeperOK
<1> HIDE DEF k
<1>5. \A j \in missing' : j \in Keys /\ j \in Unkeyed' /\ j > k
  <2>1. \A j \in missing : j # k => j > k
    BY <1>1, <1>2, CoversAssumption
  <2> QED
    BY <1>2, <1>3, <2>1 DEF k
<1>6. missing' \subseteq PageAfter(keeper.after)'
  BY <1>4, <1>5 DEF PageAfter
<1> QED
  BY <1>4, <1>5, <1>6 DEF Ahead, PageAfter

LEMMA FillImageInv ==
  ASSUME CoverInv, FillImage
  PROVE  CoverInv'
<1>1. keeper \in [pc : {"fill"}, key : Keys, img : Images] /\ UNCHANGED <<rows, setter, budget>>
  BY DEF FillImage, CoverInv, KeeperOK
<1>2. CASE /\ objects' = objects \cup {Keep(keeper.img)} /\ keeper' = [keeper EXCEPT !.pc = "record"]
           /\ missing' = missing
  <2>1. keeper' \in [pc : {"record"}, key : Keys, img : Images] /\ keeper'.key = keeper.key
        /\ keeper'.img = keeper.img
    BY <1>1, <1>2
  <2>2. KeeperOK(keeper', objects')
    BY <1>2, <2>1 DEF KeeperOK
  <2>3. Ahead'
    BY <1>1, <1>2, <2>1 DEF CoverInv, Ahead, Unkeyed, Exists
  <2>4. objects' \subseteq Object
    BY <1>1, <1>2, Addresses DEF CoverInv
  <2>5. /\ \A k \in Keys : RowOK(rows'[k], objects')
        /\ \A w \in Setters : SetterOK(setter'[w], objects')
    BY <1>1, <1>2, KeptStays DEF CoverInv
  <2> QED
    BY <1>1, <2>2, <2>3, <2>4, <2>5 DEF CoverInv
<1>3. CASE /\ keeper' = [pc |-> "backfill", after |-> keeper.key] /\ missing' = missing \ {keeper.key}
           /\ UNCHANGED objects
  BY <1>1, <1>3, BehindRow, RowsStay DEF CoverInv
<1> QED
  BY <1>2, <1>3 DEF FillImage, Turns

LEMMA RecordObjectInv ==
  ASSUME CoverInv, RecordObject
  PROVE  CoverInv'
<1> DEFINE k == keeper.key
           o == Keep(keeper.img)
           r == [rows[k] EXCEPT !.key = o, !.url = o]
<1>1. /\ keeper \in [pc : {"record"}, key : Keys, img : Images] /\ o \in objects
      /\ UNCHANGED <<objects, setter>> /\ missing' = missing \ {k}
      /\ keeper' = [pc |-> "backfill", after |-> k]
  BY DEF RecordObject, Turns, CoverInv, KeeperOK
<1>2. budget' \in [faults : 0 .. MaxFaults, stores : 0 .. MaxStores]
  BY BudgetFaults DEF RecordObject, CoverInv
<1>3. rows' = rows \/ rows' = [rows EXCEPT ![k] = r]
  <2>1. [rows EXCEPT ![k].key = o, ![k].url = o] = [rows EXCEPT ![k] = r]
    BY <1>1 DEF CoverInv
  <2> QED
    BY <2>1 DEF RecordObject
<1>4. RowOK(r, objects) /\ k \in Keys
  <2>1. o \in Object /\ Kept(o, objects) /\ k \in Keys
    BY <1>1, Addresses DEF Kept
  <2>2. RowOK([[rows[k] EXCEPT !.key = o] EXCEPT !.url = o], objects)
    BY <2>1, Addresses DEF CoverInv, RowOK, Row
  <2> QED
    BY <2>1, <2>2
<1> HIDE DEF r
<1>5. \A j \in Keys : j # k => rows'[j] = rows[j]
  BY <1>3 DEF CoverInv
<1>6. Ahead' /\ KeeperOK(keeper', objects)
  BY <1>1, <1>5, BehindRow
<1> QED
  BY <1>1, <1>2, <1>3, <1>4, <1>6, RowReplaced, RowsStay

LEMMA CleanObjectInv ==
  ASSUME CoverInv, NEW o, CleanObject(o)
  PROVE  CoverInv'
<1>1. /\ keeper \in [pc : {"cleanup"}, left : SUBSET Temps] /\ o \in keeper.left
      /\ UNCHANGED <<rows, setter, missing>>
  BY DEF CleanObject, CoverInv, KeeperOK
<1>2. budget' \in [faults : 0 .. MaxFaults, stores : 0 .. MaxStores]
  BY BudgetFaults DEF CleanObject, CoverInv
<1>3. /\ objects' = objects \ {o} \/ objects' = objects
      /\ \/ keeper' = [pc |-> "drop", obj |-> o, left |-> keeper.left \ {o}]
         \/ keeper' = [keeper EXCEPT !.left = @ \ {o}]
  BY DEF CleanObject, Turns
<1>4. KeeperOK(keeper', objects') /\ keeper'.pc \in {"cleanup", "drop"}
  BY <1>1, <1>3 DEF KeeperOK
<1>5. Ahead'
  BY <1>1, <1>4 DEF CoverInv, Ahead
<1>6. objects \ Temps \subseteq objects' /\ objects' \subseteq Object
  BY <1>1, <1>3 DEF CoverInv
<1>7. /\ \A k \in Keys : RowOK(rows'[k], objects')
      /\ \A w \in Setters : SetterOK(setter'[w], objects')
  BY <1>1, <1>6, KeptStays DEF CoverInv
<1> QED
  BY <1>1, <1>2, <1>4, <1>5, <1>6, <1>7 DEF CoverInv

LEMMA DropRowInv ==
  ASSUME CoverInv, DropRow
  PROVE  CoverInv'
<1>1. /\ keeper \in [pc : {"drop"}, obj : Temps, left : SUBSET Temps]
      /\ UNCHANGED <<objects, setter, missing>> /\ keeper' = [pc |-> "cleanup", left |-> keeper.left]
  BY DEF DropRow, Turns, CoverInv, KeeperOK
<1>2. budget' \in [faults : 0 .. MaxFaults, stores : 0 .. MaxStores]
  BY BudgetFaults DEF DropRow, CoverInv
<1>3. KeeperOK(keeper', objects) /\ keeper'.pc = "cleanup"
  BY <1>1 DEF KeeperOK
<1>4. Ahead'
  BY <1>1, <1>3 DEF CoverInv, Ahead
<1>5. rows' = rows \/ \E k \in Keys : rows' = [rows EXCEPT ![k] = NoRow]
  BY DEF DropRow
<1> QED
  BY <1>1, <1>2, <1>3, <1>4, <1>5, EmptyRow, RowReplaced, RowsStay

LEMMA MaintenanceEndsInv ==
  ASSUME CoverInv, MaintenanceEnds
  PROVE  CoverInv'
<1>1. UNCHANGED <<rows, objects, setter, budget>> /\ keeper' = [pc |-> "idle"] /\ missing' = {}
  BY DEF MaintenanceEnds, Turns
<1>2. KeeperOK(keeper', objects) /\ keeper'.pc = "idle"
  BY <1>1 DEF KeeperOK
<1>3. Ahead'
  BY <1>1, <1>2, NothingAhead
<1> QED
  BY <1>1, <1>2, <1>3, RowsStay DEF CoverInv

LEMMA CoverInitInv == CoverInit => CoverInv
<1> SUFFICES ASSUME CoverInit PROVE CoverInv
  OBVIOUS
<1>1. /\ rows = [k \in Keys |-> rows[k]] /\ setter = [w \in Setters |-> setter[w]]
      /\ \A w \in Setters : setter[w] = Rest
      /\ keeper = [pc |-> "idle"] /\ missing = {}
      /\ objects = {rows[k].key : k \in Keys} \ {None}
  BY DEF CoverInit
<1>2. ASSUME NEW k \in Keys PROVE RowOK(rows[k], objects) /\ rows[k].key \in Object \cup {None}
  <2>1. \/ rows[k] = NoRow
        \/ \E i \in Images : rows[k] = [NoRow EXCEPT !.url = Raw(i)]
        \/ \E i \in Images : rows[k] = [[NoRow EXCEPT !.url = Temp(i)] EXCEPT !.key = Temp(i)]
    BY DEF CoverInit
  <2>2. \A i \in Images : /\ Raw(i) \in Url /\ Temp(i) \in Url /\ Temp(i) \in Object
                          /\ Kept(Raw(i), objects) /\ Kept(Temp(i), objects)
    BY Addresses DEF Kept
  <2>3. \A i \in Images : /\ RowOK([NoRow EXCEPT !.url = Raw(i)], objects)
                          /\ RowOK([NoRow EXCEPT !.url = Temp(i)], objects)
    BY <2>2, EmptyRow, RowSet
  <2>4. \A i \in Images : RowOK([[NoRow EXCEPT !.url = Temp(i)] EXCEPT !.key = Temp(i)], objects)
    BY <2>2, <2>3, RowSet
  <2>5. RowOK(rows[k], objects)
    BY <2>1, <2>3, <2>4, EmptyRow
  <2> QED
    BY <2>5 DEF RowOK, Row
<1>3. objects \subseteq Object
  BY <1>1, <1>2
<1>4. KeeperOK(keeper, objects) /\ keeper.pc = "idle"
  BY <1>1 DEF KeeperOK
<1>5. Ahead
  BY <1>1, <1>4 DEF Ahead
<1>6. budget \in [faults : 0 .. MaxFaults, stores : 0 .. MaxStores]
  <2>1. budget = [faults |-> MaxFaults, stores |-> MaxStores]
    BY DEF CoverInit
  <2>2. MaxFaults \in 0 .. MaxFaults /\ MaxStores \in 0 .. MaxStores
    BY CoversBounds
  <2> QED
    BY <2>1, <2>2
<1> QED
  BY <1>1, <1>2, <1>3, <1>4, <1>5, <1>6 DEF CoverInv, SetterOK

LEMMA CoverStepInv == CoverInv /\ [CoverNext]_coverVars => CoverInv'
<1> SUFFICES ASSUME CoverInv, [CoverNext]_coverVars PROVE CoverInv'
  OBVIOUS
<1>1. CASE UNCHANGED coverVars
  BY <1>1, AheadSame DEF coverVars, CoverInv
<1>2. CASE Maintenance
  BY <1>2, RunMaintenanceInv, RefreshPageInv, SignRowInv, BackfillPageInv, FillImageInv, RecordObjectInv,
     CleanObjectInv, DropRowInv, MaintenanceEndsInv DEF Maintenance
<1> QED
  BY <1>1, <1>2, DecidesInv, StoreImageInv, ReadRowInv, WriteRowInv, DeleteCoverImageInv DEF CoverNext

LEMMA CoverInvariance == CoverSpec => []CoverInv
  BY CoverInitInv, CoverStepInv, PTL DEF CoverSpec

(* Every variable of the cover storage has its type. *)
THEOREM CoverTypeCorrect == CoverSpec => []CoverTypeOK
<1>1. CoverInv => CoverTypeOK
  BY DEF CoverInv, CoverTypeOK, RowOK, Ahead
<1> QED
  BY <1>1, CoverInvariance, PTL

(* However setters, deletions and the job interleave and whatever fails, a row     *)
(* names permanent objects only if they are in the bucket (storage.go:250-340).     *)
THEOREM KeyedObjectsStay == CoverSpec => []KeyedObjectsExist
<1>1. CoverInv => KeyedObjectsExist
  BY DEF CoverInv, KeyedObjectsExist, RowOK, Kept
<1> QED
  BY <1>1, CoverInvariance, PTL

(* For any set of keys, a backfill that reads all its pages has met every row that  *)
(* lacked an object when it began (data.go, GetCoverImagesMissingStorageKey).        *)
THEOREM BackfillMissesNone == CoverSpec => []BackfillCovers
<1>1. CoverInv => BackfillCovers
  BY DEF CoverInv, BackfillCovers, Ahead
<1> QED
  BY <1>1, CoverInvariance, PTL

-----------------------------------------------------------------------------
(* Favorites: what was added, and what is owed.                                    *)

Addition == [at : {"insert"}, user : People, key : Torrents, magnet : Magnets, id : 0 .. MaxEntries]
Adds(u, k) == \E c \in Calls : adding[c] # NotAdding /\ adding[c].user = u /\ adding[c].key = k
Has(u, k) == \E e \in entries : e.user = u /\ e.key = k

(* What is owed has an entry of the user's own, or is being added again: only    *)
(* the user's own requests delete such an entry.                                 *)
FavInv ==
  /\ FavTypeOK
  /\ adding \in [Calls -> {NotAdding} \cup Addition]
  /\ \A u \in People, k \in Torrents : <<u, k>> \in owed => Adds(u, k) \/ Has(u, k)

LEMMA NotAddingIsNone == \A a \in Addition : a # NotAdding /\ a.at = "insert"
<1> SUFFICES ASSUME NEW a \in Addition PROVE a.at = "insert" /\ NotAdding.at = "none"
  OBVIOUS
<1> QED
  BY DEF Addition, NotAdding

LEMMA FavFaultsType ==
  ASSUME FavTypeOK, FavFails \/ FavSucceeds
  PROVE  favFaults' \in 0 .. FavFaults
  BY FavoritesBounds DEF FavTypeOK, FavFails, FavSucceeds

LEMMA FavInitInv == FavInit => FavInv
<1> SUFFICES ASSUME FavInit PROVE FavInv
  OBVIOUS
<1>0. \A e \in entries : \E o \in Owner \ People, k \in Torrents : e = Earlier(o, k)
  BY DEF FavInit
<1>1. entries \subseteq Entry
  <2>1. 0 \in 0 .. MaxEntries
    BY FavoritesBounds
  <2>2. \A o \in Owner, k \in Torrents : Earlier(o, k) \in Entry
    BY <2>1, FavoritesAssumption DEF Entry, Earlier
  <2> QED
    BY <1>0, <2>2
<1>2. \A e, f \in entries : e.user = f.user /\ e.key = f.key => e = f
  <2>1. \A o, k : Earlier(o, k).user = o /\ Earlier(o, k).key = k
    BY DEF Earlier
  <2> QED
    BY <1>0, <2>1
<1>3. made \in 0 .. MaxEntries /\ favFaults \in 0 .. FavFaults
  <2>1. made = 0 /\ favFaults = 0
    BY DEF FavInit
  <2> QED
    BY <2>1, FavoritesBounds
<1>4. FavTypeOK
  BY <1>1, <1>2, <1>3, Zenon DEF FavInit, FavTypeOK
<1>5. adding \in [Calls -> {NotAdding} \cup Addition] /\ owed = {}
  BY DEF FavInit
<1> QED
  BY <1>4, <1>5 DEF FavInv

LEMMA DeleteOldInv ==
  ASSUME FavInv, NEW c \in Calls, NEW u \in People, NEW k \in Torrents, NEW m \in Magnets, DeleteOld(c, u, k, m)
  PROVE  FavInv'
<1> DEFINE a == [at |-> "insert", user |-> u, key |-> k, magnet |-> m, id |-> made + 1]
<1>1. /\ made' = made + 1 /\ owed' = owed /\ made < MaxEntries /\ adding' = [adding EXCEPT ![c] = a]
      /\ adding[c] = NotAdding
  BY DEF DeleteOld
<1>2. /\ entries' \subseteq entries /\ favFaults' \in 0 .. FavFaults
      /\ \A e \in entries \ entries' : e.user = u /\ e.key = k
  BY FavFaultsType DEF DeleteOld, OwnEntry, FavInv
<1>3. a \in Addition /\ made' \in 0 .. MaxEntries
  <2>1. made + 1 \in 0 .. MaxEntries
    BY <1>1, FavoritesBounds DEF FavInv, FavTypeOK
  <2> QED
    BY <1>1, <2>1 DEF Addition
<1>4. adding' \in [Calls -> {NotAdding} \cup Addition] /\ adding'[c] = a
  BY <1>1, <1>3 DEF FavInv
<1>5. FavTypeOK'
  <2>1. \A d \in Calls : adding'[d] = NotAdding \/ adding'[d].user \in People
    BY <1>4 DEF Addition
  <2> QED
    BY <1>1, <1>2, <1>3, <2>1 DEF FavInv, FavTypeOK
<1>6. ASSUME NEW v \in People, NEW j \in Torrents, <<v, j>> \in owed'
      PROVE  Adds(v, j)' \/ Has(v, j)'
  <2>1. CASE v = u /\ j = k
    BY <1>3, <1>4, <2>1, NotAddingIsNone DEF Adds
  <2>2. CASE ~(v = u /\ j = k)
    <3>1. ASSUME Adds(v, j) PROVE Adds(v, j)'
      BY <1>1, <3>1 DEF Adds, FavInv
    <3>2. ASSUME Has(v, j) PROVE Has(v, j)'
      BY <1>2, <2>2, <3>2 DEF Has
    <3> QED
      BY <1>1, <1>6, <3>1, <3>2 DEF FavInv
  <2> QED
    BY <2>1, <2>2
<1> QED
  BY <1>4, <1>5, <1>6 DEF FavInv

LEMMA InsertNewInv ==
  ASSUME FavInv, NEW c \in Calls, InsertNew(c)
  PROVE  FavInv'
<1> DEFINE a == adding[c]
           e == [id |-> a.id, user |-> a.user, key |-> a.key, magnet |-> a.magnet]
<1>1. /\ a \in Addition /\ adding' = [adding EXCEPT ![c] = NotAdding] /\ made' = made
  BY DEF InsertNew, FavInv, NotAdding
<1>2. /\ e \in Entry /\ e.user = a.user /\ e.key = a.key /\ a.user \in People /\ a.key \in Torrents
  BY <1>1 DEF Addition, Entry, Owner
<1>3. /\ favFaults' \in 0 .. FavFaults
      /\ \/ entries' = entries /\ owed' = owed /\ Has(a.user, a.key)
         \/ entries' = entries \cup {e} /\ owed' = owed \cup {<<a.user, a.key>>} /\ ~Has(a.user, a.key)
         \/ entries' = entries /\ owed' = owed \ {<<a.user, a.key>>}
  <2>1. favFaults' \in 0 .. FavFaults
    BY FavFaultsType DEF InsertNew, FavInv
  <2> QED
    BY <2>1 DEF InsertNew, Has
<1> HIDE DEF e
<1>4. adding' \in [Calls -> {NotAdding} \cup Addition]
  BY <1>1 DEF FavInv
<1>5. FavTypeOK'
  <2>1. \A d \in Calls : adding'[d] = NotAdding \/ adding'[d].user \in People
    BY <1>4 DEF Addition
  <2>2. entries' \subseteq Entry /\ \A f, g \in entries' : f.user = g.user /\ f.key = g.key => f = g
    BY <1>2, <1>3 DEF FavInv, FavTypeOK, Has
  <2>3. owed' \subseteq People \X Torrents
    BY <1>2, <1>3 DEF FavInv, FavTypeOK
  <2> QED
    BY <1>1, <1>3, <2>1, <2>2, <2>3 DEF FavInv, FavTypeOK
<1>6. ASSUME NEW v \in People, NEW j \in Torrents, <<v, j>> \in owed'
      PROVE  Adds(v, j)' \/ Has(v, j)'
  <2>1. Has(v, j) => Has(v, j)'
    BY <1>3 DEF Has
  <2>2. CASE v = a.user /\ j = a.key
    BY <1>2, <1>3, <1>6, <2>1, <2>2 DEF Has
  <2>3. CASE ~(v = a.user /\ j = a.key)
    <3>1. <<v, j>> \in owed
      BY <1>3, <1>6, <2>3
    <3>2. Adds(v, j) => Adds(v, j)'
      BY <1>1, <2>3 DEF Adds, FavInv
    <3> QED
      BY <2>1, <3>1, <3>2 DEF FavInv
  <2> QED
    BY <2>2, <2>3
<1> QED
  BY <1>4, <1>5, <1>6 DEF FavInv

(* No other user's removal reaches an entry of the user's own. *)
LEMMA RemoveFavoriteInv ==
  ASSUME FavInv, NEW u \in People, NEW k \in Torrents, RemoveFavorite(u, k)
  PROVE  FavInv'
<1>1. /\ adding' = adding /\ made' = made /\ owed' = owed \ {<<u, k>>}
      /\ favFaults' \in 0 .. FavFaults
  BY FavFaultsType DEF RemoveFavorite, FavInv
<1>2. PICK f \in entries : f.key = k /\ (f.user \in People => f.user = u) /\ entries' = entries \ {f}
  <2>1. \A readable \in BOOLEAN : \A v \in IdsOf(u, readable) : v \in People => v = u
    BY FavoritesAssumption DEF IdsOf, Legacy
  <2> QED
    BY <2>1 DEF RemoveFavorite
<1>3. FavTypeOK'
  BY <1>1, <1>2 DEF FavInv, FavTypeOK
<1>4. ASSUME NEW v \in People, NEW j \in Torrents, <<v, j>> \in owed'
      PROVE  Adds(v, j)' \/ Has(v, j)'
  BY <1>1, <1>2, <1>4 DEF FavInv, Adds, Has
<1> QED
  BY <1>1, <1>3, <1>4 DEF FavInv

LEMMA StoreMagnetInv ==
  ASSUME FavInv, NEW u \in People, NEW e \in entries, NEW m \in Magnets, StoreMagnet(u, e, m)
  PROVE  FavInv'
<1> DEFINE f == [e EXCEPT !.magnet = m]
<1>1. /\ entries' = (entries \ {e}) \cup {f} /\ adding' = adding /\ made' = made /\ owed' = owed
      /\ favFaults' = favFaults
  BY DEF StoreMagnet
<1>2. e \in Entry /\ f \in Entry /\ f.user = e.user /\ f.key = e.key
  BY DEF FavInv, FavTypeOK, Entry
<1> HIDE DEF f
<1>3. FavTypeOK'
  BY <1>1, <1>2 DEF FavInv, FavTypeOK
<1>4. ASSUME NEW v \in People, NEW j \in Torrents, <<v, j>> \in owed'
      PROVE  Adds(v, j)' \/ Has(v, j)'
  BY <1>1, <1>2, <1>4 DEF FavInv, Adds, Has
<1> QED
  BY <1>1, <1>3, <1>4 DEF FavInv

LEMMA FavStepInv == FavInv /\ [FavNext]_favVars => FavInv'
<1> SUFFICES ASSUME FavInv, [FavNext]_favVars PROVE FavInv'
  OBVIOUS
<1>1. CASE UNCHANGED favVars
  BY <1>1 DEF favVars, FavInv, FavTypeOK, Adds, Has
<1> QED
  BY <1>1, DeleteOldInv, InsertNewInv, RemoveFavoriteInv, StoreMagnetInv DEF FavNext, ReadFavorites

LEMMA FavInvariance == FavSpec => []FavInv
  BY FavInitInv, FavStepInv, PTL DEF FavSpec

(* Of the entries a user sees with one magnet, the newest is listed. *)
LEMMA NewestIsListed ==
  ASSUME FavTypeOK, NEW u \in People, NEW e \in Found(u)
  PROVE  \E f \in Listed(u) : SameItem(e, f)
<1> DEFINE Same == {f \in Found(u) : SameItem(e, f)}
           Ages == {MaxEntries - f.id : f \in Same}
<1>1. \A f \in Found(u) : f.id \in 0 .. MaxEntries
  BY DEF FavTypeOK, Found, Entry
<1>2. e \in Same
  BY DEF SameItem
<1>3. Ages \subseteq Nat /\ Ages # {}
  BY <1>1, <1>2, FavoritesBounds
<1>4. PICK age \in Ages : \A other \in Ages : age <= other
  BY <1>3, LeastOfNat
<1>5. PICK f \in Same : age = MaxEntries - f.id
  BY <1>4
<1>6. \A g \in Same : g.id <= f.id
  <2> SUFFICES ASSUME NEW g \in Same PROVE g.id <= f.id
    OBVIOUS
  <2>1. MaxEntries - f.id <= MaxEntries - g.id
    BY <1>4, <1>5
  <2> QED
    BY <1>1, <2>1, FavoritesBounds
<1>7. ASSUME NEW g \in Found(u), SameItem(f, g) PROVE g \in Same
  BY <1>7 DEF SameItem
<1>8. f \in Listed(u)
  BY <1>1, <1>6, <1>7 DEF Listed
<1> QED
  BY <1>8

(* Every variable has its type, and nobody has two entries for a torrent        *)
(* (favorites.go:80-95).                                                        *)
THEOREM FavTypeCorrect == FavSpec => []FavTypeOK
<1>1. FavInv => FavTypeOK
  BY DEF FavInv
<1> QED
  BY <1>1, FavInvariance, PTL

(* A favorite that was added with success is found and listed until its user    *)
(* removes it, for any users, torrents and requests, and whatever fails.        *)
THEOREM AddedStays == FavSpec => []AddedIsKept
<1>1. FavInv => AddedIsKept
  <2> SUFFICES ASSUME FavInv, NEW u \in People, NEW k \in Torrents, Has(u, k)
               PROVE  /\ IsFavorite(u, k)
                      /\ \E e \in Found(u) : e.key = k /\ \E f \in Listed(u) : SameItem(e, f)
    BY DEF FavInv, AddedIsKept, Adds
  <2>1. PICK e \in Found(u) : e.key = k
    BY DEF Has, Found, IdsOf
  <2> QED
    BY <2>1, NewestIsListed DEF IsFavorite, FavInv
<1> QED
  BY <1>1, FavInvariance, PTL

-----------------------------------------------------------------------------
(* Accounts: logins that race to create an account.                                *)

AccountOf(p) == [email |-> EmailOf[p], google |-> p]
Looking == {"byGoogle", "byEmail", "create"}
Entering == [at : Looking \cup {"open", "code", "done"}, person : Persons,
             user : Emails \cup {"none"}, raced : BOOLEAN]
Refused == [at : {"refused"}, person : Persons, user : {"none"},
            why : {"email_not_allowed", "store", "raced"}]

(* Accounts with a Google id are the accounts of that person, under the person's *)
(* address.                                                                       *)
UsersOK(us) ==
  /\ us \subseteq [email : Emails, google : Persons \cup {NoGoogle}]
  /\ \A u, v \in us : SameAccount(u, v) => u = v
  /\ \A u \in us : u.google # NoGoogle => u.email = EmailOf[u.google]

(* A login past the search has the account of its person's address; before that, *)
(* unless another login raced it, what it did not find is still missing.         *)
EnteredAccount(g, us) ==
  /\ g \in Entering
  /\ g.at \notin Looking => g.user = EmailOf[g.person]
  /\ g.at = "byEmail" /\ ~g.raced => \A v \in us : v.google # g.person
  /\ g.at = "create" /\ ~g.raced => \A v \in us : ~SameAccount(AccountOf(g.person), v)

LoginOK(g, us) == g = Away \/ EnteredAccount(g, us) \/ g \in Refused

SessionOK(g, s) ==
  s # NoSession => /\ g \in Entering \cup Refused /\ g.at \in {"code", "done", "refused"}
                   /\ s.user = EmailOf[g.person]

AccInv ==
  /\ UsersOK(users)
  /\ login = [l \in Logins |-> login[l]] /\ session = [l \in Logins |-> session[l]]
  /\ \A l \in Logins : LoginOK(login[l], users) /\ SessionOK(login[l], session[l])
  /\ token \in [Logins -> {"none", "held", "left", "dropped"}]
  /\ now \in 0 .. MaxNow
  /\ storeFaults \in 0 .. MaxStoreFaults

LEMMA EmailsOf == \A p \in Persons : EmailOf[p] \in Emails
  BY DEF Emails

LEMMA AccFaultsType ==
  ASSUME storeFaults \in 0 .. MaxStoreFaults, AccFails \/ AccSucceeds
  PROVE  storeFaults' \in 0 .. MaxStoreFaults
  BY AccountsBounds DEF AccFails, AccSucceeds

LEMMA AccInitInv == AccInit => AccInv
<1> SUFFICES ASSUME AccInit PROVE AccInv
  OBVIOUS
<1>1. \A u \in users : \E e \in Older : u = [email |-> e, google |-> NoGoogle]
  BY DEF AccInit
<1>2. UsersOK(users)
  BY <1>1 DEF UsersOK, SameAccount, Emails
<1>3. now \in 0 .. MaxNow /\ storeFaults \in 0 .. MaxStoreFaults
  <2>1. now = 0 /\ storeFaults = 0
    BY DEF AccInit
  <2> QED
    BY <2>1, AccountsBounds
<1>4. \A l \in Logins : login[l] = Away /\ session[l] = NoSession
  BY DEF AccInit
<1>5. /\ login = [l \in Logins |-> login[l]] /\ session = [l \in Logins |-> session[l]]
      /\ token \in [Logins -> {"none", "held", "left", "dropped"}]
  BY DEF AccInit
<1> QED
  BY <1>2, <1>3, <1>4, <1>5 DEF AccInv, LoginOK, SessionOK

(* A step of one login that leaves the accounts as they are. *)
LEMMA LoginMoves ==
  ASSUME AccInv, NEW l \in Logins, NEW g, login' = [login EXCEPT ![l] = g],
         LoginOK(g, users), SessionOK(g, session'[l]),
         users' = users, session' = [session EXCEPT ![l] = session'[l]],
         UNCHANGED <<token, now>>, storeFaults' \in 0 .. MaxStoreFaults
  PROVE  AccInv'
<1>1. login' = [m \in Logins |-> login'[m]] /\ session' = [m \in Logins |-> session'[m]]
  BY DEF AccInv
<1>2. ASSUME NEW m \in Logins
      PROVE  LoginOK(login'[m], users') /\ SessionOK(login'[m], session'[m])
  <2>1. CASE m = l
    BY <2>1 DEF AccInv
  <2>2. CASE m # l
    BY <2>2 DEF AccInv
  <2> QED
    BY <2>1, <2>2
<1>3. token' \in [Logins -> {"none", "held", "left", "dropped"}] /\ now' \in 0 .. MaxNow
  BY DEF AccInv
<1>4. UsersOK(users')
  BY DEF AccInv
<1> QED
  BY <1>1, <1>2, <1>3, <1>4 DEF AccInv

(* Steps that leave the logins and the accounts as they are. *)
LEMMA TokensMove ==
  ASSUME AccInv, UNCHANGED <<users, login>>,
         \/ session' = session
         \/ \E l \in Logins : session' = [session EXCEPT ![l] = NoSession],
         \/ token' = token
         \/ \E l \in Logins, s \in {"held", "left", "dropped"} : token' = [token EXCEPT ![l] = s],
         now' \in 0 .. MaxNow, storeFaults' \in 0 .. MaxStoreFaults
  PROVE  AccInv'
<1>1. token' \in [Logins -> {"none", "held", "left", "dropped"}]
  BY DEF AccInv
<1>2. \A l \in Logins : session'[l] = session[l] \/ session'[l] = NoSession
  BY DEF AccInv
<1>3. session' = [l \in Logins |-> session'[l]]
  BY DEF AccInv
<1>4. \A l \in Logins : LoginOK(login'[l], users') /\ SessionOK(login'[l], session'[l])
  BY <1>2 DEF AccInv, SessionOK
<1>5. UsersOK(users') /\ login' = [l \in Logins |-> login'[l]]
  BY DEF AccInv
<1> QED
  BY <1>1, <1>3, <1>4, <1>5 DEF AccInv

LEMMA AwayOrPerson ==
  ASSUME AccInv, NEW l \in Logins, login[l].at # "away"
  PROVE  login[l].person \in Persons
  BY DEF AccInv, LoginOK, EnteredAccount, Entering, Refused, Away

LEMMA EnteredAt ==
  ASSUME AccInv, NEW l \in Logins, login[l].at \in Looking \cup {"open", "code", "done"}
  PROVE  EnteredAccount(login[l], users) /\ login[l] \in Entering
  BY DEF AccInv, LoginOK, EnteredAccount, Entering, Refused, Away, Looking

(* Before it opens one, a login has no session. *)
LEMMA NoSessionYet ==
  ASSUME AccInv, NEW l \in Logins, login[l].at \notin {"code", "done", "refused"}
  PROVE  session[l] = NoSession
  BY DEF AccInv, SessionOK

LEMMA GoogleCallbackInv ==
  ASSUME AccInv, NEW l \in Logins, NEW p \in Persons, GoogleCallback(l, p)
  PROVE  AccInv'
<1> DEFINE g == [at |-> "byGoogle", person |-> p, user |-> "none", raced |-> FALSE]
           r == [at |-> "refused", person |-> p, user |-> "none", why |-> "email_not_allowed"]
<1>1. /\ login' = [login EXCEPT ![l] = g] \/ login' = [login EXCEPT ![l] = r]
      /\ UNCHANGED <<users, session, token, now, storeFaults>> /\ session[l] = NoSession
  BY NoSessionYet DEF GoogleCallback, Moves, At
<1>2. LoginOK(g, users) /\ LoginOK(r, users)
  BY DEF LoginOK, EnteredAccount, Entering, Looking, Refused
<1>3. SessionOK(g, session'[l]) /\ SessionOK(r, session'[l])
  BY <1>1 DEF SessionOK
<1>4. storeFaults' \in 0 .. MaxStoreFaults /\ session' = [session EXCEPT ![l] = session'[l]]
  BY <1>1 DEF AccInv
<1> HIDE DEF g, r
<1> QED
  BY <1>1, <1>2, <1>3, <1>4, LoginMoves

LEMMA LoginFailsInv ==
  ASSUME AccInv, NEW l \in Logins, LoginFails(l)
  PROVE  AccInv'
<1> DEFINE r == [at |-> "refused", person |-> login[l].person, user |-> "none", why |-> "store"]
<1>1. /\ login' = [login EXCEPT ![l] = r]
      /\ UNCHANGED <<users, session, token, now>> /\ login[l].at # "away"
  BY DEF LoginFails, Refuse, Moves
<1>2. r \in Refused
  BY <1>1, AwayOrPerson DEF Refused
<1>3. SessionOK(r, session'[l])
  BY <1>1, <1>2 DEF SessionOK, AccInv
<1>4. storeFaults' \in 0 .. MaxStoreFaults /\ session' = [session EXCEPT ![l] = session'[l]]
  BY <1>1, AccFaultsType DEF AccInv, LoginFails
<1> HIDE DEF r
<1> QED
  BY <1>1, <1>2, <1>3, <1>4, LoginMoves DEF LoginOK

LEMMA FindByGoogleInv ==
  ASSUME AccInv, NEW l \in Logins, FindByGoogle(l)
  PROVE  AccInv'
<1>1. /\ UNCHANGED <<users, session, token, now, storeFaults>> /\ session[l] = NoSession
      /\ login[l] \in Entering /\ login[l].at = "byGoogle"
  BY NoSessionYet, EnteredAt DEF FindByGoogle, At, Looking
<1>2. PICK g : /\ login' = [login EXCEPT ![l] = g] /\ g \in Entering /\ g.person = login[l].person
               /\ \/ g.at = "byEmail" /\ \A v \in users : v.google # g.person
                  \/ g.at = "open" /\ g.user = EmailOf[g.person]
  <2>1. CASE {u \in users : u.google = login[l].person} = {}
    <3> DEFINE g == [login[l] EXCEPT !.at = "byEmail"]
    <3>1. login' = [login EXCEPT ![l] = g]
      BY <2>1 DEF FindByGoogle, Moves, LooksForEmail
    <3>2. g \in Entering /\ g.person = login[l].person /\ g.at = "byEmail"
      BY <1>1 DEF Entering, Looking
    <3> HIDE DEF g
    <3> QED
      BY <2>1, <3>1, <3>2
  <2>2. CASE {u \in users : u.google = login[l].person} # {}
    <3> DEFINE g(u) == [login[l] EXCEPT !.at = "open", !.user = u.email]
    <3>1. PICK u \in users : u.google = login[l].person /\ login' = [login EXCEPT ![l] = g(u)]
      BY <2>2 DEF FindByGoogle, Moves
    <3>2. u.email = EmailOf[login[l].person] /\ u.email \in Emails
      BY <1>1, <3>1, PersonsAssumption DEF AccInv, UsersOK, Entering, NoGoogle
    <3>3. g(u) \in Entering /\ g(u).person = login[l].person /\ g(u).at = "open" /\ g(u).user = u.email
      BY <1>1, <3>2 DEF Entering
    <3> HIDE DEF g
    <3> QED
      BY <3>1, <3>2, <3>3
  <2> QED
    BY <2>1, <2>2
<1>3. LoginOK(g, users)
  BY <1>2 DEF LoginOK, EnteredAccount, Looking
<1>4. storeFaults' \in 0 .. MaxStoreFaults /\ session' = [session EXCEPT ![l] = session'[l]]
  BY <1>1 DEF AccInv
<1> QED
  BY <1>1, <1>2, <1>3, <1>4, LoginMoves DEF SessionOK

LEMMA FindByEmailInv ==
  ASSUME AccInv, NEW l \in Logins, FindByEmail(l)
  PROVE  AccInv'
<1> DEFINE p == login[l].person
<1>1. /\ UNCHANGED <<users, session, token, now, storeFaults>> /\ session[l] = NoSession
      /\ login[l] \in Entering /\ login[l].at = "byEmail" /\ EnteredAccount(login[l], users)
  BY NoSessionYet, EnteredAt DEF FindByEmail, At, Looking
<1>2. PICK g : /\ login' = [login EXCEPT ![l] = g] /\ g \in Entering /\ g.person = p
               /\ \/ /\ g.at = "create" /\ g.raced = login[l].raced
                     /\ \A u \in users : u.email # EmailOf[p]
                  \/ g.at = "open" /\ g.user = EmailOf[p]
  <2>1. CASE \E u \in users : u.email = EmailOf[p]
    <3> DEFINE g == [login[l] EXCEPT !.at = "open", !.user = EmailOf[p]]
    <3>1. login' = [login EXCEPT ![l] = g]
      BY <2>1 DEF FindByEmail, Moves
    <3>2. g \in Entering /\ g.person = p /\ g.at = "open" /\ g.user = EmailOf[p]
      BY <1>1, EmailsOf DEF Entering
    <3> HIDE DEF g
    <3> QED
      BY <3>1, <3>2
  <2>2. CASE ~\E u \in users : u.email = EmailOf[p]
    <3> DEFINE g == [login[l] EXCEPT !.at = "create"]
    <3>1. login' = [login EXCEPT ![l] = g]
      BY <2>2 DEF FindByEmail, Moves
    <3>2. g \in Entering /\ g.person = p /\ g.at = "create" /\ g.raced = login[l].raced
      BY <1>1 DEF Entering, Looking
    <3> HIDE DEF g
    <3> QED
      BY <2>2, <3>1, <3>2
  <2> QED
    BY <2>1, <2>2
<1>3. LoginOK(g, users)
  <2>1. g.at = "create" /\ ~g.raced => \A v \in users : ~SameAccount(AccountOf(p), v)
    BY <1>1, <1>2 DEF EnteredAccount, SameAccount, AccountOf
  <2> QED
    BY <1>2, <2>1 DEF LoginOK, EnteredAccount, Looking
<1>4. storeFaults' \in 0 .. MaxStoreFaults /\ session' = [session EXCEPT ![l] = session'[l]]
  BY <1>1 DEF AccInv
<1> QED
  BY <1>1, <1>2, <1>3, <1>4, LoginMoves DEF SessionOK

(* An account that stands in the way of a login that nobody raced would have been  *)
(* found; and a login that another one races remembers it.                          *)
LEMMA CreateUserInv ==
  ASSUME AccInv, NEW l \in Logins, CreateUser(l)
  PROVE  AccInv'
<1> DEFINE p == login[l].person
           u == AccountOf(p)
           Races(m) == m # l /\ login[m].at \in {"byGoogle", "byEmail", "create"}
                       /\ EmailOf[login[m].person] = u.email
<1>1. /\ UNCHANGED <<session, token, now, storeFaults>> /\ session[l] = NoSession
      /\ login[l] \in Entering /\ login[l].at = "create" /\ EnteredAccount(login[l], users)
  BY NoSessionYet, EnteredAt DEF CreateUser, At, Looking
<1>2. p \in Persons /\ EmailOf[p] \in Emails
  BY <1>1, EmailsOf DEF Entering
<1>3. storeFaults' \in 0 .. MaxStoreFaults /\ session' = [session EXCEPT ![l] = session'[l]]
  BY <1>1 DEF AccInv
<1>4. CASE \E v \in users : SameAccount(u, v)
  <2> DEFINE r == [at |-> "refused", person |-> p, user |-> "none", why |-> "raced"]
  <2>1. login[l].raced = TRUE
    BY <1>1, <1>4 DEF EnteredAccount, Entering
  <2>2. login' = [login EXCEPT ![l] = r] /\ users' = users
    BY <1>4, <2>1 DEF CreateUser, Refuse, Moves, AccountOf
  <2>3. r \in Refused
    BY <1>2 DEF Refused
  <2> HIDE DEF r
  <2> QED
    BY <1>1, <1>3, <2>2, <2>3, LoginMoves DEF LoginOK, SessionOK
<1>5. CASE ~\E v \in users : SameAccount(u, v)
  <2>1. /\ users' = users \cup {u}
        /\ login' = [m \in Logins |->
             IF m = l THEN [login[l] EXCEPT !.at = "open", !.user = EmailOf[p]]
             ELSE IF Races(m) THEN [login[m] EXCEPT !.raced = TRUE] ELSE login[m]]
    BY <1>5 DEF CreateUser, AccountOf
  <2>2. u \in [email : Emails, google : Persons \cup {NoGoogle}] /\ u.google = p /\ u.email = EmailOf[p]
    BY <1>2 DEF AccountOf
  <2>3. \A v \in users : SameAccount(v, u) => SameAccount(u, v)
    BY DEF SameAccount
  <2>4. UsersOK(users')
    BY <1>5, <2>1, <2>2, <2>3 DEF AccInv, UsersOK
  <2>5. login'[l] \in Entering /\ login'[l].at = "open" /\ login'[l].user = EmailOf[login'[l].person]
    BY <1>1, <1>2, <2>1 DEF Entering
  <2>6. LoginOK(login'[l], users')
    BY <2>5 DEF LoginOK, EnteredAccount, Looking
  <2>7. ASSUME NEW m \in Logins, m # l
        PROVE  LoginOK(login'[m], users') /\ SessionOK(login'[m], session[m])
    <3>1. LoginOK(login[m], users) /\ SessionOK(login[m], session[m])
      BY DEF AccInv
    <3>2. CASE Races(m)
      <4>1. EnteredAccount(login[m], users) /\ session[m] = NoSession
        BY <3>2, EnteredAt, NoSessionYet DEF Looking
      <4>2. login'[m] = [login[m] EXCEPT !.raced = TRUE]
        BY <2>1, <2>7, <3>2
      <4>3. EnteredAccount(login'[m], users')
        BY <3>2, <4>1, <4>2 DEF EnteredAccount, Entering, Looking
      <4> QED
        BY <4>1, <4>3 DEF LoginOK, SessionOK
    <3>3. CASE ~Races(m)
      <4>1. login'[m] = login[m]
        BY <2>1, <2>7, <3>3
      <4>2. EnteredAccount(login[m], users) => EnteredAccount(login[m], users')
        <5> SUFFICES ASSUME EnteredAccount(login[m], users) PROVE EnteredAccount(login[m], users')
          OBVIOUS
        <5> DEFINE q == login[m].person
        <5>1. login[m].at \in Looking => EmailOf[q] # EmailOf[p]
          BY <2>2, <2>7, <3>3 DEF Looking
        <5>2. login[m].at \in Looking => q # p
          BY <5>1
        <5>3. login[m].at \in Looking => ~SameAccount(AccountOf(q), u)
          BY <2>2, <5>1, <5>2 DEF SameAccount, AccountOf
        <5> QED
          BY <2>1, <2>2, <5>2, <5>3 DEF EnteredAccount, Looking
      <4> QED
        BY <3>1, <4>1, <4>2 DEF LoginOK
    <3> QED
      BY <3>2, <3>3
  <2>8. /\ login' = [m \in Logins |-> login'[m]] /\ session' = [m \in Logins |-> session'[m]]
        /\ token' \in [Logins -> {"none", "held", "left", "dropped"}] /\ now' \in 0 .. MaxNow
    BY <1>1, <2>1 DEF AccInv
  <2>9. \A m \in Logins : LoginOK(login'[m], users') /\ SessionOK(login'[m], session'[m])
    BY <1>1, <2>6, <2>7 DEF SessionOK
  <2> QED
    BY <1>3, <2>4, <2>8, <2>9 DEF AccInv
<1> QED
  BY <1>4, <1>5

LEMMA CreateSessionInv ==
  ASSUME AccInv, NEW l \in Logins, CreateSession(l)
  PROVE  AccInv'
<1> DEFINE g == [login[l] EXCEPT !.at = "code"]
           s == [user |-> login[l].user, until |-> now + SessionLife]
<1>1. /\ UNCHANGED <<users, token, now, storeFaults>> /\ login' = [login EXCEPT ![l] = g]
      /\ session' = [session EXCEPT ![l] = s]
      /\ login[l] \in Entering /\ EnteredAccount(login[l], users) /\ login[l].at = "open"
  BY EnteredAt DEF CreateSession, At, Moves
<1>2. g \in Entering /\ g.at = "code" /\ g.user = EmailOf[g.person] /\ g.user = login[l].user
      /\ g.person = login[l].person
  BY <1>1 DEF EnteredAccount, Entering, Looking
<1>3. s.user = login[l].user
  OBVIOUS
<1>4. session'[l] = s /\ session' = [session EXCEPT ![l] = session'[l]]
      /\ storeFaults' \in 0 .. MaxStoreFaults
  BY <1>1 DEF AccInv
<1> HIDE DEF g, s
<1>5. LoginOK(g, users) /\ SessionOK(g, s)
  BY <1>2, <1>3 DEF LoginOK, EnteredAccount, Looking, SessionOK
<1> QED
  BY <1>1, <1>4, <1>5, LoginMoves

LEMMA CreateExchangeCodeInv ==
  ASSUME AccInv, NEW l \in Logins, CreateExchangeCode(l)
  PROVE  AccInv'
<1> DEFINE g == [login[l] EXCEPT !.at = "done"]
<1>1. /\ UNCHANGED <<users, session, token, now, storeFaults>> /\ login' = [login EXCEPT ![l] = g]
      /\ login[l] \in Entering /\ EnteredAccount(login[l], users) /\ login[l].at = "code"
  BY EnteredAt DEF CreateExchangeCode, At, Moves
<1>2. g \in Entering /\ g.at = "done" /\ g.user = EmailOf[g.person] /\ g.person = login[l].person
  BY <1>1 DEF EnteredAccount, Entering, Looking
<1> HIDE DEF g
<1>3. LoginOK(g, users) /\ SessionOK(g, session[l])
  BY <1>2 DEF LoginOK, EnteredAccount, Looking, SessionOK, AccInv
<1>4. session' = [session EXCEPT ![l] = session'[l]] /\ storeFaults' \in 0 .. MaxStoreFaults
  BY <1>1 DEF AccInv
<1> QED
  BY <1>1, <1>3, <1>4, LoginMoves

LEMMA AccStepInv == AccInv /\ [AccNext]_accVars => AccInv'
<1> SUFFICES ASSUME AccInv, [AccNext]_accVars PROVE AccInv'
  OBVIOUS
<1>1. ASSUME NEW l \in Logins, Logout(l) \/ Refresh(l) PROVE AccInv'
  <2>1. /\ UNCHANGED <<users, login, now>>
        /\ session' = session \/ session' = [session EXCEPT ![l] = NoSession]
        /\ \/ token' = token
           \/ \E s \in {"held", "left", "dropped"} : token' = [token EXCEPT ![l] = s]
    BY <1>1 DEF Logout, Refresh
  <2>2. storeFaults' \in 0 .. MaxStoreFaults
    BY <1>1, AccFaultsType DEF Logout, Refresh, AccInv
  <2> QED
    BY <2>1, <2>2, TokensMove DEF AccInv
<1>2. CASE MarkUsed
  BY <1>2, AccFaultsType, TokensMove DEF MarkUsed, AccInv
<1>3. ASSUME HandOver PROVE AccInv'
  <2>1. /\ UNCHANGED <<users, login, session, now>> /\ storeFaults' \in 0 .. MaxStoreFaults
    BY <1>3, AccFaultsType DEF HandOver, AccInv
  <2>2. token' = token \/ token' = [token EXCEPT ![exchange.login] = "held"]
    BY <1>3 DEF HandOver
  <2>3. CASE exchange.login \in Logins
    BY <2>1, <2>2, <2>3, TokensMove DEF AccInv
  <2>4. CASE exchange.login \notin Logins
    <3>1. token' = token
      BY <2>2, <2>4 DEF AccInv
    <3> QED
      BY <2>1, <3>1, TokensMove DEF AccInv
  <2> QED
    BY <2>3, <2>4
<1>4. ASSUME AccTick PROVE AccInv'
  <2>1. now' \in 0 .. MaxNow
    BY <1>4, AccountsBounds DEF AccTick, AccInv
  <2> QED
    BY <1>4, <2>1, TokensMove DEF AccTick, AccInv
<1>5. CASE UNCHANGED accVars \/ \E l \in Logins : ReadCode(l)
  BY <1>5, TokensMove DEF accVars, ReadCode, AccInv
<1> QED
  BY <1>1, <1>2, <1>3, <1>4, <1>5, GoogleCallbackInv, LoginFailsInv, FindByGoogleInv, FindByEmailInv,
     CreateUserInv, CreateSessionInv, CreateExchangeCodeInv DEF AccNext, AccRests

LEMMA AccInvariance == AccSpec => []AccInv
  BY AccInitInv, AccStepInv, PTL DEF AccSpec

(* Every variable has its type: no two accounts share an address or a Google id     *)
(* (auth.go:253-312).                                                              *)
THEOREM AccTypeCorrect == AccSpec => []AccTypeOK
<1>1. AccInv => AccTypeOK
  <2> SUFFICES ASSUME AccInv PROVE AccTypeOK
    OBVIOUS
  <2>1. \A l \in Logins : session[l] = NoSession \/ session[l].user \in Emails
    BY EmailsOf DEF AccInv, SessionOK, Entering, Refused
  <2> QED
    BY <2>1 DEF AccInv, AccTypeOK, UsersOK
<1> QED
  BY <1>1, AccInvariance, PTL

(* All the sessions of a person are of one account, and a login that fails on an   *)
(* account that exists lost a race, for any persons, logins and failures.          *)
THEOREM OneAccountHolds == AccSpec => []OneAccount
<1>1. AccInv => OneAccount
  <2> SUFFICES ASSUME AccInv PROVE OneAccount
    OBVIOUS
  <2>1. ASSUME NEW l \in Logins, At(l, "refused") PROVE login[l].why # "db_error"
    BY <2>1 DEF AccInv, LoginOK, EnteredAccount, Entering, Looking, Refused, Away, At
  <2>2. \A l \in Logins : session[l] # NoSession => session[l].user = EmailOf[login[l].person]
    BY DEF AccInv, SessionOK
  <2> QED
    BY <2>1, <2>2 DEF OneAccount
<1> QED
  BY <1>1, AccInvariance, PTL

-----------------------------------------------------------------------------
(* Debrid: what a refresh adds and what it sweeps.                                 *)

Mine(c) == {t \in account : t.by = c /\ t.id > refresh[c].first}
Begins == {"add", "clear", "list", "sweep", "select", "ok", "failed"}
Refreshing == [at : Begins, magnet : Magnet, attempt : 1 .. MaxRetries, last : 0 .. MaxTorrents,
               first : 0 .. MaxTorrents, ids : SUBSET (1 .. MaxTorrents)]

DebridTypes ==
  /\ account \subseteq [id : 1 .. MaxTorrents, magnet : Magnet, by : Callers]
  /\ added \in 0 .. MaxTorrents
  /\ \A t \in account : t.id <= added
  /\ refresh \in [Callers -> {NoRefresh} \cup Refreshing]
  /\ \A c \in Callers : refresh[c] # NoRefresh => refresh[c].first <= added
  /\ walk \in [next : 0 .. Len(Favs) + 1, refreshed : Nat, skipped : Nat, failed : Nat]
  /\ refresh["job"] # NoRefresh => walk.next \in 1 .. Len(Favs)
  /\ cached \subseteq Magnet
  /\ requests \in 0 .. MaxRequests
  /\ deleteLost \subseteq Callers

(* The torrents of a refresh are of its magnet, so that a sweep that lists them  *)
(* all and loses none leaves nothing for the next try to add to.                  *)
Own(c) ==
  refresh[c] # NoRefresh =>
    /\ \A t \in Mine(c) : t.magnet = refresh[c].magnet
    /\ c \notin deleteLost =>
         /\ refresh[c].at = "add" => Mine(c) = {}
         /\ refresh[c].at = "sweep" => \A t \in Mine(c) : t.id \in refresh[c].ids
         /\ refresh[c].at # "sweep" => \A t, u \in Mine(c) : t = u

DebridInv == DebridTypes /\ \A c \in Callers : Own(c)

LEMMA RefreshingIs ==
  /\ \A r \in Refreshing : r # NoRefresh
  /\ "job" \in Callers /\ "user" \in Callers
<1> SUFFICES ASSUME NEW r \in Refreshing PROVE r # NoRefresh
  BY DEF Callers
<1> QED
  BY DEF Refreshing, Begins, NoRefresh

LEMMA AtRefreshing ==
  ASSUME DebridTypes, NEW c \in Callers, refresh[c].at # "none"
  PROVE  refresh[c] # NoRefresh /\ refresh[c] \in Refreshing
  BY DEF DebridTypes, NoRefresh

(* A refresh keeps what it has as long as nobody adds to it. *)
LEMMA OwnStays ==
  ASSUME NEW d \in Callers, Own(d), refresh'[d] = refresh[d],
         \A t \in account' : t \in account \/ t.by # d,
         d \in deleteLost => d \in deleteLost'
  PROVE  Own(d)'
<1>1. Mine(d)' \subseteq Mine(d)
  BY DEF Mine
<1> QED
  BY <1>1 DEF Own

LEMMA FirstStays ==
  ASSUME DebridTypes, NEW c \in Callers, NEW r \in Refreshing,
         refresh' = [refresh EXCEPT ![c] = r], r.first <= added,
         \A t \in account' : t \in account, added' = added,
         UNCHANGED <<walk, cached, requests>>, refresh[c] # NoRefresh,
         deleteLost' \subseteq Callers
  PROVE  DebridTypes'
<1>1. refresh' \in [Callers -> {NoRefresh} \cup Refreshing]
  BY DEF DebridTypes
<1>2. \A d \in Callers : refresh'[d] # NoRefresh => refresh'[d].first <= added'
  BY DEF DebridTypes
<1>3. refresh'["job"] # NoRefresh => refresh["job"] # NoRefresh
  BY DEF DebridTypes
<1> QED
  BY <1>1, <1>2, <1>3 DEF DebridTypes

(* A step of one refresh that adds nothing. *)
LEMMA RefreshGoes ==
  ASSUME DebridInv, NEW c \in Callers, NEW r \in Refreshing, refresh[c] \in Refreshing,
         refresh' = [refresh EXCEPT ![c] = r],
         r.first = refresh[c].first, r.magnet = refresh[c].magnet,
         account' \subseteq account, UNCHANGED <<added, walk, cached, requests>>,
         deleteLost' = deleteLost \/ deleteLost' = deleteLost \cup {c},
         \/ c \in deleteLost'
         \/ /\ r.at = "add" => \A t \in account' : t \notin Mine(c)
            /\ r.at = "sweep" => \A t \in Mine(c) \cap account' : t.id \in r.ids
            /\ r.at \notin {"add", "sweep"} => refresh[c].at # "sweep"
  PROVE  DebridInv'
<1>1. DebridTypes'
  <2>1. r.first <= added /\ refresh[c] # NoRefresh
    BY RefreshingIs DEF DebridInv, DebridTypes
  <2>2. deleteLost' \subseteq Callers
    BY DEF DebridInv, DebridTypes
  <2> QED
    BY <2>1, <2>2, FirstStays DEF DebridInv
<1>2. ASSUME NEW d \in Callers, d # c PROVE Own(d)'
  <2>1. refresh'[d] = refresh[d]
    BY <1>2 DEF DebridInv, DebridTypes
  <2> QED
    BY <1>2, <2>1, OwnStays DEF DebridInv
<1>3. Own(c)'
  <2>1. refresh'[c] = r /\ Own(c) /\ refresh[c] # NoRefresh
    BY RefreshingIs DEF DebridInv, DebridTypes
  <2>2. Mine(c)' = Mine(c) \cap account'
    BY <2>1 DEF Mine
  <2>3. \A t \in Mine(c)' : t.magnet = r.magnet
    BY <2>1, <2>2 DEF Own
  <2>4. CASE c \in deleteLost'
    BY <2>1, <2>3, <2>4 DEF Own
  <2>5. CASE c \notin deleteLost'
    <3>1. /\ r.at = "add" => Mine(c)' = {}
          /\ r.at = "sweep" => \A t \in Mine(c)' : t.id \in r.ids
      BY <2>2, <2>5
    <3>2. r.at # "sweep" => \A t, u \in Mine(c)' : t = u
      BY <2>1, <2>2, <2>5, <3>1 DEF Own
    <3> QED
      BY <2>1, <2>3, <3>1, <3>2 DEF Own
  <2> QED
    BY <2>4, <2>5
<1> QED
  BY <1>1, <1>2, <1>3 DEF DebridInv

LEMMA ClearLastInv ==
  ASSUME DebridInv, NEW c \in Callers, ClearLast(c)
  PROVE  DebridInv'
<1> DEFINE r == [refresh[c] EXCEPT !.at = "list"]
<1>1. refresh[c] \in Refreshing /\ refresh[c].at = "clear"
  BY AtRefreshing DEF ClearLast, DebridInv
<1>2. r \in Refreshing /\ r.at = "list" /\ r.first = refresh[c].first /\ r.magnet = refresh[c].magnet
  BY <1>1 DEF Refreshing, Begins
<1>3. /\ refresh' = [refresh EXCEPT ![c] = r] /\ account' \subseteq account
      /\ UNCHANGED <<added, walk, cached, requests>>
      /\ deleteLost' = deleteLost \/ deleteLost' = deleteLost \cup {c}
  BY DEF ClearLast, Sets
<1> HIDE DEF r
<1> QED
  BY <1>1, <1>2, <1>3, RefreshGoes

LEMMA ListTorrentsInv ==
  ASSUME DebridInv, NEW c \in Callers, ListTorrents(c)
  PROVE  DebridInv'
<1> DEFINE r == [refresh[c] EXCEPT !.at = "sweep", !.ids = Swept(refresh[c].magnet)]
           a == [refresh[c] EXCEPT !.at = "add"]
<1>1. refresh[c] \in Refreshing /\ refresh[c] # NoRefresh
  BY AtRefreshing DEF ListTorrents, DebridInv
<1>2. Swept(refresh[c].magnet) \subseteq 1 .. MaxTorrents
  BY DEF Swept, DebridInv, DebridTypes
<1>3. /\ r \in Refreshing /\ r.at = "sweep" /\ r.first = refresh[c].first
      /\ r.magnet = refresh[c].magnet /\ r.ids = Swept(refresh[c].magnet)
      /\ a \in Refreshing /\ a.first = refresh[c].first /\ a.magnet = refresh[c].magnet
  BY <1>1, <1>2 DEF Refreshing, Begins
<1>4. \A t \in Mine(c) : t.id \in Swept(refresh[c].magnet)
  BY <1>1 DEF DebridInv, Own, Swept, Mine
<1>5. UNCHANGED <<account, added, walk, cached, requests>>
  BY DEF ListTorrents
<1>6. \/ refresh' = [refresh EXCEPT ![c] = r] /\ deleteLost' = deleteLost
      \/ refresh' = [refresh EXCEPT ![c] = a] /\ deleteLost' = deleteLost \cup {c}
  BY DEF ListTorrents, Sets
<1> HIDE DEF r, a
<1>7. CASE refresh' = [refresh EXCEPT ![c] = r] /\ deleteLost' = deleteLost
  BY <1>1, <1>3, <1>4, <1>5, <1>7, RefreshGoes
<1>8. CASE refresh' = [refresh EXCEPT ![c] = a] /\ deleteLost' = deleteLost \cup {c}
  BY <1>1, <1>3, <1>5, <1>8, RefreshGoes
<1> QED
  BY <1>6, <1>7, <1>8

LEMMA SweepTorrentsInv ==
  ASSUME DebridInv, NEW c \in Callers, SweepTorrents(c)
  PROVE  DebridInv'
<1> DEFINE q == refresh[c]
           a == [q EXCEPT !.at = "add"]
           r(i) == [q EXCEPT !.ids = @ \ {i}]
<1>1. q \in Refreshing /\ q.at = "sweep" /\ q # NoRefresh
  BY AtRefreshing DEF SweepTorrents, DebridInv
<1>2. a \in Refreshing /\ a.at = "add" /\ a.first = q.first /\ a.magnet = q.magnet
  BY <1>1 DEF Refreshing, Begins
<1>3. \A i : /\ r(i) \in Refreshing /\ r(i).at = "sweep" /\ r(i).first = q.first
             /\ r(i).magnet = q.magnet /\ r(i).ids = q.ids \ {i}
  BY <1>1 DEF Refreshing, Begins
<1>4. c \notin deleteLost => \A t \in Mine(c) : t.id \in q.ids
  BY <1>1 DEF DebridInv, Own
<1>5. UNCHANGED <<added, walk, cached, requests>>
  BY DEF SweepTorrents
<1>6. \/ /\ q.ids = {} /\ refresh' = [refresh EXCEPT ![c] = a]
         /\ UNCHANGED <<account, deleteLost>>
      \/ \E i \in q.ids :
           /\ refresh' = [refresh EXCEPT ![c] = r(i)]
           /\ \/ account' = {t \in account : t.id # i} /\ UNCHANGED deleteLost
              \/ UNCHANGED account /\ deleteLost' = deleteLost \cup {c}
  BY DEF SweepTorrents, Sets
<1> HIDE DEF r, a
<1>7. CASE q.ids = {} /\ refresh' = [refresh EXCEPT ![c] = a] /\ UNCHANGED <<account, deleteLost>>
  BY <1>1, <1>2, <1>4, <1>5, <1>7, RefreshGoes
<1>8. ASSUME NEW i \in q.ids, refresh' = [refresh EXCEPT ![c] = r(i)],
             \/ account' = {t \in account : t.id # i} /\ UNCHANGED deleteLost
             \/ UNCHANGED account /\ deleteLost' = deleteLost \cup {c}
      PROVE  DebridInv'
  <2>1. /\ account' \subseteq account
        /\ deleteLost' = deleteLost \/ deleteLost' = deleteLost \cup {c}
    BY <1>8
  <2>2. c \in deleteLost' \/ \A t \in Mine(c) \cap account' : t.id \in r(i).ids
    BY <1>3, <1>4, <1>8
  <2> QED
    BY <1>1, <1>3, <1>5, <1>8, <2>1, <2>2, RefreshGoes
<1> QED
  BY <1>6, <1>7, <1>8

(* What becomes of a try that fails, or of a whole refresh. *)
LEMMA RetryOrFinish ==
  ASSUME DebridInv, NEW c \in Callers, refresh[c] \in Refreshing,
         NEW id \in 0 .. MaxTorrents, NEW outcome \in {"ok", "failed"},
         Fails(c, id) \/ Finish(c, outcome)
  PROVE  \E r \in Refreshing : /\ refresh' = [refresh EXCEPT ![c] = r]
                               /\ r.at \in {"clear", "ok", "failed"}
                               /\ r.first = refresh[c].first /\ r.magnet = refresh[c].magnet
<1> DEFINE q == refresh[c]
           n == IF id # 0 THEN id ELSE q.last
           again == [q EXCEPT !.at = "clear", !.attempt = @ + 1, !.last = n]
           done(o) == [q EXCEPT !.at = o]
<1>1. ASSUME q.attempt < MaxRetries, Retry(c, id)
      PROVE  again \in Refreshing /\ refresh' = [refresh EXCEPT ![c] = again]
  <2>1. q.attempt + 1 \in 1 .. MaxRetries
    <3>1. q.attempt \in 1 .. MaxRetries
      BY DEF Refreshing
    <3> QED
      BY <1>1, <3>1, DebridAssumption
  <2>2. n \in 0 .. MaxTorrents
    BY DEF Refreshing
  <2>3. refresh' = [refresh EXCEPT ![c] = again]
    BY <1>1 DEF Retry, Sets
  <2> HIDE DEF n
  <2> QED
    BY <2>1, <2>2, <2>3 DEF Refreshing, Begins
<1>2. again.at = "clear" /\ again.first = q.first /\ again.magnet = q.magnet
  BY DEF Refreshing
<1>3. \A o \in {"ok", "failed"} : /\ done(o) \in Refreshing /\ done(o).at = o
                                  /\ done(o).first = q.first /\ done(o).magnet = q.magnet
  BY DEF Refreshing, Begins
<1>4. ASSUME NEW o \in {"ok", "failed"}, Finish(c, o) PROVE refresh' = [refresh EXCEPT ![c] = done(o)]
  BY <1>4 DEF Finish, Sets
<1> HIDE DEF again, done
<1> QED
  BY <1>1, <1>2, <1>3, <1>4 DEF Fails

(* A try adds to an account that its sweep has left without a torrent of its own. *)
LEMMA AddMagnetInv ==
  ASSUME DebridInv, NEW c \in Callers, AddMagnet(c)
  PROVE  DebridInv'
<1> DEFINE q == refresh[c]
           t == [id |-> added + 1, magnet |-> q.magnet, by |-> c]
           chosen == [q EXCEPT !.at = "select", !.last = added + 1]
<1>1. /\ q \in Refreshing /\ q.at = "add" /\ q # NoRefresh
      /\ UNCHANGED <<walk, cached, requests, deleteLost>>
  BY AtRefreshing DEF AddMagnet, DebridInv
<1>2. 0 \in 0 .. MaxTorrents
  BY DebridBounds
<1>3. CASE Fails(c, 0) /\ UNCHANGED <<account, added>>
  <2>1. PICK r \in Refreshing : /\ refresh' = [refresh EXCEPT ![c] = r]
                                /\ r.at \in {"clear", "ok", "failed"}
                                /\ r.first = q.first /\ r.magnet = q.magnet
    BY <1>1, <1>2, <1>3, RetryOrFinish
  <2> QED
    BY <1>1, <1>3, <2>1, RefreshGoes
<1>4. CASE /\ added < MaxTorrents /\ account' = account \cup {t} /\ added' = added + 1
           /\ Sets(c, [refresh[c] EXCEPT !.at = "select", !.last = t.id]) \/ Fails(c, 0)
  <2>1. added \in 0 .. MaxTorrents /\ added + 1 \in 1 .. MaxTorrents
    <3>1. added \in 0 .. MaxTorrents
      BY DEF DebridInv, DebridTypes
    <3> QED
      BY <1>4, <3>1, DebridBounds
  <2>2. /\ t.id = added + 1 /\ t.magnet = q.magnet /\ t.by = c
        /\ t \in [id : 1 .. MaxTorrents, magnet : Magnet, by : Callers]
    BY <1>1, <2>1 DEF Refreshing
  <2>3. PICK r \in Refreshing : /\ refresh' = [refresh EXCEPT ![c] = r]
                                /\ r.at \in {"select", "clear", "ok", "failed"}
                                /\ r.first = q.first /\ r.magnet = q.magnet
    <3>1. CASE Fails(c, 0)
      BY <1>1, <1>2, <3>1, RetryOrFinish
    <3>2. CASE Sets(c, chosen)
      <4>1. added + 1 \in 0 .. MaxTorrents
        BY <2>1
      <4>2. /\ chosen \in Refreshing /\ chosen.at = "select"
            /\ chosen.first = q.first /\ chosen.magnet = q.magnet
        BY <1>1, <4>1 DEF Refreshing, Begins
      <4>3. refresh' = [refresh EXCEPT ![c] = chosen]
        BY <3>2 DEF Sets
      <4> HIDE DEF chosen
      <4> QED
        BY <4>2, <4>3
    <3> QED
      BY <1>4, <2>2, <3>1, <3>2
  <2> HIDE DEF t
  <2>4. DebridTypes'
    <3>1. account' \subseteq [id : 1 .. MaxTorrents, magnet : Magnet, by : Callers]
      BY <1>4, <2>2 DEF DebridInv, DebridTypes
    <3>2. added' \in 0 .. MaxTorrents
      BY <1>4, <2>1
    <3>3. \A u \in account' : u.id <= added'
      <4>1. \A u \in account : u.id <= added /\ u.id \in 1 .. MaxTorrents
        BY DEF DebridInv, DebridTypes
      <4>2. \A u \in account : u.id <= added + 1
        BY <2>1, <4>1
      <4>3. t.id <= added + 1
        BY <2>1, <2>2
      <4> QED
        BY <1>4, <4>2, <4>3
    <3>4. refresh' \in [Callers -> {NoRefresh} \cup Refreshing]
      BY <2>3 DEF DebridInv, DebridTypes
    <3>5. ASSUME NEW d \in Callers, refresh'[d] # NoRefresh PROVE refresh'[d].first <= added'
      <4>1. refresh'[d].first = refresh[d].first /\ refresh[d] # NoRefresh
        BY <1>1, <2>3, <3>5 DEF DebridInv, DebridTypes
      <4>2. refresh[d].first <= added /\ refresh[d].first \in 0 .. MaxTorrents
        BY <4>1 DEF DebridInv, DebridTypes, Refreshing
      <4> QED
        BY <1>4, <2>1, <4>1, <4>2
    <3>6. refresh'["job"] # NoRefresh => refresh["job"] # NoRefresh
      BY <1>1, <2>3 DEF DebridInv, DebridTypes
    <3> QED
      BY <1>1, <3>1, <3>2, <3>3, <3>4, <3>5, <3>6 DEF DebridInv, DebridTypes
  <2>5. ASSUME NEW d \in Callers, d # c PROVE Own(d)'
    <3>1. refresh'[d] = refresh[d]
      BY <2>3, <2>5 DEF DebridInv, DebridTypes
    <3> QED
      BY <1>1, <1>4, <2>2, <2>5, <3>1, OwnStays DEF DebridInv
  <2>6. Own(c)'
    <3>1. refresh'[c] = r
      BY <2>3 DEF DebridInv, DebridTypes
    <3>2. Mine(c)' \subseteq Mine(c) \cup {t}
      BY <1>4, <2>3, <3>1 DEF Mine
    <3>3. \A u \in Mine(c)' : u.magnet = r.magnet
      BY <1>1, <2>2, <2>3, <3>2 DEF DebridInv, Own
    <3>4. c \notin deleteLost => \A u, v \in Mine(c)' : u = v
      BY <1>1, <3>2 DEF DebridInv, Own
    <3> QED
      BY <1>1, <2>3, <3>1, <3>3, <3>4 DEF Own
  <2> QED
    BY <2>4, <2>5, <2>6 DEF DebridInv
<1> QED
  BY <1>3, <1>4 DEF AddMagnet

LEMMA ResolveInv ==
  ASSUME DebridInv, NEW c \in Callers, Resolve(c)
  PROVE  DebridInv'
<1>1. /\ refresh[c] \in Refreshing /\ refresh[c].at = "select"
      /\ UNCHANGED <<account, added, walk, cached, requests, deleteLost>>
      /\ refresh[c].last \in 0 .. MaxTorrents
  BY AtRefreshing DEF Resolve, DebridInv, Refreshing
<1>2. PICK r \in Refreshing : /\ refresh' = [refresh EXCEPT ![c] = r]
                              /\ r.at \in {"clear", "ok", "failed"}
                              /\ r.first = refresh[c].first /\ r.magnet = refresh[c].magnet
  BY <1>1, RetryOrFinish DEF Resolve
<1> QED
  BY <1>1, <1>2, RefreshGoes

(* A refresh begins with nothing of its own in the account. *)
LEMMA BegunInv ==
  ASSUME DebridInv, NEW c \in Callers, NEW m \in Magnet, refresh' = Begun(c, m),
         UNCHANGED <<account, added, walk, cached>>, deleteLost' = deleteLost \ {c},
         requests' \in 0 .. MaxRequests,
         c = "job" => walk.next \in 1 .. Len(Favs)
  PROVE  DebridInv'
<1> DEFINE r == [at |-> "add", magnet |-> m, attempt |-> 1, last |-> 0, first |-> added, ids |-> {}]
<1>1. refresh' = [refresh EXCEPT ![c] = r]
  BY DEF Begun
<1>2. added \in 0 .. MaxTorrents /\ \A t \in account : t.id <= added /\ t.id \in 1 .. MaxTorrents
  BY DEF DebridInv, DebridTypes
<1>3. r \in Refreshing
  <2>1. 1 \in 1 .. MaxRetries /\ 0 \in 0 .. MaxTorrents
    BY DebridAssumption, DebridBounds
  <2> QED
    BY <1>2, <2>1 DEF Refreshing, Begins
<1>4. r.first = added /\ r.at = "add"
  OBVIOUS
<1> HIDE DEF r
<1>5. DebridTypes'
  <2>1. refresh' \in [Callers -> {NoRefresh} \cup Refreshing]
    BY <1>1, <1>3 DEF DebridInv, DebridTypes
  <2>2. ASSUME NEW d \in Callers, refresh'[d] # NoRefresh PROVE refresh'[d].first <= added'
    <3>1. CASE d = c
      <4>1. refresh'[d].first = added
        BY <1>1, <1>4, <3>1 DEF DebridInv, DebridTypes
      <4> QED
        BY <1>2, <4>1
    <3>2. CASE d # c
      <4>1. refresh'[d] = refresh[d]
        BY <1>1, <3>2 DEF DebridInv, DebridTypes
      <4> QED
        BY <2>2, <4>1 DEF DebridInv, DebridTypes
    <3> QED
      BY <3>1, <3>2
  <2>3. refresh'["job"] # NoRefresh => walk.next \in 1 .. Len(Favs)
    BY <1>1, RefreshingIs DEF DebridInv, DebridTypes
  <2> QED
    BY <2>1, <2>2, <2>3 DEF DebridInv, DebridTypes
<1>6. ASSUME NEW d \in Callers, d # c PROVE Own(d)'
  <2>1. refresh'[d] = refresh[d]
    BY <1>1, <1>6 DEF DebridInv, DebridTypes
  <2> QED
    BY <1>6, <2>1, OwnStays DEF DebridInv
<1>7. Own(c)'
  <2>1. refresh'[c] = r
    BY <1>1 DEF DebridInv, DebridTypes
  <2>2. \A t \in account : ~(t.id > added)
    BY <1>2
  <2>3. Mine(c)' = {}
    BY <1>4, <2>1, <2>2 DEF Mine
  <2> QED
    BY <1>4, <2>1, <2>3 DEF Own
<1> QED
  BY <1>5, <1>6, <1>7 DEF DebridInv

(* The other steps end refreshes and walk through the favorites. *)
LEMMA RestInv ==
  ASSUME DebridInv, UNCHANGED <<account, added, requests, deleteLost>>,
         \/ refresh' = refresh
         \/ \E c \in Callers : refresh' = [refresh EXCEPT ![c] = NoRefresh],
         walk' \in [next : 0 .. Len(Favs) + 1, refreshed : Nat, skipped : Nat, failed : Nat],
         walk' = walk \/ refresh'["job"] = NoRefresh,
         cached' \subseteq Magnet
  PROVE  DebridInv'
<1>1. \A c \in Callers : refresh'[c] = NoRefresh \/ refresh'[c] = refresh[c]
  BY DEF DebridInv, DebridTypes
<1>2. refresh' \in [Callers -> {NoRefresh} \cup Refreshing]
  BY DEF DebridInv, DebridTypes
<1>3. DebridTypes'
  BY <1>1, <1>2, RefreshingIs DEF DebridInv, DebridTypes
<1>4. \A c \in Callers : Own(c)'
  <2> TAKE c \in Callers
  <2>1. CASE refresh'[c] = NoRefresh
    BY <2>1 DEF Own
  <2>2. CASE refresh'[c] = refresh[c]
    BY <2>2, OwnStays DEF DebridInv
  <2> QED
    BY <1>1, <2>1, <2>2
<1> QED
  BY <1>3, <1>4 DEF DebridInv

LEMMA FavsType == Len(Favs) \in Nat /\ \A n \in 1 .. Len(Favs) : Favs[n] \in [magnet : Magnet, keyed : BOOLEAN]
<1> DEFINE Fav == [magnet : Magnet, keyed : BOOLEAN]
<1>1. Favs \in Seq(Fav)
  BY DebridAssumption
<1> HIDE DEF Fav
<1>2. Len(Favs) \in Nat /\ \A n \in 1 .. Len(Favs) : Favs[n] \in Fav
  BY <1>1
<1> QED
  BY <1>2 DEF Fav

LEMMA DebridInitInv == DebridInit => DebridInv
<1> SUFFICES ASSUME DebridInit PROVE DebridInv
  OBVIOUS
<1>1. added \in 0 .. MaxTorrents /\ requests \in 0 .. MaxRequests
  <2>1. added = 0 /\ requests = 0
    BY DEF DebridInit
  <2> QED
    BY <2>1, DebridBounds
<1>2. walk \in [next : 0 .. Len(Favs) + 1, refreshed : Nat, skipped : Nat, failed : Nat]
  <2>1. 0 \in 0 .. Len(Favs) + 1 /\ 0 \in Nat
    BY FavsType
  <2> QED
    BY <2>1 DEF DebridInit, NoWalk
<1>3. \A c \in Callers : refresh[c] = NoRefresh
  BY DEF DebridInit
<1>4. account = {} /\ cached = {} /\ deleteLost = {} /\ refresh \in [Callers -> {NoRefresh} \cup Refreshing]
  BY DEF DebridInit
<1> QED
  BY <1>1, <1>2, <1>3, <1>4, RefreshingIs DEF DebridInv, DebridTypes, Own

LEMMA DebridStepInv == DebridInv /\ [DebridNext]_debridVars => DebridInv'
<1> SUFFICES ASSUME DebridInv, [DebridNext]_debridVars PROVE DebridInv'
  OBVIOUS
<1> DEFINE Walk == [next : 0 .. Len(Favs) + 1, refreshed : Nat, skipped : Nat, failed : Nat]
<1>0. walk \in Walk /\ walk.next \in 0 .. Len(Favs) + 1 /\ Len(Favs) \in Nat /\ cached \subseteq Magnet
  BY FavsType DEF DebridInv, DebridTypes
<1>1. CASE UNCHANGED debridVars
  BY <1>0, <1>1, RestInv DEF debridVars
<1>2. ASSUME NEW m \in Magnet, UserRefresh(m) PROVE DebridInv'
  <2>1. requests' \in 0 .. MaxRequests
    <3>1. requests < MaxRequests /\ requests' = requests + 1 /\ requests \in 0 .. MaxRequests
      BY <1>2 DEF UserRefresh, DebridInv, DebridTypes
    <3> QED
      BY <3>1, DebridBounds
  <2> QED
    BY <1>2, <2>1, BegunInv, RefreshingIs DEF UserRefresh
<1>3. CASE UserAnswered
  <2>1. refresh["user"].at = "ok" => refresh["user"].magnet \in Magnet
    BY AtRefreshing, RefreshingIs DEF DebridInv, Refreshing
  <2>2. cached' \subseteq Magnet
    BY <1>0, <1>3, <2>1 DEF UserAnswered
  <2> QED
    BY <1>0, <1>3, <2>2, RestInv, RefreshingIs DEF UserAnswered, Sets
<1>4. CASE StreamURLRefresh
  <2>1. refresh["job"] = NoRefresh
    BY <1>4 DEF StreamURLRefresh, DebridInv, DebridTypes
  <2>2. 1 \in 0 .. Len(Favs) + 1 /\ 0 \in Nat
    BY <1>0
  <2>3. walk' \in Walk
    BY <1>4, <2>2 DEF StreamURLRefresh, NoWalk
  <2> QED
    BY <1>0, <1>4, <2>1, <2>3, RestInv DEF StreamURLRefresh
<1>5. CASE SkipFavorite
  <2>1. walk.next + 1 \in 0 .. Len(Favs) + 1 /\ walk.skipped + 1 \in Nat /\ refresh["job"] = NoRefresh
    <3>1. walk.next \in 1 .. Len(Favs) /\ walk.skipped \in Nat /\ refresh["job"] = NoRefresh
      BY <1>0, <1>5 DEF SkipFavorite, JobFree
    <3> QED
      BY <1>0, <3>1
  <2>2. walk' = [walk EXCEPT !.next = @ + 1, !.skipped = @ + 1]
    BY <1>5 DEF SkipFavorite
  <2>3. walk' \in Walk
    BY <1>0, <2>1, <2>2
  <2> QED
    BY <1>0, <1>5, <2>1, <2>3, RestInv DEF SkipFavorite
<1>6. CASE RefreshFavorite
  <2>1. walk.next \in 1 .. Len(Favs) /\ Current.magnet \in Magnet
    BY <1>6, FavsType DEF RefreshFavorite, JobFree, Current
  <2>2. requests' \in 0 .. MaxRequests
    BY <1>6 DEF RefreshFavorite, DebridInv, DebridTypes
  <2> QED
    BY <1>6, <2>1, <2>2, BegunInv, RefreshingIs DEF RefreshFavorite
<1>7. CASE FavoriteDone
  <2>1. refresh["job"] # NoRefresh /\ refresh["job"] \in Refreshing
    BY <1>7, AtRefreshing, RefreshingIs DEF FavoriteDone, DebridInv
  <2>2. walk.next \in 1 .. Len(Favs) /\ walk.refreshed \in Nat /\ walk.failed \in Nat
    BY <1>0, <2>1 DEF DebridInv, DebridTypes
  <2>3. walk.next + 1 \in 0 .. Len(Favs) + 1 /\ walk.refreshed + 1 \in Nat /\ walk.failed + 1 \in Nat
    BY <1>0, <2>2
  <2>4. walk' \in Walk
    <3>1. \A ok, stored \in BOOLEAN : Counted(walk, ok, stored) \in Walk
                                      /\ Counted(walk, ok, stored).next = walk.next
      BY <1>0, <2>3 DEF Counted
    <3>2. PICK w \in Walk : w.next = walk.next /\ walk' = [w EXCEPT !.next = @ + 1]
      BY <1>7, <3>1 DEF FavoriteDone
    <3> QED
      BY <2>3, <3>2
  <2>5. cached' \subseteq Magnet /\ refresh' = [refresh EXCEPT !["job"] = NoRefresh]
    BY <1>0, <1>7, <2>1 DEF FavoriteDone, Sets, Refreshing
  <2>6. refresh'["job"] = NoRefresh
    BY <2>5, RefreshingIs DEF DebridInv, DebridTypes
  <2> QED
    BY <1>7, <2>4, <2>5, <2>6, RestInv, RefreshingIs DEF FavoriteDone
<1>8. CASE WalkOver
  <2>1. refresh["job"] = NoRefresh
    <3>1. refresh["job"] # NoRefresh => walk.next \in 1 .. Len(Favs)
      BY DEF DebridInv, DebridTypes
    <3>2. walk.next > Len(Favs) => refresh["job"] = NoRefresh
      BY <1>0, <3>1
    <3> QED
      BY <1>8, <3>2 DEF WalkOver
  <2>2. 0 \in 0 .. Len(Favs) + 1 /\ 0 \in Nat
    BY <1>0
  <2>3. walk' \in Walk
    BY <1>8, <2>2 DEF WalkOver, NoWalk
  <2> QED
    BY <1>0, <1>8, <2>1, <2>3, RestInv DEF WalkOver
<1> QED
  BY <1>1, <1>2, <1>3, <1>4, <1>5, <1>6, <1>7, <1>8, ClearLastInv, ListTorrentsInv, SweepTorrentsInv,
     AddMagnetInv, ResolveInv DEF DebridNext

LEMMA DebridInvariance == DebridSpec => []DebridInv
  BY DebridInitInv, DebridStepInv, PTL DEF DebridSpec

(* Every variable of the link refresh has its type. *)
THEOREM DebridTypeCorrect == DebridSpec => []DebridTypeOK
<1>1. DebridInv => DebridTypeOK
  BY DEF DebridInv, DebridTypes, DebridTypeOK, Refreshing
<1> QED
  BY <1>1, DebridInvariance, PTL

(* For any number of tries, favorites and lost answers, a refresh whose deletions  *)
(* and listings worked leaves one torrent of its own (client.go:117-260).            *)
THEOREM LeavesOneHolds == DebridSpec => []LeavesOne
<1>1. DebridInv => LeavesOne
  <2> SUFFICES ASSUME DebridInv, NEW c \in Callers \ deleteLost,
                      refresh[c].at \in {"select", "ok", "failed"}
               PROVE  Cardinality(Mine(c)) <= 1
    BY DEF LeavesOne, Mine
  <2>1. refresh[c] # NoRefresh
    BY AtRefreshing DEF DebridInv
  <2>2. \A t, u \in Mine(c) : t = u
    BY <2>1 DEF DebridInv, Own
  <2>3. CASE Mine(c) = {}
    <3>1. Cardinality(Mine(c)) = 0
      BY <2>3, FS_EmptySet
    <3> QED
      BY <3>1
  <2>4. CASE Mine(c) # {}
    <3>1. PICK t : Mine(c) = {t}
      BY <2>2, <2>4
    <3>2. Cardinality(Mine(c)) = 1
      BY <3>1, FS_Singleton
    <3> QED
      BY <3>2
  <2> QED
    BY <2>3, <2>4
<1> QED
  BY <1>1, DebridInvariance, PTL
=============================================================================
