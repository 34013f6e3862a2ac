----------------------------- MODULE Entry_proofs -----------------------------
(****************************************************************************)
(* InnovateDetails for any number of surveys and refreshes and for any      *)
(* times: what the stamps of a survey may be trusted for.  ProfileReuse for *)
(* any number of requests, attempts and profiles and for any limits: what   *)
(* a reuse that commits has been allowed, and what it is counted against.   *)
(* Last, both in the composition that the runs check.                       *)
(****************************************************************************)
EXTENDS MCEntry, FiniteSetTheorems, TLAPS

FetchRow ==
  [pc : {"idle", "ask", "store", "look", "stamp"}, study : Studies,
   collection : Collections, both : BOOLEAN, reply : Stamp]

\* No date that is known here or underway is later than the provider's.
DatesOK ==
  /\ \A s \in Studies :
       study[s].modified =< modified[s] /\ inventory.payload[s] =< modified[s]
  /\ \A w \in Fetchers : fetch[w].pc = "store" =>
       1 =< fetch[w].reply /\ fetch[w].reply =< modified[fetch[w].study]

\* The rows that the run has read can only be older than those that are stored.
ReadOK ==
  inventory.pc = "read" =>
    \A s \in Studies, c \in Collections :
      inventory.read[s].synced[c] =< study[s].synced[c]

\* The dates a row has or may come to have.
Dates(s) == {modified[s], study[s].modified, inventory.payload[s]}

\* A date that what is stored does not reach makes the collection stale.
NoticedOK ==
  \A s \in Studies, c \in Collections : <<s, c>> \notin unnoticed =>
    \A m \in Dates(s) : m > stored[s][c] => m > study[s].synced[c]

\* A stamp says that something has been stored.
Stored(r, t) ==
  /\ \A c \in Collections : r.synced[c] # 0 => t[c] # 0
  /\ r.detail # 0 => \A c \in Collections : t[c] # 0

StoredOK ==
  /\ \A s \in Studies : Stored(study[s], stored[s])
  /\ inventory.pc = "read" => \A s \in Studies : Stored(inventory.read[s], stored[s])
  /\ \A w \in Fetchers : fetch[w].pc = "stamp" =>
       \A c \in Collections : stored[fetch[w].study][c] # 0

IInv == InnovateTypeOK /\ DatesOK /\ ReadOK /\ NoticedOK /\ StoredOK

-----------------------------------------------------------------------------

LEMMA NothingRead ==
  NoFetch \in FetchRow /\ NoFetch.pc = "idle"
<1>1. (CHOOSE s \in Studies : TRUE) \in Studies
  BY InnovateAssumption
<1> QED
  BY <1>1, InnovateAssumption DEF NoFetch, FetchRow, Collections, Stamp

\* What a refresh does next: its types, and that it holds no answer.
LEMMA OnwardRow ==
  ASSUME NEW f \in FetchRow, f.pc \in {"ask", "store"}
  PROVE  /\ Onward(f) \in FetchRow
         /\ Onward(f).pc \in {"idle", "ask", "look"}
         /\ Onward(f).pc = "look" => Onward(f).both
<1> DEFINE next == [f EXCEPT !.pc = "ask", !.collection = "targeting", !.reply = 0]
           look == [f EXCEPT !.pc = "look", !.reply = 0]
<1>1. 0 \in Stamp /\ "targeting" \in Collections
  BY InnovateAssumption DEF Stamp, Collections
<1>2. CASE f.both /\ f.collection = "quotas"
  <2>1. next \in FetchRow /\ next.pc = "ask"
    BY <1>1 DEF FetchRow
  <2>2. Onward(f) = next
    BY <1>2 DEF Onward
  <2> QED
    BY <2>1, <2>2
<1>3. CASE f.both /\ f.collection # "quotas"
  <2>1. look \in FetchRow /\ look.pc = "look" /\ look.both
    BY <1>1, <1>3 DEF FetchRow
  <2>2. Onward(f) = look
    BY <1>3 DEF Onward
  <2> QED
    BY <2>1, <2>2
<1>4. CASE ~f.both
  BY <1>4, NothingRead DEF Onward
<1> QED
  BY <1>2, <1>3, <1>4

\* The provider's dates are stamps.
LEMMA Numbers ==
  ASSUME InnovateTypeOK
  PROVE  \A s \in Studies : modified[s] \in Stamp /\ modified[s] \in Nat
<1> SUFFICES ASSUME NEW s \in Studies PROVE modified[s] \in Stamp /\ modified[s] \in Nat
  OBVIOUS
<1>1. modified[s] \in Hours
  BY DEF InnovateTypeOK
<1> QED
  BY <1>1, InnovateAssumption DEF Hours, Stamp

LEMMA InitOK == InnovateInit => IInv
<1> SUFFICES ASSUME InnovateInit PROVE IInv
  OBVIOUS
<1> USE InnovateAssumption DEF InnovateInit
<1>1. NoStudy \in StudyRow /\ NoStudy.modified = 0 /\ NoStudy.detail = 0
      /\ \A c \in Collections : NoStudy.synced[c] = 0
  BY DEF NoStudy, StudyRow, Stamp
<1>2. inventory.pc = "idle" /\ inventory.payload \in [Studies -> Stamp]
      /\ inventory.read \in [Studies -> StudyRow]
      /\ \A s \in Studies : inventory.payload[s] = 0
  BY <1>1 DEF NoInventory, Stamp
<1>3. inventory \in [pc : {"idle", "fetched", "read"}, payload : [Studies -> Stamp],
                     read : [Studies -> StudyRow]]
  BY <1>1 DEF NoInventory, Stamp
<1>4. \A s \in Studies : study[s] = NoStudy
  OBVIOUS
<1>5. \A w \in Fetchers : fetch[w] \in FetchRow /\ fetch[w].pc = "idle"
  BY NothingRead
<1>6. InnovateTypeOK
  BY <1>1, <1>3, <1>4, <1>5, NothingRead
  DEF InnovateTypeOK, FetchRow, Hours, Stamp
<1>7. DatesOK
  BY <1>1, <1>2, <1>4, <1>5 DEF DatesOK
<1>8. ReadOK
  BY <1>2 DEF ReadOK
<1>9. NoticedOK
  BY <1>1, <1>2, <1>4 DEF NoticedOK, Dates, Stamp
<1>10. StoredOK
  BY <1>1, <1>2, <1>4, <1>5 DEF StoredOK, Stored
<1> QED
  BY <1>6, <1>7, <1>8, <1>9, <1>10 DEF IInv

-----------------------------------------------------------------------------
(* The steps *)

\* A step of a refresh that stores nothing.
LEMMA FetchStep ==
  ASSUME IInv, NEW w \in Fetchers, NEW f \in FetchRow,
         fetch' = [fetch EXCEPT ![w] = f],
         fetchFaults' \in 0 .. MaxFetchFaults,
         UNCHANGED <<hour, modified, study, stored, inventory, unnoticed>>,
         f.pc \in {"look", "stamp"} => f.both,
         f.pc = "store" => 1 =< f.reply /\ f.reply =< modified[f.study],
         f.pc = "stamp" => \A c \in Collections : stored[f.study][c] # 0
  PROVE  IInv'
<1> USE DEF IInv
<1>1. fetch' \in [Fetchers -> FetchRow] /\ fetch'[w] = f
      /\ \A v \in Fetchers : v # w => fetch'[v] = fetch[v]
  BY DEF InnovateTypeOK, FetchRow
<1>2. InnovateTypeOK'
  BY <1>1 DEF InnovateTypeOK, FetchRow, Hours
<1>3. DatesOK'
  BY <1>1 DEF DatesOK
<1>4. ReadOK'
  BY DEF ReadOK
<1>5. NoticedOK'
  BY DEF NoticedOK, Dates
<1>6. StoredOK'
  BY <1>1 DEF StoredOK, Stored
<1> QED
  BY <1>2, <1>3, <1>4, <1>5, <1>6

LEMMA Fetches ==
  ASSUME IInv, NEW w \in Fetchers
  PROVE  /\ \A s \in Studies : RefreshBoth(w, s) => IInv'
         /\ \A s \in Studies, c \in Collections : RefreshOne(w, s, c) => IInv'
         /\ AskProvider(w) => IInv'
         /\ FetchFails(w) => IInv'
         /\ LookAtStamps(w) => IInv'
<1>0. fetch[w] \in FetchRow /\ fetch[w].study \in Studies /\ fetchFaults \in 0 .. MaxFetchFaults
  BY DEF IInv, InnovateTypeOK, FetchRow
<1>1. ASSUME NEW s \in Studies, RefreshBoth(w, s) PROVE IInv'
  <2> DEFINE f == [NoFetch EXCEPT !.pc = "ask", !.study = s, !.both = TRUE]
  <2>1. f \in FetchRow /\ f.pc = "ask"
    BY NothingRead DEF FetchRow
  <2>2. fetch' = [fetch EXCEPT ![w] = f]
    BY <1>1 DEF RefreshBoth
  <2> HIDE DEF f
  <2> QED
    BY <1>0, <1>1, <2>1, <2>2, FetchStep DEF RefreshBoth
<1>2. ASSUME NEW s \in Studies, NEW c \in Collections, RefreshOne(w, s, c) PROVE IInv'
  <2> DEFINE f == [NoFetch EXCEPT !.pc = "ask", !.study = s, !.collection = c]
  <2>1. f \in FetchRow /\ f.pc = "ask"
    BY NothingRead DEF FetchRow
  <2>2. fetch' = [fetch EXCEPT ![w] = f]
    BY <1>2 DEF RefreshOne
  <2> HIDE DEF f
  <2> QED
    BY <1>0, <1>2, <2>1, <2>2, FetchStep DEF RefreshOne
<1>3. ASSUME AskProvider(w) PROVE IInv'
  <2> DEFINE f == [fetch[w] EXCEPT !.pc = "store", !.reply = modified[fetch[w].study]]
  <2>1. modified[fetch[w].study] \in 1 .. LastHour
    BY <1>0 DEF IInv, InnovateTypeOK, Hours
  <2>2. f \in FetchRow /\ f.pc = "store" /\ f.reply = modified[fetch[w].study]
        /\ f.study = fetch[w].study
    <3>1. modified[fetch[w].study] \in Stamp
      BY <2>1, InnovateAssumption DEF Stamp
    <3> QED
      BY <1>0, <3>1 DEF FetchRow
  <2>3. fetch' = [fetch EXCEPT ![w] = f]
    BY <1>3 DEF AskProvider
  <2> HIDE DEF f
  <2>4. 1 =< f.reply /\ f.reply =< modified[f.study]
    BY <2>1, <2>2
  <2>5. /\ fetchFaults' \in 0 .. MaxFetchFaults
        /\ UNCHANGED <<hour, modified, study, stored, inventory, unnoticed>>
    BY <1>0, <1>3 DEF AskProvider
  <2> QED
    BY <2>2, <2>3, <2>4, <2>5, FetchStep
<1>4. ASSUME FetchFails(w) PROVE IInv'
  <2> DEFINE f == Onward(fetch[w])
  <2>1. f \in FetchRow /\ f.pc \in {"idle", "ask", "look"} /\ (f.pc = "look" => f.both)
    BY <1>0, <1>4, OnwardRow DEF FetchFails
  <2>2. fetch' = [fetch EXCEPT ![w] = f] /\ fetchFaults' \in 0 .. MaxFetchFaults
    BY <1>0, <1>4, InnovateAssumption DEF FetchFails
  <2> HIDE DEF f
  <2> QED
    BY <1>4, <2>1, <2>2, FetchStep DEF FetchFails
<1>5. ASSUME LookAtStamps(w) PROVE IInv'
  <2> DEFINE s == fetch[w].study
             oldest == OlderOf(study[s].synced)
             stamp == [fetch[w] EXCEPT !.pc = "stamp", !.reply = oldest]
             f == IF oldest = 0 THEN NoFetch ELSE stamp
  <2>1. study[s] \in StudyRow /\ \A c \in Collections : study[s].synced[c] \in Stamp
    BY <1>0 DEF IInv, InnovateTypeOK, StudyRow
  <2>2. oldest \in Stamp /\ (oldest # 0 => \A c \in Collections : study[s].synced[c] # 0)
    BY <2>1, InnovateAssumption DEF OlderOf, Collections, Stamp
  <2>3. oldest # 0 => \A c \in Collections : stored[s][c] # 0
    BY <1>0, <2>2 DEF IInv, StoredOK, Stored
  <2>4. fetch[w].pc = "look" /\ fetch[w].both
    BY <1>5 DEF LookAtStamps, IInv, InnovateTypeOK
  <2> HIDE DEF oldest
  <2>5. stamp \in FetchRow /\ stamp.pc = "stamp" /\ stamp.both /\ stamp.study = s
    BY <1>0, <2>2, <2>4 DEF FetchRow
  <2>6. fetch' = [fetch EXCEPT ![w] = f]
    BY <1>5 DEF LookAtStamps, oldest
  <2> HIDE DEF stamp
  <2>7. f \in FetchRow /\ f.pc \in {"idle", "stamp"}
        /\ (f.pc = "stamp" => f.both /\ \A c \in Collections : stored[f.study][c] # 0)
    BY <2>3, <2>5, NothingRead
  <2> HIDE DEF f
  <2> QED
    BY <1>0, <1>5, <2>6, <2>7, FetchStep DEF LookAtStamps
<1> QED
  BY <1>1, <1>2, <1>3, <1>4, <1>5

\* The refresh that stores stamps with the present hour, and notices whether the
\* provider has moved on.
LEMMA Stores ==
  ASSUME IInv, NEW w \in Fetchers, StoreCollection(w)
  PROVE  IInv'
<1> DEFINE f == fetch[w]
           s == f.study
           c == f.collection
           t == Onward(f)
<1>1. f \in FetchRow /\ s \in Studies /\ c \in Collections /\ f.reply \in Stamp
      /\ 1 =< f.reply /\ f.reply =< modified[s] /\ f.pc = "store"
  BY DEF IInv, InnovateTypeOK, DatesOK, FetchRow, StoreCollection
<1>2. t \in FetchRow /\ t.pc \in {"idle", "ask", "look"} /\ (t.pc = "look" => t.both)
  BY <1>1, OnwardRow
<1>3. /\ fetch' \in [Fetchers -> FetchRow] /\ fetch'[w] = t
      /\ \A v \in Fetchers : v # w => fetch'[v] = fetch[v]
  BY <1>2 DEF IInv, InnovateTypeOK, FetchRow, StoreCollection
<1>4. /\ study' \in [Studies -> StudyRow]
      /\ \A x \in Studies : /\ study'[x].modified = study[x].modified
                            /\ study'[x].detail = study[x].detail
                            /\ study'[x].known = study[x].known
      /\ \A x \in Studies, d \in Collections :
           study'[x].synced[d] = IF x = s /\ d = c THEN hour ELSE study[x].synced[d]
  <2>1. hour \in Stamp
    BY InnovateAssumption DEF IInv, InnovateTypeOK, Hours, Stamp
  <2> DEFINE synced == [study[s].synced EXCEPT ![c] = hour]
  <2>2. study' = [study EXCEPT ![s] = [study[s] EXCEPT !.synced = synced]]
    BY DEF StoreCollection
  <2>3. study \in [Studies -> StudyRow] /\ study[s].synced \in [Collections -> Stamp]
    BY <1>1 DEF IInv, InnovateTypeOK, StudyRow
  <2>4. synced \in [Collections -> Stamp]
        /\ \A d \in Collections : synced[d] = IF d = c THEN hour ELSE study[s].synced[d]
    BY <1>1, <2>1, <2>3
  <2> HIDE DEF synced, s, c
  <2>5. study' \in [Studies -> StudyRow]
        /\ study'[s] = [study[s] EXCEPT !.synced = synced]
        /\ \A x \in Studies : x # s => study'[x] = study[x]
    BY <1>1, <2>2, <2>3, <2>4 DEF StudyRow
  <2>6. /\ study'[s].modified = study[s].modified /\ study'[s].detail = study[s].detail
        /\ study'[s].known = study[s].known /\ study'[s].synced = synced
    BY <1>1, <2>3, <2>5 DEF StudyRow
  <2>7. \A d \in Collections : study'[s].synced[d] = IF d = c THEN hour ELSE study[s].synced[d]
    BY <2>4, <2>6
  <2> QED
    BY <2>5, <2>6, <2>7
<1>5. /\ stored' \in [Studies -> [Collections -> Stamp]]
      /\ \A x \in Studies, d \in Collections :
           stored'[x][d] = IF x = s /\ d = c THEN f.reply ELSE stored[x][d]
  BY <1>1 DEF IInv, InnovateTypeOK, StoreCollection
<1>6. UNCHANGED <<hour, modified, inventory, fetchFaults>>
  BY DEF StoreCollection
<1>7. /\ unnoticed' \subseteq Studies \X Collections
      /\ \A x \in Studies, d \in Collections :
           <<x, d>> \notin unnoticed' => IF x = s /\ d = c THEN f.reply = modified[s]
                                         ELSE <<x, d>> \notin unnoticed
  <2>1. f.reply \in Nat /\ modified[s] \in Nat
    <3>1. modified[s] \in Hours /\ f.reply \in Stamp
      BY <1>1 DEF IInv, InnovateTypeOK
    <3> QED
      BY <3>1, InnovateAssumption DEF Hours, Stamp
  <2>2. f.reply =< modified[s]
    BY <1>1
  <2>3. f.reply < modified[s] \/ f.reply = modified[s]
    <3> HIDE DEF f, s
    <3> QED
      BY <2>1, <2>2
  <2>4. unnoticed \subseteq Studies \X Collections
    BY DEF IInv, InnovateTypeOK
  <2>5. unnoticed' = IF f.reply < modified[s] THEN unnoticed \cup {<<s, c>>}
                     ELSE unnoticed \ {<<s, c>>}
    BY DEF StoreCollection
  <2> HIDE DEF f, s, c
  <2> QED
    BY <1>1, <2>3, <2>4, <2>5
<1> HIDE DEF f, s, c, t
<1>8. hour \in Nat /\ \A x \in Studies : modified[x] \in Nat
  BY DEF IInv, InnovateTypeOK, Hours
<1>9. \A x \in Studies, d \in Collections : study[x].synced[d] =< hour /\ study[x].synced[d] \in Nat
  BY DEF IInv, InnovateTypeOK, StudyRow, Stamp
<1>10. InnovateTypeOK'
  <2>1. \A x \in Studies, d \in Collections : study'[x].synced[d] =< hour'
    BY <1>4, <1>6, <1>8, <1>9
  <2>2. \A v \in Fetchers : fetch'[v].pc \in {"look", "stamp"} => fetch'[v].both
    BY <1>2, <1>3 DEF IInv, InnovateTypeOK
  <2> QED
    BY <1>3, <1>4, <1>5, <1>6, <1>7, <2>1, <2>2 DEF IInv, InnovateTypeOK, FetchRow, Hours
<1>11. DatesOK'
  BY <1>2, <1>3, <1>4, <1>6 DEF IInv, DatesOK
<1>12. ReadOK'
  <2> SUFFICES ASSUME inventory'.pc = "read", NEW x \in Studies, NEW d \in Collections
               PROVE  inventory'.read[x].synced[d] =< study'[x].synced[d]
    BY DEF ReadOK
  <2>1. inventory.read[x].synced[d] =< study[x].synced[d]
    BY <1>6 DEF IInv, ReadOK
  <2>2. inventory.read[x].synced[d] \in Nat
    BY DEF IInv, InnovateTypeOK, StudyRow, Stamp
  <2> QED
    BY <1>4, <1>6, <1>8, <1>9, <2>1, <2>2
<1>13. NoticedOK'
  <2> SUFFICES ASSUME NEW x \in Studies, NEW d \in Collections, <<x, d>> \notin unnoticed',
                      NEW m \in Dates(x)', m > stored'[x][d]
               PROVE  m > study'[x].synced[d]
    BY DEF NoticedOK
  <2>1. m \in Dates(x) /\ m \in Nat /\ m =< modified[x]
    BY <1>4, <1>6, <1>8 DEF IInv, InnovateTypeOK, DatesOK, Dates, StudyRow, Stamp
  <2>2. ~(x = s /\ d = c)
    BY <1>1, <1>5, <1>7, <1>8, <2>1
  <2> QED
    BY <1>4, <1>5, <1>7, <2>1, <2>2 DEF IInv, NoticedOK
<1>14. StoredOK'
  <2>1. \A x \in Studies, d \in Collections : stored[x][d] # 0 => stored'[x][d] # 0
    BY <1>1, <1>5
  <2>2. stored'[s][c] # 0
    BY <1>1, <1>5
  <2>3. \A x \in Studies : Stored(study'[x], stored'[x])
    BY <1>4, <2>1, <2>2 DEF IInv, StoredOK, Stored
  <2>4. inventory'.pc = "read" => \A x \in Studies : Stored(inventory'.read[x], stored'[x])
    BY <1>6, <2>1 DEF IInv, StoredOK, Stored
  <2>5. \A v \in Fetchers : fetch'[v].pc = "stamp" =>
          /\ fetch[v].pc = "stamp" /\ fetch'[v].study = fetch[v].study
          /\ fetch[v].study \in Studies
    BY <1>2, <1>3 DEF IInv, InnovateTypeOK
  <2>6. \A v \in Fetchers : fetch'[v].pc = "stamp" =>
          \A d \in Collections : stored'[fetch'[v].study][d] # 0
    BY <2>1, <2>5 DEF IInv, StoredOK
  <2> QED
    BY <2>3, <2>4, <2>6 DEF StoredOK
<1> QED
  BY <1>10, <1>11, <1>12, <1>13, <1>14 DEF IInv

LEMMA Stamps ==
  ASSUME IInv, NEW w \in Fetchers, StampDetails(w)
  PROVE  IInv'
<1> DEFINE f == fetch[w]
<1>1. f \in FetchRow /\ f.study \in Studies /\ f.reply \in Stamp /\ f.pc = "stamp"
  BY DEF IInv, InnovateTypeOK, FetchRow, StampDetails
<1>2. /\ fetch' \in [Fetchers -> FetchRow] /\ fetch'[w] = NoFetch
      /\ \A v \in Fetchers : v # w => fetch'[v] = fetch[v]
  BY NothingRead DEF IInv, InnovateTypeOK, FetchRow, StampDetails
<1>3. /\ study' \in [Studies -> StudyRow]
      /\ \A x \in Studies : /\ study'[x].modified = study[x].modified
                            /\ study'[x].known = study[x].known
                            /\ study'[x].synced = study[x].synced
                            /\ x # f.study => study'[x].detail = study[x].detail
  <2>1. study \in [Studies -> StudyRow]
    BY DEF IInv, InnovateTypeOK
  <2>2. study' = [study EXCEPT ![f.study] = [study[f.study] EXCEPT !.detail = f.reply]]
    BY DEF StampDetails
  <2> HIDE DEF f
  <2> QED
    BY <1>1, <2>1, <2>2 DEF StudyRow
<1>4. UNCHANGED <<hour, modified, stored, inventory, unnoticed, fetchFaults>>
  BY DEF StampDetails
<1> HIDE DEF f
<1>5. InnovateTypeOK'
  <2>1. \A x \in Studies, d \in Collections : study'[x].synced[d] =< hour'
    BY <1>3, <1>4 DEF IInv, InnovateTypeOK
  <2>2. \A v \in Fetchers : fetch'[v].pc \in {"look", "stamp"} => fetch'[v].both
    BY <1>2, NothingRead DEF IInv, InnovateTypeOK
  <2> QED
    BY <1>2, <1>3, <1>4, <2>1, <2>2 DEF IInv, InnovateTypeOK, FetchRow, Hours
<1>6. DatesOK'
  BY <1>2, <1>3, <1>4, NothingRead DEF IInv, DatesOK
<1>7. ReadOK'
  BY <1>3, <1>4 DEF IInv, ReadOK
<1>8. NoticedOK'
  BY <1>3, <1>4 DEF IInv, NoticedOK, Dates
<1>9. StoredOK'
  <2>1. \A d \in Collections : stored[f.study][d] # 0
    BY <1>1 DEF IInv, StoredOK, f
  <2>2. \A x \in Studies : Stored(study'[x], stored'[x])
    BY <1>3, <1>4, <2>1 DEF IInv, StoredOK, Stored
  <2> QED
    BY <1>2, <1>4, <2>2, NothingRead DEF IInv, StoredOK, Stored
<1> QED
  BY <1>5, <1>6, <1>7, <1>8, <1>9 DEF IInv

\* The run writes back the stamps it has read, under the date it has fetched.
LEMMA Writes ==
  ASSUME IInv, NEW changed \in SUBSET Studies, WriteStudies(changed)
  PROVE  IInv'
<1>1. /\ inventory.pc = "read" /\ inventory' = NoInventory
      /\ inventory.payload \in [Studies -> Stamp] /\ inventory.read \in [Studies -> StudyRow]
      /\ study' = [s \in Studies |-> IF s \in changed THEN Written(s) ELSE study[s]]
      /\ UNCHANGED <<hour, modified, stored, fetch, unnoticed, fetchFaults>>
  BY DEF WriteStudies, IInv, InnovateTypeOK
<1>2. \A s \in Studies :
        /\ Written(s) \in StudyRow
        /\ Written(s).modified = inventory.payload[s]
        /\ Written(s).synced = inventory.read[s].synced
        /\ Written(s).detail = inventory.read[s].detail
  BY <1>1 DEF Written, StudyRow
<1>3. /\ study' \in [Studies -> StudyRow]
      /\ \A s \in Studies : study'[s] = study[s] \/ study'[s] = Written(s)
  BY <1>1, <1>2 DEF IInv, InnovateTypeOK
<1>4. \A s \in Studies, c \in Collections :
        /\ study[s].synced[c] \in Nat /\ inventory.read[s].synced[c] \in Nat
        /\ study[s].synced[c] =< hour /\ hour \in Nat
        /\ inventory.read[s].synced[c] =< study[s].synced[c]
  BY <1>1 DEF IInv, InnovateTypeOK, ReadOK, StudyRow, Stamp, Hours
<1>5. \A s \in Studies, c \in Collections : study'[s].synced[c] =< study[s].synced[c]
                                             /\ study'[s].synced[c] \in Nat
  BY <1>2, <1>3, <1>4
<1>6. /\ inventory'.pc = "idle" /\ \A s \in Studies : inventory'.payload[s] = 0
      /\ inventory' \in [pc : {"idle", "fetched", "read"}, payload : [Studies -> Stamp],
                         read : [Studies -> StudyRow]]
  <2>1. NoStudy \in StudyRow
    BY InnovateAssumption DEF NoStudy, StudyRow, Stamp
  <2> QED
    BY <1>1, <2>1, InnovateAssumption DEF NoInventory, Stamp
<1>7. InnovateTypeOK'
  <2>1. \A s \in Studies, c \in Collections : study'[s].synced[c] =< hour'
    BY <1>1, <1>4, <1>5
  <2> QED
    BY <1>1, <1>3, <1>6, <2>1 DEF IInv, InnovateTypeOK, Hours
<1>8. DatesOK'
  <2>1. \A s \in Studies : modified[s] \in Nat
    BY Numbers DEF IInv
  <2>2. \A s \in Studies : study'[s].modified =< modified[s]
    BY <1>2, <1>3 DEF IInv, DatesOK
  <2> QED
    BY <1>1, <1>6, <2>1, <2>2 DEF IInv, DatesOK
<1>9. ReadOK'
  BY <1>6 DEF ReadOK
<1>10. NoticedOK'
  <2> SUFFICES ASSUME NEW s \in Studies, NEW c \in Collections, <<s, c>> \notin unnoticed',
                      NEW m \in Dates(s)', m > stored'[s][c]
               PROVE  m > study'[s].synced[c]
    BY DEF NoticedOK
  <2>1. stored[s][c] \in Nat
    BY DEF IInv, InnovateTypeOK, Stamp
  <2>2. m \in Dates(s) \/ m = 0
    BY <1>1, <1>2, <1>3, <1>6 DEF Dates
  <2>3. m \in Dates(s) /\ m > stored[s][c]
    BY <1>1, <2>1, <2>2
  <2>4. m > study[s].synced[c]
    BY <1>1, <2>3 DEF IInv, NoticedOK
  <2>5. m \in Nat
    BY <1>1, <2>3 DEF IInv, InnovateTypeOK, Dates, StudyRow, Stamp, Hours
  <2> QED
    BY <1>4, <1>5, <2>4, <2>5
<1>11. StoredOK'
  BY <1>1, <1>2, <1>3, <1>6 DEF IInv, StoredOK, Stored
<1> QED
  BY <1>7, <1>8, <1>9, <1>10, <1>11 DEF IInv

\* A change is after every stamp, but those of the present hour.
LEMMA Modifies ==
  ASSUME IInv, NEW s \in Studies, ProviderModifies(s)
  PROVE  IInv'
<1>1. /\ hour \in Hours /\ hour \in Nat /\ modified \in [Studies -> Hours] /\ modified[s] < hour
      /\ UNCHANGED <<hour, study, stored, inventory, fetch, fetchFaults>>
      /\ modified' = [modified EXCEPT ![s] = hour]
  BY DEF IInv, InnovateTypeOK, ProviderModifies, Hours
<1>2. /\ modified' \in [Studies -> Hours]
      /\ \A x \in Studies : modified'[x] = IF x = s THEN hour ELSE modified[x]
      /\ \A x \in Studies : modified[x] =< modified'[x] /\ modified[x] \in Nat /\ modified'[x] \in Nat
  BY <1>1 DEF Hours
<1>3. /\ unnoticed' \subseteq Studies \X Collections
      /\ \A x \in Studies, c \in Collections : <<x, c>> \notin unnoticed' =>
           <<x, c>> \notin unnoticed /\ (x = s => study[s].synced[c] # hour)
  BY DEF IInv, InnovateTypeOK, ProviderModifies
<1>4. InnovateTypeOK'
  BY <1>1, <1>2, <1>3 DEF IInv, InnovateTypeOK
<1>5. DatesOK'
  <2>1. \A x \in Studies : study[x].modified \in Nat /\ inventory.payload[x] \in Nat
    BY DEF IInv, InnovateTypeOK, StudyRow, Stamp
  <2>2. \A x \in Studies :
          study'[x].modified =< modified'[x] /\ inventory'.payload[x] =< modified'[x]
    BY <1>1, <1>2, <2>1 DEF IInv, DatesOK
  <2>3. ASSUME NEW w \in Fetchers, fetch'[w].pc = "store"
        PROVE  1 =< fetch'[w].reply /\ fetch'[w].reply =< modified'[fetch'[w].study]
    <3>1. fetch[w].study \in Studies /\ fetch[w].reply \in Nat
      BY DEF IInv, InnovateTypeOK, Stamp
    <3>2. 1 =< fetch[w].reply /\ fetch[w].reply =< modified[fetch[w].study]
      BY <1>1, <2>3 DEF IInv, DatesOK
    <3> QED
      BY <1>1, <1>2, <3>1, <3>2
  <2> QED
    BY <2>2, <2>3 DEF DatesOK
<1>6. ReadOK'
  BY <1>1 DEF IInv, ReadOK
<1>7. NoticedOK'
  <2> SUFFICES ASSUME NEW x \in Studies, NEW c \in Collections, <<x, c>> \notin unnoticed',
                      NEW m \in Dates(x)', m > stored'[x][c]
               PROVE  m > study'[x].synced[c]
    BY DEF NoticedOK
  <2>1. CASE m \in Dates(x)
    BY <1>1, <1>3, <2>1 DEF IInv, NoticedOK
  <2>2. CASE m \notin Dates(x)
    <3>1. x = s /\ m = hour
      BY <1>1, <1>2, <2>2 DEF Dates
    <3>2. study[s].synced[c] =< hour /\ study[s].synced[c] \in Nat /\ study[s].synced[c] # hour
      BY <1>3, <3>1 DEF IInv, InnovateTypeOK, StudyRow, Stamp
    <3> QED
      BY <1>1, <3>1, <3>2
  <2> QED
    BY <2>1, <2>2
<1>8. StoredOK'
  BY <1>1 DEF IInv, StoredOK, Stored
<1> QED
  BY <1>4, <1>5, <1>6, <1>7, <1>8 DEF IInv

LEMMA Ticks == IInv /\ HourPasses => IInv'
<1> SUFFICES ASSUME IInv, HourPasses PROVE IInv'
  OBVIOUS
<1>1. /\ hour' \in Hours /\ hour \in Nat /\ hour' = hour + 1
      /\ UNCHANGED <<modified, study, stored, inventory, fetch, unnoticed, fetchFaults>>
  BY InnovateAssumption DEF IInv, InnovateTypeOK, HourPasses, Hours
<1>2. \A s \in Studies, c \in Collections : study'[s].synced[c] =< hour'
  <2>1. \A s \in Studies, c \in Collections : study[s].synced[c] =< hour /\ study[s].synced[c] \in Nat
    BY DEF IInv, InnovateTypeOK, StudyRow, Stamp
  <2> QED
    BY <1>1, <2>1
<1>3. InnovateTypeOK'
  BY <1>1, <1>2 DEF IInv, InnovateTypeOK, Hours
<1>4. DatesOK' /\ ReadOK' /\ NoticedOK' /\ StoredOK'
  BY <1>1 DEF IInv, DatesOK, ReadOK, NoticedOK, Dates, StoredOK, Stored
<1> QED
  BY <1>3, <1>4 DEF IInv

\* The run takes the provider's dates and then the rows as they are.
LEMMA Runs ==
  ASSUME IInv, FetchInventoryOf \/ ReadStudies
  PROVE  IInv'
<1>1. UNCHANGED <<hour, modified, study, stored, fetch, unnoticed, fetchFaults>>
  BY DEF FetchInventoryOf, ReadStudies
<1>2. CASE FetchInventoryOf
  <2>1. \A s \in Studies : modified[s] \in Stamp /\ modified[s] \in Nat
    BY Numbers DEF IInv
  <2>2. /\ inventory'.pc = "fetched" /\ inventory'.payload = modified
        /\ inventory' \in [pc : {"idle", "fetched", "read"}, payload : [Studies -> Stamp],
                           read : [Studies -> StudyRow]]
    BY <1>2, <2>1 DEF IInv, InnovateTypeOK, FetchInventoryOf
  <2>3. InnovateTypeOK'
    BY <1>1, <2>2 DEF IInv, InnovateTypeOK, Hours
  <2>4. DatesOK'
    BY <1>1, <2>1, <2>2 DEF IInv, DatesOK
  <2>5. ReadOK' /\ NoticedOK' /\ StoredOK'
    BY <1>1, <2>2 DEF IInv, ReadOK, NoticedOK, Dates, StoredOK, Stored
  <2> QED
    BY <2>3, <2>4, <2>5 DEF IInv
<1>3. CASE ReadStudies
  <2>1. /\ inventory'.pc = "read" /\ inventory'.payload = inventory.payload
        /\ inventory'.read = study
        /\ inventory' \in [pc : {"idle", "fetched", "read"}, payload : [Studies -> Stamp],
                           read : [Studies -> StudyRow]]
    BY <1>3 DEF IInv, InnovateTypeOK, ReadStudies
  <2>2. InnovateTypeOK'
    BY <1>1, <2>1 DEF IInv, InnovateTypeOK, Hours
  <2>3. DatesOK'
    BY <1>1, <2>1 DEF IInv, DatesOK
  <2>4. ReadOK'
    <3>1. \A s \in Studies, c \in Collections : study[s].synced[c] \in Nat
      BY DEF IInv, InnovateTypeOK, StudyRow, Stamp
    <3> QED
      BY <1>1, <2>1, <3>1 DEF ReadOK
  <2>5. NoticedOK'
    BY <1>1, <2>1 DEF IInv, NoticedOK, Dates
  <2>6. StoredOK'
    BY <1>1, <2>1 DEF IInv, StoredOK, Stored
  <2> QED
    BY <2>2, <2>3, <2>4, <2>5, <2>6 DEF IInv
<1> QED
  BY <1>2, <1>3

LEMMA StepOK == IInv /\ [InnovateNext]_innovateVars => IInv'
<1> SUFFICES ASSUME IInv, [InnovateNext]_innovateVars PROVE IInv'
  OBVIOUS
<1>1. CASE UNCHANGED innovateVars
  <2>1. InnovateTypeOK'
    BY <1>1 DEF innovateVars, IInv, InnovateTypeOK, Hours
  <2>2. DatesOK' /\ ReadOK'
    BY <1>1 DEF innovateVars, IInv, DatesOK, ReadOK
  <2>3. NoticedOK'
    BY <1>1 DEF innovateVars, IInv, NoticedOK, Dates
  <2>4. StoredOK'
    BY <1>1 DEF innovateVars, IInv, StoredOK, Stored
  <2> QED
    BY <2>1, <2>2, <2>3, <2>4 DEF IInv
<1>2. CASE InnovateNext
  BY <1>2, Ticks, Runs, Modifies, Writes, Fetches, Stores, Stamps DEF InnovateNext
<1> QED
  BY <1>1, <1>2

-----------------------------------------------------------------------------
(* Theorems *)

\* The strengthening holds throughout.
LEMMA Inductive == InnovateSpec => []IInv
<1> QED
  BY InitOK, StepOK, PTL DEF InnovateSpec

\* A row whose stamp covers its date has what is of that date, and details exist.
LEMMA Trusted == IInv => InnovateInv
<1> SUFFICES ASSUME IInv PROVE InnovateInv
  OBVIOUS
<1>1. SettledIsCurrent
  <2> SUFFICES ASSUME NEW s \in Studies, NEW c \in Collections,
                      ~StaleCollection(s, c), <<s, c>> \notin unnoticed
               PROVE  stored[s][c] >= study[s].modified
    BY DEF SettledIsCurrent
  <2>1. study[s].modified \in Nat /\ stored[s][c] \in Nat /\ study[s].synced[c] \in Nat
    BY DEF IInv, InnovateTypeOK, StudyRow, Stamp
  <2>2. study[s].modified > stored[s][c] => study[s].modified > study[s].synced[c]
    BY DEF IInv, NoticedOK, Dates
  <2> QED
    BY <2>1, <2>2 DEF StaleCollection
<1>2. StampedHasBoth
  BY DEF IInv, StoredOK, Stored, StampedHasBoth
<1> QED
  BY <1>1, <1>2 DEF InnovateInv, IInv

(****************************************************************************)
(* replace_survey_details, replace_survey_quotas and                        *)
(* replace_survey_targeting beside sync_surveys: what the stamps of a       *)
(* survey may be trusted for, for any number of surveys, refreshes and      *)
(* failing calls.                                                           *)
(****************************************************************************)
THEOREM StampsCorrect == InnovateSpec => []InnovateInv
<1> QED
  BY Inductive, Trusted, PTL

-----------------------------------------------------------------------------
(****************************************************************************)
(* ProfileReuse.  What a POST has in hand between its transactions (PostOK) *)
(* is still covered when it comes to use it: by its attempt's UID, by the   *)
(* vault row it has visited, by the month's slot.                           *)
(****************************************************************************)
SlotSteps == {"scan", "pick", "commit", "undo", "mark", "release", "raise"}
PostSteps ==
  {"free", "decide", "baseline", "claim", "ensure", "persist", "redirect", "done"} \cup SlotSteps

PostRows ==
  [pc : PostSteps, of : Attempts \cup {Nobody}, answers : Answers \cup {{}},
   own : Uids \cup {0}, draft : BOOLEAN, live : Nat, slot : BOOLEAN, held : SUBSET Uids,
   uid : Uids \cup {0}, prev : Nat, number : Nat, tries : Nat, excluded : SUBSET Uids]
VaultRows ==
  [rid : Attempts \cup {Nobody}, answers : Answers \cup {{}}, usage : Nat, last : Nat,
   submitted : Nat]
AttemptRows ==
  [uid : Uids \cup {0}, chosen : Uids \cup {0},
   sent : [uid : Uids \cup {0}, answers : Answers \cup {{}}]]
CounterRows ==
  [exists : BOOLEAN, baseline : Nat, target : Nat, allocated : Nat, first : Nat,
   returning : Nat]
EventRows == [attempt : Attempts, uid : Uids, at : Nat]

ReuseTypes ==
  /\ now \in 1 .. MaxNow /\ traffic \in 0 .. MaxTraffic
  /\ faults \in 0 .. MaxFaults /\ refunds \in Nat
  /\ vault \in [Uids -> VaultRows] /\ attempt \in [Attempts -> AttemptRows]
  /\ counter \in CounterRows /\ post \in [Posts -> PostRows]
  /\ events \subseteq EventRows /\ IsFiniteSet(events)
  /\ lastUse \in [Uids -> Nat]

HasRow(u) == vault[u] # NoRow

\* A vault row is its attempt's, no UID is two attempts', and a UID that is
\* chosen or was reused has a row.
PairsOK ==
  /\ \A u \in Uids : vault[u].last <= now /\ lastUse[u] <= now
  /\ \A u \in Uids : HasRow(u) => /\ vault[u].rid \in Attempts /\ vault[u].answers # {}
                                  /\ attempt[vault[u].rid].uid = u
  /\ \A a, b \in Attempts : a # b /\ attempt[a].uid # 0 => attempt[a].uid # attempt[b].uid
  /\ \A a \in Attempts : attempt[a].chosen # 0 => HasRow(attempt[a].chosen)

DecisionsOK ==
  \A e \in events : /\ HasRow(e.uid)
                    /\ 1 <= e.at /\ e.at <= lastUse[e.uid]
                    /\ attempt[e.attempt].chosen = e.uid
                    /\ \A f \in events : f.attempt = e.attempt => f = e

PostOK(p) ==
  /\ post[p].slot <=> post[p].pc \in SlotSteps
  /\ post[p].prev <= now
  /\ \A u \in post[p].held : HasRow(u)
  /\ post[p].pc # "free" => /\ post[p].of \in Attempts /\ post[p].answers \in Answers
                            /\ post[p].own \in {0, attempt[post[p].of].uid}
  /\ post[p].pc = "persist" => post[p].own # 0
  /\ post[p].pc \in {"commit", "undo"} => post[p].uid \in Uids /\ HasRow(post[p].uid)
  /\ post[p].pc = "claim" /\ Previous > 0 => post[p].live = Previous

\* The month's target never shrinks.
TargetOK ==
  /\ counter.allocated <= counter.target
  /\ counter.exists => counter.target = Target(counter.baseline)
  /\ ~ counter.exists => counter.target = 0
  /\ counter.exists /\ Previous > 0 => counter.baseline = Previous

Owing == {p \in Posts : post[p].pc \in SlotSteps \ {"mark"}}
Visiting(u) == {p \in Posts : post[p].pc \in {"commit", "undo"} /\ post[p].uid = u}
ReusesOf(u) == {e \in events : e.uid = u}

\* Slots and visits cover what was committed and what is still in hand.
CountsOK ==
  /\ Cardinality(events) + Cardinality(Owing) <= counter.allocated + refunds
  /\ \A u \in Uids : HasRow(u) =>
       vault[u].usage >= 1 + Cardinality(ReusesOf(u)) + Cardinality(Visiting(u))

ReuseIInv ==
  /\ ReuseTypes /\ PairsOK /\ DecisionsOK /\ (\A p \in Posts : PostOK(p)) /\ TargetOK
  /\ CountsOK /\ ProfileOncePerProject /\ ReusePolicyHolds
-----------------------------------------------------------------------------
PostFields ==
  {"pc", "of", "answers", "own", "draft", "live", "slot", "held", "uid", "prev", "number",
   "tries", "excluded"}

LEMMA ReuseBounds ==
  /\ Previous \in Nat /\ Percentage \in Nat /\ FirstDelay \in Nat /\ Interval \in Nat
  /\ Window \in Nat /\ MaxUses \in Nat /\ MaxNow \in Nat /\ MaxTraffic \in Nat
  /\ MaxFaults \in Nat /\ Uids \subseteq Nat /\ 0 \notin Uids /\ {} \notin Answers
  /\ IsFiniteSet(Posts)
BY ProfileReuseAssumption

\* What a request's step does to its row, and to no other.
LEMMA Moved ==
  ASSUME ReuseTypes, NEW p \in Posts, NEW fields, Moves(p, fields)
  PROVE  /\ DOMAIN post' = Posts /\ post' = [q \in Posts |-> post'[q]]
         /\ \A q \in Posts \ {p} : post'[q] = post[q]
         /\ DOMAIN post'[p] = PostFields
         /\ post'[p] = [f \in PostFields |-> post'[p][f]]
         /\ \A f \in PostFields :
              post'[p][f] = IF f \in DOMAIN fields THEN fields[f] ELSE post[p][f]
<1> DEFINE new == [f \in DOMAIN post[p] |-> IF f \in DOMAIN fields THEN fields[f] ELSE post[p][f]]
<1>1. post \in [Posts -> PostRows]
  BY DEF ReuseTypes
<1>2. DOMAIN post[p] = PostFields
  BY <1>1 DEF PostRows, PostFields
<1>3. post' = [post EXCEPT ![p] = new]
  BY DEF Moves
<1> HIDE DEF new
<1>4. post'[p] = new /\ DOMAIN post' = Posts /\ \A q \in Posts \ {p} : post'[q] = post[q]
  BY <1>1, <1>3
<1>5. post' = [q \in Posts |-> post'[q]]
  BY <1>1, <1>3, <1>4
<1>6. new = [f \in PostFields |-> IF f \in DOMAIN fields THEN fields[f] ELSE post[p][f]]
  BY <1>2 DEF new
<1> QED BY <1>4, <1>5, <1>6

\* What may stand in each column.
FieldTypes ==
  [pc |-> PostSteps, of |-> Attempts \cup {Nobody}, answers |-> Answers \cup {{}},
   own |-> Uids \cup {0}, draft |-> BOOLEAN, live |-> Nat, slot |-> BOOLEAN,
   held |-> SUBSET Uids, uid |-> Uids \cup {0}, prev |-> Nat, number |-> Nat,
   tries |-> Nat, excluded |-> SUBSET Uids]

LEMMA RowTyped ==
  ASSUME NEW row, row = [f \in PostFields |-> row[f]],
         \A f \in PostFields : row[f] \in FieldTypes[f]
  PROVE  row \in PostRows
<1>1. row = [pc |-> row.pc, of |-> row.of, answers |-> row.answers, own |-> row.own,
             draft |-> row.draft, live |-> row.live, slot |-> row.slot, held |-> row.held,
             uid |-> row.uid, prev |-> row.prev, number |-> row.number, tries |-> row.tries,
             excluded |-> row.excluded]
  BY DEF PostFields
<1>2. /\ row.pc \in PostSteps /\ row.of \in Attempts \cup {Nobody} /\ row.answers \in Answers \cup {{}}
      /\ row.own \in Uids \cup {0} /\ row.draft \in BOOLEAN /\ row.live \in Nat /\ row.slot \in BOOLEAN
      /\ row.held \in SUBSET Uids /\ row.uid \in Uids \cup {0} /\ row.prev \in Nat
      /\ row.number \in Nat /\ row.tries \in Nat /\ row.excluded \in SUBSET Uids
  BY DEF PostFields, FieldTypes
<1> QED BY <1>1, <1>2 DEF PostRows

LEMMA RowOf ==
  ASSUME ReuseTypes, NEW p \in Posts
  PROVE  /\ post[p] = [f \in PostFields |-> post[p][f]]
         /\ \A f \in PostFields : post[p][f] \in FieldTypes[f]
         /\ post[p].of \in Attempts \cup {Nobody} /\ post[p].held \in SUBSET Uids
         /\ post[p].uid \in Uids \cup {0} /\ post[p].prev \in Nat /\ post[p].tries \in Nat
         /\ post[p].own \in Uids \cup {0} /\ post[p].live \in Nat /\ post[p].number \in Nat
<1>1. post[p] \in PostRows
  BY DEF ReuseTypes
<1>2. post[p] = [f \in PostFields |-> post[p][f]]
  BY <1>1 DEF PostRows, PostFields
<1>3. \A f \in PostFields : post[p][f] \in FieldTypes[f]
  BY <1>1 DEF PostRows, PostFields, FieldTypes
<1> QED BY <1>1, <1>2, <1>3 DEF PostRows

LEMMA MovesTyped ==
  ASSUME ReuseTypes, NEW p \in Posts, NEW fields, Moves(p, fields),
         \A f \in PostFields \cap DOMAIN fields : fields[f] \in FieldTypes[f]
  PROVE  post' \in [Posts -> PostRows]
<1>0. \A f \in PostFields :
        post'[p][f] = IF f \in DOMAIN fields THEN fields[f] ELSE post[p][f]
  BY Moved
<1>1. \A f \in PostFields : post'[p][f] \in FieldTypes[f]
  <2>1. \A f \in PostFields : post[p][f] \in FieldTypes[f]
    BY RowOf
  <2> QED BY <1>0, <2>1
<1>2. post'[p] \in PostRows
  BY <1>1, Moved, RowTyped
<1>3. \A q \in Posts : post'[q] \in PostRows
  BY <1>2, Moved DEF ReuseTypes
<1> QED BY <1>3, Moved
-----------------------------------------------------------------------------
(* Counting *)
In(x, S) == IF x \in S THEN 1 ELSE 0

LEMMA OneMoves ==
  ASSUME NEW P, IsFiniteSet(P), NEW S \in SUBSET P, NEW T \in SUBSET P, NEW p \in P,
         \A q \in P \ {p} : q \in S <=> q \in T
  PROVE  /\ Cardinality(S) \in Nat /\ Cardinality(T) \in Nat
         /\ Cardinality(T) + In(p, S) = Cardinality(S) + In(p, T)
<1>1. IsFiniteSet(S) /\ IsFiniteSet(T)
  BY FS_Subset
<1>2. Cardinality(S) \in Nat /\ Cardinality(T) \in Nat
  BY <1>1, FS_CardinalityType
<1>3. CASE p \in S <=> p \in T
  <2>1. S = T
    BY <1>3
  <2> QED BY <1>2, <2>1 DEF In
<1>4. CASE p \in S /\ p \notin T
  <2>1. S = T \cup {p}
    BY <1>4
  <2>2. Cardinality(S) = Cardinality(T) + 1
    BY <1>1, <1>4, <2>1, FS_AddElement
  <2> QED BY <1>2, <1>4, <2>2 DEF In
<1>5. CASE p \notin S /\ p \in T
  <2>1. T = S \cup {p}
    BY <1>5
  <2>2. Cardinality(T) = Cardinality(S) + 1
    BY <1>1, <1>5, <2>1, FS_AddElement
  <2> QED BY <1>2, <1>5, <2>2 DEF In
<1> QED BY <1>3, <1>4, <1>5

\* Only one request moves: the others owe and visit what they did.
Aside(p) == \A q \in Posts \ {p} : post'[q] = post[q]

LEMMA OwingMoves ==
  ASSUME NEW p \in Posts, Aside(p)
  PROVE  /\ Cardinality(Owing) \in Nat /\ Cardinality(Owing') \in Nat
         /\ Cardinality(Owing') + In(p, Owing) = Cardinality(Owing) + In(p, Owing')
<1>1. Owing \in SUBSET Posts /\ Owing' \in SUBSET Posts
  BY DEF Owing
<1>2. \A q \in Posts \ {p} : q \in Owing <=> q \in Owing'
  BY DEF Owing, Aside
<1> QED BY <1>1, <1>2, OneMoves, ReuseBounds

LEMMA VisitingMoves ==
  ASSUME NEW p \in Posts, Aside(p), NEW u
  PROVE  /\ Cardinality(Visiting(u)) \in Nat /\ Cardinality(Visiting(u)') \in Nat
         /\ Cardinality(Visiting(u)') + In(p, Visiting(u)) = Cardinality(Visiting(u)) + In(p, Visiting(u)')
<1>1. Visiting(u) \in SUBSET Posts /\ Visiting(u)' \in SUBSET Posts
  BY DEF Visiting
<1>2. \A q \in Posts \ {p} : q \in Visiting(u) <=> q \in Visiting(u)'
  BY DEF Visiting, Aside
<1> QED BY <1>1, <1>2, OneMoves, ReuseBounds

LEMMA ReusesCount ==
  ASSUME ReuseTypes, NEW u
  PROVE  IsFiniteSet(ReusesOf(u)) /\ Cardinality(ReusesOf(u)) \in Nat /\ Cardinality(events) \in Nat
<1>1. IsFiniteSet(events) /\ ReusesOf(u) \subseteq events
  BY DEF ReuseTypes, ReusesOf
<1> QED BY <1>1, FS_Subset, FS_CardinalityType
-----------------------------------------------------------------------------
\* Rows stay rows, UIDs that are set stay, and time does not go back.
Steady ==
  /\ now <= now'
  /\ \A u \in Uids : HasRow(u) => HasRow(u)'
  /\ \A a \in Attempts : attempt[a].uid # 0 => attempt'[a].uid = attempt[a].uid

LEMMA OthersOK ==
  ASSUME ReuseTypes, now' \in Nat, Steady, NEW p \in Posts, Aside(p),
         \A q \in Posts : PostOK(q), PostOK(p)'
  PROVE  \A q \in Posts : PostOK(q)'
<1> SUFFICES ASSUME NEW q \in Posts \ {p} PROVE PostOK(q)'
  OBVIOUS
<1>1. post'[q] = post[q] /\ PostOK(q)
  BY DEF Aside
<1>2. /\ post[q] \in PostRows /\ now \in Nat /\ attempt \in [Attempts -> AttemptRows]
  BY DEF ReuseTypes
<1>3. post[q].prev \in Nat /\ post[q].held \subseteq Uids
  BY <1>2 DEF PostRows
<1>4. (post[q].slot <=> post[q].pc \in SlotSteps) /\ post[q].prev <= now'
  BY <1>1, <1>2, <1>3 DEF PostOK, Steady
<1>5. \A u \in post[q].held : HasRow(u)'
  BY <1>1, <1>3 DEF PostOK, Steady
<1>6. post[q].pc # "free" => /\ post[q].of \in Attempts /\ post[q].answers \in Answers
                             /\ post[q].own \in {0, attempt'[post[q].of].uid}
  BY <1>1 DEF PostOK, Steady
<1>7. /\ post[q].pc = "persist" => post[q].own # 0
      /\ post[q].pc \in {"commit", "undo"} => post[q].uid \in Uids /\ HasRow(post[q].uid)'
      /\ post[q].pc = "claim" /\ Previous > 0 => post[q].live = Previous
  BY <1>1 DEF PostOK, Steady
<1> QED BY <1>1, <1>4, <1>5, <1>6, <1>7 DEF PostOK
-----------------------------------------------------------------------------
\* What holds of the month's counter and of the request that has moved.
Covered(p) ==
  /\ counter' \in CounterRows /\ TargetOK'
  /\ refunds' \in Nat /\ faults' \in 0 .. MaxFaults
  /\ post' \in [Posts -> PostRows] /\ Aside(p) /\ PostOK(p)'
  /\ In(p, Owing') + counter.allocated + refunds
       <= In(p, Owing) + counter'.allocated + refunds'

LEMMA OweNoMore ==
  ASSUME ReuseIInv, NEW p \in Posts, Covered(p), events' = events
  PROVE  Cardinality(events') + Cardinality(Owing') <= counter'.allocated + refunds'
<1>1. /\ Cardinality(Owing) \in Nat /\ Cardinality(Owing') \in Nat
      /\ Cardinality(Owing') + In(p, Owing) = Cardinality(Owing) + In(p, Owing')
  BY OwingMoves DEF Covered
<1>2. Cardinality(events) \in Nat
  BY ReusesCount DEF ReuseIInv
<1>3. counter.allocated \in Nat /\ counter'.allocated \in Nat /\ refunds \in Nat /\ refunds' \in Nat
  BY DEF ReuseIInv, ReuseTypes, Covered, CounterRows
<1>4. In(p, Owing) \in {0, 1} /\ In(p, Owing') \in {0, 1}
  BY DEF In
<1>5. Cardinality(events) + Cardinality(Owing) <= counter.allocated + refunds
  BY DEF ReuseIInv, CountsOK
<1>6. In(p, Owing') + counter.allocated + refunds
       <= In(p, Owing) + counter'.allocated + refunds'
  BY DEF Covered
<1> QED BY <1>1, <1>2, <1>3, <1>4, <1>5, <1>6

\* Steps that change a request and the counter alone.
LEMMA OnlyPosts ==
  ASSUME ReuseIInv, NEW p \in Posts, Covered(p),
         UNCHANGED <<now, traffic, vault, attempt, events, lastUse>>,
         \A u \in Uids : p \in Visiting(u)' => p \in Visiting(u)
  PROVE  ReuseIInv'
<1>1. ReuseTypes'
  BY DEF ReuseIInv, ReuseTypes, Covered
<1>2. PairsOK' /\ DecisionsOK' /\ ProfileOncePerProject' /\ ReusePolicyHolds' /\ TargetOK'
  BY DEF ReuseIInv, PairsOK, DecisionsOK, ProfileOncePerProject, ReusePolicyHolds, HasRow, Covered
<1>3. \A q \in Posts : PostOK(q)'
  <2>1. Steady /\ now' \in Nat
    BY DEF Steady, ReuseIInv, ReuseTypes, HasRow
  <2> QED BY <2>1, OthersOK DEF ReuseIInv, Covered
<1>4. ASSUME NEW u \in Uids, HasRow(u)'
      PROVE  vault'[u].usage >= 1 + Cardinality(ReusesOf(u)') + Cardinality(Visiting(u)')
  <2>1. vault'[u] = vault[u] /\ ReusesOf(u)' = ReusesOf(u) /\ HasRow(u)
    BY <1>4 DEF ReusesOf, HasRow
  <2>2. /\ Cardinality(Visiting(u)) \in Nat /\ Cardinality(Visiting(u)') \in Nat
        /\ Cardinality(Visiting(u)') + In(p, Visiting(u)) = Cardinality(Visiting(u)) + In(p, Visiting(u)')
    BY VisitingMoves DEF Covered
  <2>3. In(p, Visiting(u)') \in {0, 1} /\ In(p, Visiting(u)) \in {0, 1}
        /\ In(p, Visiting(u)') <= In(p, Visiting(u))
    BY DEF In
  <2>4. Cardinality(ReusesOf(u)) \in Nat /\ vault[u].usage \in Nat
    BY ReusesCount DEF ReuseIInv, ReuseTypes, VaultRows
  <2>5. vault[u].usage >= 1 + Cardinality(ReusesOf(u)) + Cardinality(Visiting(u))
    BY <2>1 DEF ReuseIInv, CountsOK
  <2> QED BY <2>1, <2>2, <2>3, <2>4, <2>5
<1>5. CountsOK'
  BY <1>4, OweNoMore DEF CountsOK
<1> QED BY <1>1, <1>2, <1>3, <1>5 DEF ReuseIInv

-----------------------------------------------------------------------------
(* One lemma per step. *)
LEMMA SubmitStep ==
  ASSUME ReuseIInv, NEW p \in Posts, Submit(p)
  PROVE  ReuseIInv'
<1>1. PICK a \in Attempts, ans \in Answers :
        post' = [post EXCEPT ![p] = [Free EXCEPT !.pc = "decide", !.of = a,
                     !.answers = ans, !.own = attempt[a].uid, !.draft = TRUE]]
  BY DEF Submit
<1>2. /\ post \in [Posts -> PostRows] /\ attempt \in [Attempts -> AttemptRows] /\ At(p, "free")
      /\ UNCHANGED <<now, traffic, vault, attempt, counter, events, lastUse, faults, refunds>>
  BY DEF Submit, ReuseIInv, ReuseTypes
<1>3. attempt[a].uid \in Uids \cup {0}
  BY <1>2 DEF AttemptRows
<1>4. Free \in PostRows /\ ~ Free.slot /\ Free.held = {} /\ Free.prev = 0
  BY DEF Free, PostRows, PostSteps
<1> DEFINE free == Free
           row == [free EXCEPT !.pc = "decide", !.of = a, !.answers = ans,
                               !.own = attempt[a].uid, !.draft = TRUE]
<1>40. post' = [post EXCEPT ![p] = row]
  BY <1>1
<1> HIDE DEF free
<1>5. /\ row \in PostRows /\ row.pc = "decide" /\ row.of = a /\ row.answers = ans
      /\ row.own = attempt[a].uid /\ ~ row.slot /\ row.held = {} /\ row.prev = 0
  <2>1. free \in PostRows /\ ~ free.slot /\ free.held = {} /\ free.prev = 0
    BY <1>4 DEF free
  <2> QED BY <1>3, <2>1 DEF PostRows, PostSteps
<1> HIDE DEF row
<1>6. post' \in [Posts -> PostRows] /\ Aside(p) /\ post'[p] = row
  BY <1>2, <1>40, <1>5 DEF Aside
<1>7. PostOK(p)'
  BY <1>2, <1>5, <1>6 DEF PostOK, SlotSteps, ReuseIInv, ReuseTypes
<1>8. p \notin Owing /\ p \notin Owing' /\ \A u \in Uids : p \notin Visiting(u)'
  BY <1>2, <1>5, <1>6 DEF Owing, Visiting, SlotSteps, At
<1>9. Covered(p)
  BY <1>2, <1>6, <1>7, <1>8 DEF Covered, In, ReuseIInv, TargetOK, ReuseTypes, CounterRows
<1> QED BY <1>2, <1>8, <1>9, OnlyPosts

LEMMA DecideStep ==
  ASSUME ReuseIInv, NEW p \in Posts, Decide(p)
  PROVE  ReuseIInv'
<1>0. /\ ReuseTypes /\ post \in [Posts -> PostRows] /\ attempt \in [Attempts -> AttemptRows]
      /\ At(p, "decide") /\ PostOK(p)
      /\ UNCHANGED <<now, traffic, vault, counter, events, lastUse, faults, refunds>>
  BY DEF Decide, ReuseIInv, ReuseTypes
<1>1. Of(p) \in Attempts
  BY <1>0 DEF PostOK, At, Of
<1>2. attempt' = attempt
  <2>1. CASE EventsOf(Of(p)) # {}
    <3>1. PICK e \in EventsOf(Of(p)) : attempt' = [attempt EXCEPT ![Of(p)].chosen = e.uid]
      BY <2>1 DEF Decide
    <3>2. attempt[Of(p)].chosen = e.uid
      BY <3>1 DEF EventsOf, ReuseIInv, DecisionsOK
    <3> QED BY <1>0, <1>1, <3>1, <3>2 DEF AttemptRows
  <2>2. CASE EventsOf(Of(p)) = {}
    BY <2>2 DEF Decide
  <2> QED BY <2>1, <2>2
<1>3. PICK pc \in {"redirect", "baseline", "ensure"} : post' = [post EXCEPT ![p].pc = pc]
  BY DEF Decide, Goes
<1>4. post' \in [Posts -> PostRows] /\ Aside(p) /\ post'[p] = [post[p] EXCEPT !.pc = pc]
  BY <1>0, <1>3 DEF Aside, PostRows, PostSteps
<1>5. post'[p].pc = pc /\ \A f \in PostFields \ {"pc"} : post'[p][f] = post[p][f]
  BY <1>0, <1>4, RowOf
<1>6. PostOK(p)'
  BY <1>0, <1>2, <1>3, <1>5 DEF PostOK, SlotSteps, HasRow, At, PostFields
<1>7. p \notin Owing /\ p \notin Owing' /\ \A u \in Uids : p \notin Visiting(u)'
  BY <1>0, <1>5 DEF Owing, Visiting, SlotSteps, At
<1>8. Covered(p)
  BY <1>0, <1>4, <1>6, <1>7 DEF Covered, In, ReuseIInv, TargetOK, ReuseTypes, CounterRows
<1> QED BY <1>0, <1>2, <1>7, <1>8, OnlyPosts

LEMMA ReadBaselineStep ==
  ASSUME ReuseIInv, NEW p \in Posts, ReadBaseline(p)
  PROVE  ReuseIInv'
<1> DEFINE fields == [live |-> IF Previous > 0 THEN Previous ELSE traffic, pc |-> "claim"]
<1>0. /\ ReuseTypes /\ At(p, "baseline") /\ PostOK(p) /\ Moves(p, fields)
      /\ UNCHANGED <<now, traffic, vault, attempt, counter, events, lastUse, faults, refunds>>
  BY DEF ReadBaseline, ReuseIInv
<1>1. /\ DOMAIN fields = {"live", "pc"} /\ fields["pc"] = "claim"
      /\ fields["live"] = IF Previous > 0 THEN Previous ELSE traffic
  OBVIOUS
<1>2. /\ post' = [q \in Posts |-> post'[q]] /\ Aside(p)
      /\ post'[p] = [f \in PostFields |-> post'[p][f]]
      /\ \A f \in PostFields : post'[p][f] = IF f \in DOMAIN fields THEN fields[f] ELSE post[p][f]
  <2> HIDE DEF fields
  <2> QED BY <1>0, Moved DEF Aside
<1>3. /\ post'[p].pc = "claim" /\ post'[p].live = IF Previous > 0 THEN Previous ELSE traffic
      /\ \A f \in PostFields \ {"pc", "live"} : post'[p][f] = post[p][f]
  BY <1>1, <1>2 DEF PostFields
<1> HIDE DEF fields
<1>6. post' \in [Posts -> PostRows]
  <2>1. /\ FieldTypes["pc"] = PostSteps /\ FieldTypes["live"] = Nat
        /\ "claim" \in PostSteps /\ Previous \in Nat /\ traffic \in Nat
    BY <1>0, ReuseBounds DEF FieldTypes, PostSteps, ReuseTypes
  <2>2. \A f \in PostFields \cap DOMAIN fields : fields[f] \in FieldTypes[f]
    BY <1>1, <2>1
  <2> HIDE DEF fields
  <2> QED BY <1>0, <2>2, MovesTyped
<1> HIDE DEF fields
<1>7. PostOK(p)'
  BY <1>0, <1>3 DEF PostOK, SlotSteps, HasRow, At, PostFields
<1>8. p \notin Owing /\ p \notin Owing' /\ \A u \in Uids : p \notin Visiting(u)'
  BY <1>0, <1>3 DEF Owing, Visiting, SlotSteps, At
<1>9. Covered(p)
  BY <1>0, <1>2, <1>6, <1>7, <1>8 DEF Covered, In, ReuseIInv, TargetOK, ReuseTypes, CounterRows
<1> QED BY <1>0, <1>8, <1>9, OnlyPosts
LEMMA TargetGrows ==
  ASSUME NEW b \in Nat, NEW c \in Nat, b <= c
  PROVE  Target(b) \in Nat /\ Target(b) <= Target(c)
<1>1. Percentage \in Nat
  BY ReuseBounds
<1>2. b * Percentage <= c * Percentage /\ b * Percentage \in Nat /\ c * Percentage \in Nat
  <2>1. (c - b) * Percentage \in Nat /\ c - b \in Nat
    BY <1>1
  <2>2. c * Percentage = b * Percentage + (c - b) * Percentage
    BY <1>1
  <2>3. b * Percentage \in Nat /\ c * Percentage \in Nat
    BY <1>1
  <2> QED BY <2>1, <2>2, <2>3
<1>3. ASSUME NEW x \in Nat, NEW y \in Nat, x <= y PROVE x \div 100 \in Nat /\ x \div 100 <= y \div 100
  BY <1>3
<1> QED BY <1>2, <1>3 DEF Target

\* Everything a step with Moves says of the requests' rows.
LEMMA MoveIs ==
  ASSUME ReuseTypes, NEW p \in Posts, NEW fields, Moves(p, fields),
         \A f \in PostFields \cap DOMAIN fields : fields[f] \in FieldTypes[f]
  PROVE  /\ post' \in [Posts -> PostRows] /\ Aside(p)
         /\ \A f \in PostFields :
              post'[p][f] = IF f \in DOMAIN fields THEN fields[f] ELSE post[p][f]
BY Moved, MovesTyped DEF Aside

LEMMA ClaimStep ==
  ASSUME ReuseIInv, NEW p \in Posts, ClaimMonthSlot(p)
  PROVE  ReuseIInv'
<1> DEFINE base == BaselineOf(post[p].live)
           ok == SlotLeft(Target(base))
           fields == [slot |-> ok, pc |-> IF ok THEN "scan" ELSE "ensure"]
<1>0. /\ ReuseTypes /\ At(p, "claim") /\ PostOK(p) /\ Moves(p, fields)
      /\ counter' = [counter EXCEPT !.exists = TRUE, !.baseline = base, !.target = Target(base),
                                    !.allocated = IF ok THEN @ + 1 ELSE @]
      /\ UNCHANGED <<now, traffic, vault, attempt, events, lastUse, faults, refunds>>
      /\ counter \in CounterRows /\ TargetOK
  BY DEF ClaimMonthSlot, ReuseIInv, ReuseTypes
<1>1. post[p].live \in Nat
  BY <1>0, RowOf
<1>2. /\ base \in Nat
      /\ counter.exists => counter.baseline <= base
      /\ Previous > 0 => base = Previous
  BY <1>0, <1>1 DEF BaselineOf, CounterRows, TargetOK, PostOK, At
<1>3. ok \in BOOLEAN /\ (ok => counter.allocated < Target(base))
  BY DEF SlotLeft
<1>4. /\ DOMAIN fields = {"slot", "pc"} /\ fields["slot"] = ok
      /\ fields["pc"] = IF ok THEN "scan" ELSE "ensure"
  OBVIOUS
<1>5. \A f \in PostFields \cap DOMAIN fields : fields[f] \in FieldTypes[f]
  <2>1. FieldTypes["pc"] = PostSteps /\ FieldTypes["slot"] = BOOLEAN
    BY DEF FieldTypes
  <2>2. "scan" \in PostSteps /\ "ensure" \in PostSteps
    BY DEF PostSteps, SlotSteps
  <2> HIDE DEF fields, ok
  <2> QED BY <1>3, <1>4, <2>1, <2>2
<1>t. Target(base) \in Nat
  BY <1>2, TargetGrows
<1> HIDE DEF fields, ok, base
<1>6. /\ post' \in [Posts -> PostRows] /\ Aside(p)
      /\ \A f \in PostFields :
           post'[p][f] = IF f \in DOMAIN fields THEN fields[f] ELSE post[p][f]
  BY <1>0, <1>5, MoveIs
<1>7. /\ post'[p].slot = ok /\ post'[p].pc = IF ok THEN "scan" ELSE "ensure"
      /\ \A f \in PostFields \ {"pc", "slot"} : post'[p][f] = post[p][f]
  BY <1>4, <1>6 DEF PostFields
<1>8. PostOK(p)'
  BY <1>0, <1>3, <1>7 DEF PostOK, SlotSteps, HasRow, At, PostFields
<1>9. /\ counter' \in CounterRows /\ counter'.exists /\ counter'.baseline = base
      /\ counter'.target = Target(base)
      /\ counter'.allocated = IF ok THEN counter.allocated + 1 ELSE counter.allocated
  <2>1. ASSUME NEW t \in Nat, counter' = [counter EXCEPT !.exists = TRUE, !.baseline = base, !.target = t,
                                    !.allocated = IF ok THEN @ + 1 ELSE @]
        PROVE  /\ counter' \in CounterRows /\ counter'.exists /\ counter'.baseline = base
               /\ counter'.target = t
               /\ counter'.allocated = IF ok THEN counter.allocated + 1 ELSE counter.allocated
    <3>1. counter \in CounterRows /\ base \in Nat
      BY <1>0, <1>2
    <3>2. PICK n \in Nat : n = IF ok THEN counter.allocated + 1 ELSE counter.allocated
      BY <3>1 DEF CounterRows
    <3>3. counter' = [counter EXCEPT !.exists = TRUE, !.baseline = base, !.target = t,
                                     !.allocated = n]
      BY <2>1, <3>1, <3>2 DEF CounterRows
    <3>4. /\ counter' \in CounterRows /\ counter'.exists /\ counter'.baseline = base
          /\ counter'.target = t /\ counter'.allocated = n
      BY <2>1, <3>1, <3>3 DEF CounterRows
    <3> QED BY <3>2, <3>4
  <2> QED BY <1>0, <1>t, <2>1
<1>10. counter'.allocated <= Target(base)
  <2>1. CASE ok
    BY <1>3, <1>9, <1>t, <1>0, <2>1 DEF CounterRows
  <2>2. CASE ~ ok
    <3>1. counter.allocated <= counter.target /\ counter.target \in Nat /\ counter.allocated \in Nat
      BY <1>0 DEF TargetOK, CounterRows
    <3>2. counter.target <= Target(base)
      <4>1. CASE counter.exists
        <5>1. counter.target = Target(counter.baseline) /\ counter.baseline \in Nat
          BY <1>0, <4>1 DEF TargetOK, CounterRows
        <5> QED BY <1>2, <4>1, <5>1, TargetGrows
      <4>2. CASE ~ counter.exists
        BY <1>0, <1>t, <4>2 DEF TargetOK
      <4> QED BY <4>1, <4>2
    <3> QED BY <2>2, <1>9, <1>t, <3>1, <3>2
  <2> QED BY <2>1, <2>2
<1>11. TargetOK'
  BY <1>2, <1>9, <1>10 DEF TargetOK, Target
<1>12. p \notin Owing /\ (p \in Owing' <=> ok) /\ \A u \in Uids : p \notin Visiting(u)'
  BY <1>0, <1>7 DEF Owing, Visiting, SlotSteps, At
<1>13. Covered(p)
  <2>1. In(p, Owing) = 0 /\ In(p, Owing') = IF ok THEN 1 ELSE 0
    BY <1>12 DEF In
  <2>2. counter.allocated \in Nat /\ refunds \in Nat /\ refunds' = refunds
    BY <1>0 DEF CounterRows, ReuseTypes
  <2>3. In(p, Owing') + counter.allocated + refunds <= In(p, Owing) + counter'.allocated + refunds'
    BY <1>9, <2>1, <2>2
  <2> QED BY <1>0, <1>6, <1>8, <1>9, <1>11, <2>3 DEF Covered, ReuseTypes
<1> QED BY <1>0, <1>12, <1>13, OnlyPosts

LEMMA ScanStep ==
  ASSUME ReuseIInv, NEW p \in Posts, ScanVault(p)
  PROVE  ReuseIInv'
<1> DEFINE rows == {u \in Candidates(p) :
                      Cardinality({v \in Candidates(p) : Fairer(v, u)}) < MaxScan}
           fields == [held |-> rows, pc |-> IF rows = {} THEN "release" ELSE "pick"]
<1>0. /\ ReuseTypes /\ At(p, "scan") /\ PostOK(p) /\ Moves(p, fields)
      /\ UNCHANGED <<now, traffic, vault, attempt, counter, events, lastUse, faults, refunds>>
      /\ counter \in CounterRows /\ TargetOK
  BY DEF ScanVault, ReuseIInv, ReuseTypes
<1>1. rows \subseteq Uids /\ \A u \in rows : HasRow(u)
  BY DEF Candidates, HasRow
<1> HIDE DEF rows
<1>4. /\ DOMAIN fields = {"held", "pc"} /\ fields["held"] = rows
      /\ fields["pc"] \in {"release", "pick"}
  OBVIOUS
<1>5. \A f \in PostFields \cap DOMAIN fields : fields[f] \in FieldTypes[f]
  <2>1. FieldTypes["pc"] = PostSteps /\ FieldTypes["held"] = SUBSET Uids
    BY DEF FieldTypes
  <2>2. "release" \in PostSteps /\ "pick" \in PostSteps
    BY DEF PostSteps, SlotSteps
  <2> HIDE DEF fields
  <2> QED BY <1>1, <1>4, <2>1, <2>2
<1> HIDE DEF fields
<1>6. /\ post' \in [Posts -> PostRows] /\ Aside(p)
      /\ \A f \in PostFields :
           post'[p][f] = IF f \in DOMAIN fields THEN fields[f] ELSE post[p][f]
  BY <1>0, <1>5, MoveIs
<1>7. /\ post'[p].held = rows /\ post'[p].pc \in {"release", "pick"}
      /\ \A f \in PostFields \ {"pc", "held"} : post'[p][f] = post[p][f]
  BY <1>4, <1>6 DEF PostFields
<1>8. PostOK(p)'
  BY <1>0, <1>1, <1>7 DEF PostOK, SlotSteps, HasRow, At, PostFields
<1>12. p \in Owing /\ p \in Owing' /\ \A u \in Uids : p \notin Visiting(u)'
  BY <1>0, <1>7 DEF Owing, Visiting, SlotSteps, At
<1>13. Covered(p)
  BY <1>0, <1>6, <1>8, <1>12 DEF Covered, In, TargetOK, ReuseTypes, CounterRows
<1> QED BY <1>0, <1>12, <1>13, OnlyPosts

LEMMA MarkStep ==
  ASSUME ReuseIInv, NEW p \in Posts, MarkPool(p)
  PROVE  ReuseIInv'
<1> DEFINE fields == [slot |-> FALSE, pc |-> "redirect"]
<1>0. /\ ReuseTypes /\ At(p, "mark") /\ PostOK(p) /\ Moves(p, fields)
      /\ UNCHANGED <<now, traffic, vault, attempt, events, lastUse, faults, refunds>>
      /\ counter \in CounterRows /\ TargetOK
      /\ counter' = IF post[p].number = 2 THEN [counter EXCEPT !.first = @ + 1]
                                          ELSE [counter EXCEPT !.returning = @ + 1]
  BY DEF MarkPool, ReuseIInv, ReuseTypes
<1>4. /\ DOMAIN fields = {"slot", "pc"} /\ fields["slot"] = FALSE
      /\ fields["pc"] = "redirect"
  OBVIOUS
<1>5. \A f \in PostFields \cap DOMAIN fields : fields[f] \in FieldTypes[f]
  <2>1. FieldTypes["pc"] = PostSteps /\ FieldTypes["slot"] = BOOLEAN
    BY DEF FieldTypes
  <2>2. "redirect" \in PostSteps
    BY DEF PostSteps, SlotSteps
  <2> HIDE DEF fields
  <2> QED BY <1>4, <2>1, <2>2
<1> HIDE DEF fields
<1>6. /\ post' \in [Posts -> PostRows] /\ Aside(p)
      /\ \A f \in PostFields :
           post'[p][f] = IF f \in DOMAIN fields THEN fields[f] ELSE post[p][f]
  BY <1>0, <1>5, MoveIs
<1>7. /\ post'[p].slot = FALSE /\ post'[p].pc = "redirect"
      /\ \A f \in PostFields \ {"pc", "slot"} : post'[p][f] = post[p][f]
  BY <1>4, <1>6 DEF PostFields
<1>8. PostOK(p)'
  BY <1>0, <1>7 DEF PostOK, SlotSteps, HasRow, At, PostFields
<1>9. /\ counter' \in CounterRows /\ counter'.exists = counter.exists
      /\ counter'.baseline = counter.baseline /\ counter'.target = counter.target
      /\ counter'.allocated = counter.allocated
  BY <1>0 DEF CounterRows
<1>12. p \notin Owing /\ p \notin Owing' /\ \A u \in Uids : p \notin Visiting(u)'
  BY <1>0, <1>7 DEF Owing, Visiting, SlotSteps, At
<1>13. Covered(p)
  BY <1>0, <1>6, <1>8, <1>9, <1>12 DEF Covered, In, TargetOK, Target, ReuseTypes, CounterRows
<1> QED BY <1>0, <1>12, <1>13, OnlyPosts

LEMMA ReleaseStep ==
  ASSUME ReuseIInv, NEW p \in Posts, ReleaseMonthSlot(p)
  PROVE  ReuseIInv'
<1> DEFINE fields == [slot |-> FALSE, pc |-> IF At(p, "raise") THEN "done" ELSE "ensure"]
<1>0. /\ ReuseTypes /\ post[p].pc \in {"release", "raise"} /\ PostOK(p) /\ Moves(p, fields)
      /\ UNCHANGED <<now, traffic, vault, attempt, events, lastUse, faults, refunds>>
      /\ counter \in CounterRows /\ TargetOK
      /\ counter' = [counter EXCEPT !.allocated = IF @ > 0 THEN @ - 1 ELSE @]
  BY DEF ReleaseMonthSlot, ReuseIInv, ReuseTypes
<1>4. /\ DOMAIN fields = {"slot", "pc"} /\ fields["slot"] = FALSE
      /\ fields["pc"] \in {"done", "ensure"}
  OBVIOUS
<1>5. \A f \in PostFields \cap DOMAIN fields : fields[f] \in FieldTypes[f]
  <2>1. FieldTypes["pc"] = PostSteps /\ FieldTypes["slot"] = BOOLEAN
    BY DEF FieldTypes
  <2>2. "done" \in PostSteps /\ "ensure" \in PostSteps
    BY DEF PostSteps, SlotSteps
  <2> HIDE DEF fields
  <2> QED BY <1>4, <2>1, <2>2
<1> HIDE DEF fields
<1>6. /\ post' \in [Posts -> PostRows] /\ Aside(p)
      /\ \A f \in PostFields :
           post'[p][f] = IF f \in DOMAIN fields THEN fields[f] ELSE post[p][f]
  BY <1>0, <1>5, MoveIs
<1>7. /\ post'[p].slot = FALSE /\ post'[p].pc \in {"done", "ensure"}
      /\ \A f \in PostFields \ {"pc", "slot"} : post'[p][f] = post[p][f]
  BY <1>4, <1>6 DEF PostFields
<1>8. PostOK(p)'
  BY <1>0, <1>7 DEF PostOK, SlotSteps, HasRow, At, PostFields
<1>9. /\ counter' \in CounterRows /\ counter'.exists = counter.exists
      /\ counter'.baseline = counter.baseline /\ counter'.target = counter.target
      /\ counter'.allocated <= counter.allocated /\ counter.allocated <= counter'.allocated + 1
  BY <1>0 DEF CounterRows
<1>12. p \in Owing /\ p \notin Owing' /\ \A u \in Uids : p \notin Visiting(u)'
  BY <1>0, <1>7 DEF Owing, Visiting, SlotSteps, At
<1>13. Covered(p)
  BY <1>0, <1>6, <1>8, <1>9, <1>12 DEF Covered, In, TargetOK, Target, ReuseTypes, CounterRows
<1> QED BY <1>0, <1>12, <1>13, OnlyPosts
LEMMA FailStep ==
  ASSUME ReuseIInv, NEW p \in Posts, DatabaseFails(p)
  PROVE  ReuseIInv'
<1> DEFINE fields == [held |-> {},
               pc |-> IF post[p].pc \in {"persist", "redirect"} THEN "done" ELSE "raise"]
<1>0. /\ ReuseTypes /\ PostOK(p) /\ Moves(p, fields)
      /\ post[p].pc \in {"scan", "pick", "commit", "undo", "mark", "persist", "redirect"}
      /\ UNCHANGED <<now, traffic, vault, attempt, counter, events, lastUse>>
      /\ refunds' = IF At(p, "mark") THEN refunds + 1 ELSE refunds
      /\ counter \in CounterRows /\ TargetOK
  BY DEF DatabaseFails, ReuseIInv, ReuseTypes
<1>1. faults' \in 0 .. MaxFaults
  BY ReuseBounds DEF DatabaseFails, ReuseIInv, ReuseTypes
<1>4. /\ DOMAIN fields = {"held", "pc"} /\ fields["held"] = {}
      /\ fields["pc"] = IF post[p].pc \in {"persist", "redirect"} THEN "done" ELSE "raise"
  OBVIOUS
<1>5. \A f \in PostFields \cap DOMAIN fields : fields[f] \in FieldTypes[f]
  <2>1. FieldTypes["pc"] = PostSteps /\ FieldTypes["held"] = SUBSET Uids
    BY DEF FieldTypes
  <2>2. "raise" \in PostSteps /\ "done" \in PostSteps
    BY DEF PostSteps, SlotSteps
  <2> HIDE DEF fields
  <2> QED BY <1>4, <2>1, <2>2
<1> HIDE DEF fields
<1>6. /\ post' \in [Posts -> PostRows] /\ Aside(p)
      /\ \A f \in PostFields :
           post'[p][f] = IF f \in DOMAIN fields THEN fields[f] ELSE post[p][f]
  BY <1>0, <1>5, MoveIs
<1>7. /\ post'[p].held = {}
      /\ post'[p].pc = IF post[p].pc \in {"persist", "redirect"} THEN "done" ELSE "raise"
      /\ \A f \in PostFields \ {"pc", "held"} : post'[p][f] = post[p][f]
  BY <1>4, <1>6 DEF PostFields
<1>8. PostOK(p)'
  BY <1>0, <1>7 DEF PostOK, SlotSteps, HasRow, PostFields
<1>12. /\ p \in Owing <=> post[p].pc \notin {"mark", "persist", "redirect"}
       /\ p \in Owing' <=> post[p].pc \notin {"persist", "redirect"}
       /\ \A u \in Uids : p \notin Visiting(u)'
  BY <1>0, <1>7 DEF Owing, Visiting, SlotSteps
<1>13. Covered(p)
  <2>1. In(p, Owing') = In(p, Owing) + IF At(p, "mark") THEN 1 ELSE 0
    BY <1>0, <1>12 DEF In, At
  <2>2. /\ counter.allocated \in Nat /\ refunds \in Nat /\ In(p, Owing) \in Nat
        /\ counter'.allocated = counter.allocated
    BY <1>0 DEF CounterRows, ReuseTypes, In
  <2>3. /\ refunds' \in Nat
        /\ In(p, Owing') + counter.allocated + refunds <= In(p, Owing) + counter'.allocated + refunds'
    BY <1>0, <2>1, <2>2
  <2> QED BY <1>0, <1>1, <1>6, <1>8, <2>3 DEF Covered, TargetOK
<1> QED BY <1>0, <1>12, <1>13, OnlyPosts

LEMMA KillStep ==
  ASSUME ReuseIInv, NEW p \in Posts, WorkerKilled(p)
  PROVE  ReuseIInv'
<1> DEFINE fields == [held |-> {}, slot |-> FALSE, pc |-> "done"]
<1>0. /\ ReuseTypes /\ PostOK(p) /\ Moves(p, fields)
      /\ post[p].pc \notin {"free", "done"}
      /\ UNCHANGED <<now, traffic, vault, attempt, counter, events, lastUse, refunds>>
      /\ counter \in CounterRows /\ TargetOK
  BY DEF WorkerKilled, ReuseIInv, ReuseTypes
<1>1. faults' \in 0 .. MaxFaults
  BY ReuseBounds DEF WorkerKilled, ReuseIInv, ReuseTypes
<1>4. /\ DOMAIN fields = {"held", "slot", "pc"} /\ fields["held"] = {}
      /\ fields["pc"] = "done" /\ fields["slot"] = FALSE
  OBVIOUS
<1>5. \A f \in PostFields \cap DOMAIN fields : fields[f] \in FieldTypes[f]
  <2>1. FieldTypes["pc"] = PostSteps /\ FieldTypes["held"] = SUBSET Uids /\ FieldTypes["slot"] = BOOLEAN
    BY DEF FieldTypes
  <2>2. "done" \in PostSteps
    BY DEF PostSteps, SlotSteps
  <2> HIDE DEF fields
  <2> QED BY <1>4, <2>1, <2>2
<1> HIDE DEF fields
<1>6. /\ post' \in [Posts -> PostRows] /\ Aside(p)
      /\ \A f \in PostFields :
           post'[p][f] = IF f \in DOMAIN fields THEN fields[f] ELSE post[p][f]
  BY <1>0, <1>5, MoveIs
<1>7. /\ post'[p].held = {} /\ post'[p].slot = FALSE /\ post'[p].pc = "done"
      /\ \A f \in PostFields \ {"pc", "held", "slot"} : post'[p][f] = post[p][f]
  BY <1>4, <1>6 DEF PostFields
<1>8. PostOK(p)'
  BY <1>0, <1>7 DEF PostOK, SlotSteps, HasRow, PostFields
<1>12. p \notin Owing' /\ \A u \in Uids : p \notin Visiting(u)'
  BY <1>0, <1>7 DEF Owing, Visiting, SlotSteps
<1>13. Covered(p)
  BY <1>0, <1>1, <1>6, <1>8, <1>12 DEF Covered, In, TargetOK, ReuseTypes, CounterRows
<1> QED BY <1>0, <1>12, <1>13, OnlyPosts

\* The clock, and journeys that begin.
LEMMA ElsewhereStep ==
  ASSUME ReuseIInv, Tick \/ Arrive \/ UNCHANGED reuseVars
  PROVE  ReuseIInv'
<1>0. /\ ReuseTypes /\ now' \in 1 .. MaxNow /\ now <= now' /\ traffic' \in 0 .. MaxTraffic
      /\ UNCHANGED <<vault, attempt, counter, events, usages, lastUse, post, faults, refunds>>
  BY ReuseBounds DEF ReuseIInv, ReuseTypes, Tick, Arrive, reuseVars
<1>1. ReuseTypes'
  BY <1>0 DEF ReuseTypes
<1>2. PairsOK'
  <2>1. \A u \in Uids : vault'[u].last <= now' /\ lastUse'[u] <= now'
    <3> SUFFICES ASSUME NEW u \in Uids PROVE vault'[u].last <= now' /\ lastUse'[u] <= now'
      OBVIOUS
    <3>1. vault[u].last \in Nat /\ lastUse[u] \in Nat /\ now \in Nat /\ now' \in Nat
      BY <1>0, ReuseBounds DEF ReuseTypes, VaultRows
    <3>2. vault[u].last <= now /\ lastUse[u] <= now
      BY DEF ReuseIInv, PairsOK
    <3> QED BY <1>0, <3>1, <3>2
  <2> QED BY <1>0, <2>1 DEF ReuseIInv, PairsOK, HasRow
<1>3. \A p \in Posts : PostOK(p)'
  <2> SUFFICES ASSUME NEW p \in Posts PROVE PostOK(p)'
    OBVIOUS
  <2>1. PostOK(p) /\ post[p].prev \in Nat /\ now \in Nat /\ now' \in Nat
    BY <1>0, RowOf, ReuseBounds DEF ReuseIInv, ReuseTypes
  <2>2. post'[p].prev <= now'
    BY <1>0, <2>1 DEF PostOK
  <2> QED BY <1>0, <2>1, <2>2 DEF PostOK, HasRow
<1>4. DecisionsOK' /\ TargetOK' /\ ProfileOncePerProject' /\ ReusePolicyHolds'
  BY <1>0 DEF ReuseIInv, DecisionsOK, TargetOK, ProfileOncePerProject, ReusePolicyHolds, HasRow
<1>5. CountsOK'
  BY <1>0 DEF ReuseIInv, CountsOK, HasRow, Owing, ReusesOf, Visiting
<1> QED BY <1>1, <1>2, <1>3, <1>4, <1>5 DEF ReuseIInv
-----------------------------------------------------------------------------
\* A row is its attempt's, and counts the visits that are paid or in hand.
VaultMoves(p) ==
  /\ vault' \in [Uids -> VaultRows]
  /\ \A u \in Uids :
       /\ vault'[u].last <= now
       /\ HasRow(u) => HasRow(u)' /\ vault'[u].usage + In(p, Visiting(u))
                                       >= vault[u].usage + In(p, Visiting(u)')
       /\ HasRow(u)' /\ ~ HasRow(u) => vault'[u].usage >= 1 /\ p \notin Visiting(u)'
       /\ HasRow(u)' => /\ vault'[u].rid \in Attempts /\ vault'[u].answers # {}
                        /\ attempt[vault'[u].rid].uid = u

LEMMA VaultStep ==
  ASSUME ReuseIInv, NEW p \in Posts, Covered(p), VaultMoves(p),
         UNCHANGED <<now, traffic, attempt, events, lastUse>>
  PROVE  ReuseIInv'
<1>1. ReuseTypes'
  BY DEF ReuseIInv, ReuseTypes, Covered, VaultMoves
<1>2. \A u \in Uids : HasRow(u) => HasRow(u)'
  BY DEF VaultMoves
<1>3. PairsOK'
  <2>1. \A u \in Uids : vault'[u].last <= now' /\ lastUse'[u] <= now'
    BY DEF VaultMoves, ReuseIInv, PairsOK
  <2>2. \A u \in Uids : HasRow(u)' => /\ vault'[u].rid \in Attempts /\ vault'[u].answers # {}
                                      /\ attempt'[vault'[u].rid].uid = u
    BY DEF VaultMoves
  <2>3. \A a, b \in Attempts : a # b /\ attempt'[a].uid # 0 => attempt'[a].uid # attempt'[b].uid
    BY DEF ReuseIInv, PairsOK
  <2>4. \A a \in Attempts : attempt'[a].chosen # 0 => vault'[attempt'[a].chosen] # NoRow
    <3> SUFFICES ASSUME NEW a \in Attempts, attempt'[a].chosen # 0
                 PROVE  vault'[attempt'[a].chosen] # NoRow
      OBVIOUS
    <3>1. attempt'[a].chosen = attempt[a].chosen
      OBVIOUS
    <3>2. attempt[a].chosen \in Uids /\ HasRow(attempt[a].chosen)
      BY <3>1 DEF ReuseIInv, PairsOK, ReuseTypes, AttemptRows
    <3>3. PICK c \in Uids : c = attempt[a].chosen
      BY <3>2
    <3>4. HasRow(c)
      BY <3>2, <3>3
    <3>5. vault'[c] # NoRow
      BY <1>2, <3>4 DEF HasRow, NoRow
    <3> QED BY <3>1, <3>3, <3>5
  <2> QED BY <2>1, <2>2, <2>3, <2>4 DEF PairsOK, HasRow, NoRow
<1>4. DecisionsOK'
  <2> SUFFICES ASSUME NEW e \in events
               PROVE  /\ HasRow(e.uid)' /\ 1 <= e.at /\ e.at <= lastUse[e.uid]
                      /\ attempt[e.attempt].chosen = e.uid
                      /\ \A f \in events : f.attempt = e.attempt => f = e
    BY DEF DecisionsOK, HasRow
  <2>1. e.uid \in Uids
    BY DEF ReuseIInv, ReuseTypes, EventRows
  <2>2. HasRow(e.uid)
    BY DEF ReuseIInv, DecisionsOK
  <2> QED BY <1>2, <2>1, <2>2 DEF ReuseIInv, DecisionsOK
<1>5. ProfileOncePerProject' /\ ReusePolicyHolds' /\ TargetOK'
  BY DEF ReuseIInv, ProfileOncePerProject, ReusePolicyHolds, Covered
<1>6. \A q \in Posts : PostOK(q)'
  <2>1. Steady /\ now' \in Nat
    BY <1>2 DEF Steady, ReuseIInv, ReuseTypes
  <2> QED BY <2>1, OthersOK DEF ReuseIInv, Covered
<1>7. ASSUME NEW u \in Uids, HasRow(u)'
      PROVE  vault'[u].usage >= 1 + Cardinality(ReusesOf(u)') + Cardinality(Visiting(u)')
  <2>1. ReusesOf(u)' = ReusesOf(u)
    BY DEF ReusesOf
  <2>2. /\ Cardinality(Visiting(u)) \in Nat /\ Cardinality(Visiting(u)') \in Nat
        /\ Cardinality(Visiting(u)') + In(p, Visiting(u)) = Cardinality(Visiting(u)) + In(p, Visiting(u)')
    BY VisitingMoves DEF Covered
  <2>3. In(p, Visiting(u)') \in Nat /\ In(p, Visiting(u)) \in Nat
    BY DEF In
  <2>4. Cardinality(ReusesOf(u)) \in Nat /\ vault[u].usage \in Nat /\ vault'[u].usage \in Nat
    BY ReusesCount DEF ReuseIInv, ReuseTypes, VaultRows, VaultMoves
  <2>5. CASE HasRow(u)
    <3>1. vault[u].usage >= 1 + Cardinality(ReusesOf(u)) + Cardinality(Visiting(u))
      BY <2>5 DEF ReuseIInv, CountsOK
    <3>2. vault'[u].usage + In(p, Visiting(u)) >= vault[u].usage + In(p, Visiting(u)')
      BY <2>5 DEF VaultMoves
    <3> QED BY <2>1, <2>2, <2>3, <2>4, <3>1, <3>2
  <2>6. CASE ~ HasRow(u)
    <3>1. ReusesOf(u) = {} /\ Visiting(u) = {}
      BY <2>6 DEF ReusesOf, Visiting, ReuseIInv, DecisionsOK, PostOK
    <3>2. Cardinality(ReusesOf(u)) = 0 /\ Cardinality(Visiting(u)) = 0
      BY <3>1, FS_EmptySet
    <3>3. vault'[u].usage >= 1 /\ In(p, Visiting(u)') = 0
      BY <1>7, <2>6 DEF VaultMoves, In
    <3> QED BY <2>1, <2>2, <2>3, <2>4, <3>2, <3>3
  <2> QED BY <2>5, <2>6
<1>8. CountsOK'
  BY <1>7, OweNoMore DEF CountsOK
<1> QED BY <1>1, <1>3, <1>4, <1>5, <1>6, <1>8 DEF ReuseIInv

\* A row that another answers for.
LEMMA OneRow ==
  ASSUME ReuseIInv, NEW p \in Posts, NEW u \in Uids, NEW row \in VaultRows,
         vault' = [vault EXCEPT ![u] = row], row.last <= now,
         row.rid \in Attempts, row.answers # {}, attempt[row.rid].uid = u,
         HasRow(u) => row.usage + In(p, Visiting(u)) >= vault[u].usage + In(p, Visiting(u)'),
         ~ HasRow(u) => row.usage >= 1 /\ p \notin Visiting(u)',
         \A v \in Uids \ {u} : p \in Visiting(v)' => p \in Visiting(v)
  PROVE  VaultMoves(p)
<1>1. /\ vault \in [Uids -> VaultRows] /\ now \in Nat
      /\ \A v \in Uids : vault[v].last <= now
      /\ \A v \in Uids : HasRow(v) => /\ vault[v].rid \in Attempts /\ vault[v].answers # {}
                                      /\ attempt[vault[v].rid].uid = v
  BY DEF ReuseIInv, ReuseTypes, PairsOK
<1>2. vault' \in [Uids -> VaultRows] /\ vault'[u] = row /\ \A v \in Uids \ {u} : vault'[v] = vault[v]
  BY <1>1
<1>3. HasRow(u)' /\ \A v \in Uids \ {u} : HasRow(v)' <=> HasRow(v)
  BY <1>2 DEF HasRow, NoRow
<1>4. ASSUME NEW v \in Uids \ {u}
      PROVE  vault'[v].usage + In(p, Visiting(v)) >= vault[v].usage + In(p, Visiting(v)')
  <2>1. In(p, Visiting(v)) \in {0, 1} /\ In(p, Visiting(v)') \in {0, 1}
        /\ In(p, Visiting(v)') <= In(p, Visiting(v))
    BY DEF In
  <2>2. vault[v].usage \in Nat
    BY <1>1 DEF VaultRows
  <2> QED BY <1>2, <2>1, <2>2
<1> QED BY <1>1, <1>2, <1>3, <1>4 DEF VaultMoves
LEMMA VisitedRow ==
  ASSUME NEW row \in VaultRows, now \in Nat
  PROVE  /\ Visited(row) \in VaultRows /\ Visited(row).last = now
         /\ Visited(row).rid = row.rid /\ Visited(row).answers = row.answers
         /\ Visited(row).usage = row.usage + 1
<1>1. PICK n \in Nat : n = row.usage + 1
  BY DEF VaultRows
<1>2. Visited(row) = [row EXCEPT !.usage = n, !.last = now]
  BY <1>1 DEF Visited, VaultRows
<1> QED BY <1>1, <1>2 DEF VaultRows

LEMMA UndoneRow ==
  ASSUME NEW row \in VaultRows, NEW q, q.prev \in Nat, q.prev <= now, row.last <= now
  PROVE  /\ Undone(row, q) \in VaultRows /\ Undone(row, q).last <= now
         /\ Undone(row, q).rid = row.rid /\ Undone(row, q).answers = row.answers
         /\ Undone(row, q).usage + 1 >= row.usage
<1>0. row.usage \in Nat
  BY DEF VaultRows
<1>1. CASE row.usage > 1
  <2>1. PICK n \in Nat : n = row.usage - 1
    BY <1>0, <1>1
  <2>2. Undone(row, q) = [row EXCEPT !.usage = n, !.last = q.prev]
    BY <1>1, <2>1 DEF Undone, VaultRows
  <2>3. [row EXCEPT !.usage = n, !.last = q.prev] \in VaultRows
    BY <2>1 DEF VaultRows
  <2>4. /\ [row EXCEPT !.usage = n, !.last = q.prev].last = q.prev
        /\ [row EXCEPT !.usage = n, !.last = q.prev].rid = row.rid
        /\ [row EXCEPT !.usage = n, !.last = q.prev].answers = row.answers
        /\ [row EXCEPT !.usage = n, !.last = q.prev].usage = n
    BY DEF VaultRows
  <2> QED BY <1>0, <2>1, <2>2, <2>3, <2>4
<1>2. CASE ~ (row.usage > 1)
  BY <1>0, <1>2 DEF Undone
<1> QED BY <1>1, <1>2

LEMMA PickStep ==
  ASSUME ReuseIInv, NEW p \in Posts, PickProfile(p)
  PROVE  ReuseIInv'
<1>0. /\ ReuseTypes /\ At(p, "pick") /\ PostOK(p)
      /\ UNCHANGED <<now, traffic, attempt, counter, events, lastUse, faults, refunds>>
      /\ counter \in CounterRows /\ TargetOK /\ vault \in [Uids -> VaultRows]
      /\ now \in Nat
  BY DEF PickProfile, ReuseIInv, ReuseTypes
<1>a. p \in Owing /\ \A u \in Uids : p \notin Visiting(u)
  BY <1>0 DEF Owing, Visiting, SlotSteps, At
<1>1. CASE vault' = vault /\ Moves(p, [held |-> {}, pc |-> "release"])
  <2> DEFINE fields == [held |-> {}, pc |-> "release"]
  <2>1. DOMAIN fields = {"held", "pc"} /\ fields["held"] = {} /\ fields["pc"] = "release"
        /\ Moves(p, fields)
    BY <1>1
  <2>2. FieldTypes["pc"] = PostSteps /\ FieldTypes["held"] = SUBSET Uids /\ "release" \in PostSteps
    BY DEF FieldTypes, PostSteps, SlotSteps
  <2> HIDE DEF fields
  <2>3. \A f \in PostFields \cap DOMAIN fields : fields[f] \in FieldTypes[f]
    BY <2>1, <2>2
  <2>4. /\ post' \in [Posts -> PostRows] /\ Aside(p)
        /\ \A f \in PostFields :
             post'[p][f] = IF f \in DOMAIN fields THEN fields[f] ELSE post[p][f]
    BY <1>0, <2>1, <2>3, MoveIs
  <2>5. /\ post'[p].held = {} /\ post'[p].pc = "release"
        /\ \A f \in PostFields \ {"pc", "held"} : post'[p][f] = post[p][f]
    BY <2>1, <2>4 DEF PostFields
  <2>6. PostOK(p)'
    BY <1>0, <2>5 DEF PostOK, SlotSteps, HasRow, At, PostFields
  <2>7. p \in Owing' /\ \A u \in Uids : p \notin Visiting(u)'
    BY <2>5 DEF Owing, Visiting, SlotSteps
  <2>8. Covered(p)
    BY <1>0, <1>a, <2>4, <2>6, <2>7 DEF Covered, In, TargetOK, ReuseTypes, CounterRows
  <2> QED BY <1>0, <1>1, <2>7, <2>8, OnlyPosts
<1>2. ASSUME NEW u \in post[p].held, vault' = [vault EXCEPT ![u] = Visited(@)],
             Moves(p, [held |-> {}, uid |-> u, prev |-> vault[u].last,
                       number |-> vault[u].usage + 1, pc |-> "commit"])
      PROVE  ReuseIInv'
  <2> DEFINE fields == [held |-> {}, uid |-> u, prev |-> vault[u].last,
                        number |-> vault[u].usage + 1, pc |-> "commit"]
             row == Visited(vault[u])
  <2>0. /\ u \in Uids /\ HasRow(u) /\ vault[u] \in VaultRows /\ vault[u].last <= now
        /\ vault[u].rid \in Attempts /\ vault[u].answers # {} /\ attempt[vault[u].rid].uid = u
        /\ vault[u].last \in Nat /\ vault[u].usage \in Nat
    <3>1. u \in Uids /\ HasRow(u)
      BY <1>0, RowOf DEF PostOK
    <3> QED BY <1>0, <3>1 DEF ReuseIInv, PairsOK, VaultRows
  <2>1. /\ DOMAIN fields = {"held", "uid", "prev", "number", "pc"} /\ fields["held"] = {}
        /\ fields["uid"] = u /\ fields["prev"] = vault[u].last
        /\ fields["number"] = vault[u].usage + 1 /\ fields["pc"] = "commit"
        /\ Moves(p, fields)
    BY <1>2
  <2>2. /\ FieldTypes["pc"] = PostSteps /\ FieldTypes["held"] = SUBSET Uids /\ "commit" \in PostSteps
        /\ FieldTypes["uid"] = Uids \cup {0} /\ FieldTypes["prev"] = Nat /\ FieldTypes["number"] = Nat
    BY DEF FieldTypes, PostSteps, SlotSteps
  <2> HIDE DEF fields
  <2>3. \A f \in PostFields \cap DOMAIN fields : fields[f] \in FieldTypes[f]
    BY <2>0, <2>1, <2>2
  <2>4. /\ post' \in [Posts -> PostRows] /\ Aside(p)
        /\ \A f \in PostFields :
             post'[p][f] = IF f \in DOMAIN fields THEN fields[f] ELSE post[p][f]
    BY <1>0, <2>1, <2>3, MoveIs
  <2>5. /\ post'[p].held = {} /\ post'[p].uid = u /\ post'[p].prev = vault[u].last
        /\ post'[p].pc = "commit"
        /\ \A f \in PostFields \ {"pc", "held", "uid", "prev", "number"} : post'[p][f] = post[p][f]
    BY <2>1, <2>4 DEF PostFields
  <2>6. /\ row \in VaultRows /\ row.last = now /\ row.rid = vault[u].rid
        /\ row.answers = vault[u].answers /\ row.usage = vault[u].usage + 1
    BY <1>0, <2>0, VisitedRow
  <2>7. vault' = [vault EXCEPT ![u] = row]
    BY <1>2, <2>0, <1>0
  <2> HIDE DEF row
  <2>8. p \in Owing' /\ (\A v \in Uids \ {u} : p \notin Visiting(v)') /\ p \in Visiting(u)'
    BY <2>5 DEF Owing, Visiting, SlotSteps
  <2>9. VaultMoves(p)
    <3>1. row.usage + In(p, Visiting(u)) >= vault[u].usage + In(p, Visiting(u)')
      BY <1>a, <2>0, <2>6, <2>8 DEF In
    <3>2. row.last <= now /\ row.rid \in Attempts /\ row.answers # {} /\ attempt[row.rid].uid = u
      BY <1>0, <2>0, <2>6
    <3> QED BY <2>0, <2>6, <2>7, <2>8, <3>1, <3>2, OneRow
  <2>10. PostOK(p)'
    <3>1. HasRow(u)'
      BY <2>0, <2>9 DEF VaultMoves
    <3> QED BY <1>0, <2>0, <2>5, <3>1 DEF PostOK, SlotSteps, HasRow, At, PostFields
  <2>11. Covered(p)
    BY <1>0, <1>a, <2>4, <2>8, <2>10 DEF Covered, In, TargetOK, ReuseTypes, CounterRows
  <2> QED BY <1>0, <2>9, <2>11, VaultStep
<1> QED BY <1>1, <1>2 DEF PickProfile

LEMMA UndoStep ==
  ASSUME ReuseIInv, NEW p \in Posts, UndoReservation(p)
  PROVE  ReuseIInv'
<1> DEFINE to == IF post[p].tries + 1 = MaxTries THEN "release" ELSE "scan"
<1>0. /\ ReuseTypes /\ At(p, "undo") /\ PostOK(p)
      /\ UNCHANGED <<now, traffic, attempt, counter, events, lastUse, faults, refunds>>
      /\ counter \in CounterRows /\ TargetOK /\ vault \in [Uids -> VaultRows]
      /\ now \in Nat
  BY DEF UndoReservation, ReuseIInv, ReuseTypes
<1>1. PICK u \in Uids : u = post[p].uid /\ HasRow(u)
  BY <1>0 DEF PostOK, At
<1> DEFINE fields == [excluded |-> post[p].excluded \cup {u}, tries |-> post[p].tries + 1, pc |-> to]
           row == Undone(vault[u], post[p])
<1>m. Moves(p, fields) /\ vault' = [vault EXCEPT ![u] = row]
  BY <1>0, <1>1 DEF UndoReservation
<1>2. /\ vault[u] \in VaultRows /\ vault[u].last <= now
      /\ vault[u].rid \in Attempts /\ vault[u].answers # {} /\ attempt[vault[u].rid].uid = u
      /\ vault[u].last \in Nat /\ vault[u].usage \in Nat
  BY <1>0, <1>1 DEF ReuseIInv, PairsOK, VaultRows
<1>3. to \in {"release", "scan"}
  OBVIOUS
<1>4. /\ row \in VaultRows /\ row.last <= now /\ row.rid = vault[u].rid
      /\ row.answers = vault[u].answers /\ row.usage + 1 >= vault[u].usage
  <2>1. post[p].prev \in Nat /\ post[p].prev <= now
    BY <1>0, RowOf DEF PostOK
  <2> QED BY <1>2, <2>1, UndoneRow
<1>6. /\ DOMAIN fields = {"excluded", "tries", "pc"}
      /\ fields["excluded"] = post[p].excluded \cup {u} /\ fields["tries"] = post[p].tries + 1
      /\ fields["pc"] = to
  OBVIOUS
<1> HIDE DEF row, to
<1>7. /\ FieldTypes["pc"] = PostSteps /\ FieldTypes["excluded"] = SUBSET Uids
      /\ FieldTypes["tries"] = Nat /\ "release" \in PostSteps /\ "scan" \in PostSteps
      /\ post[p].tries + 1 \in Nat /\ post[p].excluded \cup {u} \in SUBSET Uids
  <2>1. post[p] \in PostRows
    BY <1>0 DEF ReuseTypes
  <2>2. post[p].tries \in Nat /\ post[p].excluded \in SUBSET Uids
    BY <2>1 DEF PostRows
  <2> QED BY <1>1, <2>2 DEF FieldTypes, PostSteps, SlotSteps
<1>8. \A f \in PostFields \cap DOMAIN fields : fields[f] \in FieldTypes[f]
  BY <1>3, <1>6, <1>7
<1> HIDE DEF fields
<1>9. /\ post' \in [Posts -> PostRows] /\ Aside(p)
      /\ \A f \in PostFields :
           post'[p][f] = IF f \in DOMAIN fields THEN fields[f] ELSE post[p][f]
  BY <1>0, <1>m, <1>8, MoveIs
<1>10. /\ post'[p].pc = to
       /\ \A f \in PostFields \ {"pc", "tries", "excluded"} : post'[p][f] = post[p][f]
  BY <1>6, <1>9 DEF PostFields
<1>11. p \in Owing /\ p \in Owing' /\ \A v \in Uids : p \notin Visiting(v)'
  BY <1>0, <1>3, <1>10 DEF Owing, Visiting, SlotSteps, At
<1>12. VaultMoves(p)
  <2>1. HasRow(u) => row.usage + In(p, Visiting(u)) >= vault[u].usage + In(p, Visiting(u)')
    <3>1. p \in Visiting(u)
      BY <1>0, <1>1 DEF Visiting, At
    <3> QED BY <1>2, <1>4, <1>11, <1>1, <3>1 DEF In, VaultRows
  <2>2. row.last <= now /\ row.rid \in Attempts /\ row.answers # {} /\ attempt[row.rid].uid = u
    BY <1>2, <1>4
  <2> QED BY <1>1, <1>4, <1>m, <1>11, <2>1, <2>2, OneRow
<1>13. PostOK(p)'
  <2>1. \A v \in post[p].held : HasRow(v)'
    BY <1>0, <1>12, RowOf DEF PostOK, VaultMoves
  <2> QED BY <1>0, <1>3, <1>10, <2>1 DEF PostOK, SlotSteps, HasRow, At, PostFields
<1>14. Covered(p)
  BY <1>0, <1>9, <1>11, <1>13 DEF Covered, In, TargetOK, ReuseTypes, CounterRows
<1> QED BY <1>0, <1>12, <1>14, VaultStep
LEMMA PersistStep ==
  ASSUME ReuseIInv, NEW p \in Posts, Persist(p)
  PROVE  ReuseIInv'
<1>0. /\ ReuseTypes /\ At(p, "persist") /\ PostOK(p)
      /\ UNCHANGED <<now, traffic, attempt, counter, events, lastUse, faults, refunds>>
      /\ counter \in CounterRows /\ TargetOK /\ vault \in [Uids -> VaultRows]
      /\ now \in Nat /\ post \in [Posts -> PostRows] /\ attempt \in [Attempts -> AttemptRows]
  BY DEF Persist, ReuseIInv, ReuseTypes
<1>1. PICK u \in Uids : u = post[p].own
  BY <1>0, RowOf DEF PostOK, At
<1>2. /\ Of(p) \in Attempts /\ attempt[Of(p)].uid = u /\ post[p].answers \in Answers
      /\ post[p].answers # {}
  BY <1>0, <1>1, ReuseBounds DEF PostOK, At, Of
<1>3. PICK pc \in {"done", "redirect"} : post' = [post EXCEPT ![p].pc = pc]
  BY DEF Persist, Goes
<1>4. post' \in [Posts -> PostRows] /\ Aside(p) /\ post'[p] = [post[p] EXCEPT !.pc = pc]
  BY <1>0, <1>3 DEF Aside, PostRows, PostSteps
<1>5. post'[p].pc = pc /\ \A f \in PostFields \ {"pc"} : post'[p][f] = post[p][f]
  BY <1>0, <1>4, RowOf
<1>6. p \notin Owing /\ p \notin Owing' /\ \A v \in Uids : p \notin Visiting(v)' /\ p \notin Visiting(v)
  BY <1>0, <1>5 DEF Owing, Visiting, SlotSteps, At
<1>7. PostOK(p)' /\ Covered(p)
  <2>1. ASSUME \A v \in Uids : HasRow(v) => HasRow(v)' PROVE PostOK(p)'
    <3>1. \A v \in post[p].held : HasRow(v)'
      BY <1>0, <2>1, RowOf DEF PostOK
    <3> QED BY <1>0, <1>3, <1>5, <3>1 DEF PostOK, SlotSteps, HasRow, At, PostFields
  <2>2. \A v \in Uids : HasRow(v) => HasRow(v)'
    <3> SUFFICES ASSUME NEW v \in Uids, vault[v] # NoRow PROVE vault'[v] # NoRow
      BY DEF HasRow, NoRow
    <3>1. vault[v].answers # {}
      BY DEF ReuseIInv, PairsOK, HasRow
    <3>2. vault' = vault \/ vault' = [vault EXCEPT ![u] =
                     CASE @ = NoRow -> Fresh(p) [] vault[u] # NoRow /\ vault[u].answers # post[p].answers ->
                            Replaced(@, p) [] OTHER -> @]
      BY <1>1 DEF Persist
    <3>3. vault'[v].answers # {}
      <4>1. CASE vault' = vault
        BY <3>1, <4>1
      <4>2. CASE v # u
        BY <1>0, <3>1, <3>2, <4>2
      <4>3. CASE vault' # vault /\ v = u
        <5>1. vault'[u] = Replaced(vault[u], p) \/ vault'[u] = vault[u]
          BY <1>0, <3>2, <4>3
        <5>2. Replaced(vault[u], p).answers = post[p].answers
          BY <1>0 DEF Replaced, VaultRows
        <5> QED BY <1>2, <3>1, <4>3, <5>1, <5>2
      <4> QED BY <4>1, <4>2, <4>3
    <3> QED BY <3>3 DEF NoRow
  <2> QED BY <1>0, <1>4, <1>6, <2>1, <2>2 DEF Covered, In, TargetOK, ReuseTypes, CounterRows
<1>8. CASE vault' = vault
  BY <1>0, <1>6, <1>7, <1>8, OnlyPosts
<1>9. CASE ~ MappedToOther(p) /\ vault' = [vault EXCEPT ![u] =
                     CASE @ = NoRow -> Fresh(p) [] vault[u] # NoRow /\ vault[u].answers # post[p].answers ->
                            Replaced(@, p) [] OTHER -> @]
  <2>1. CASE vault[u] = NoRow
    <3> DEFINE row == Fresh(p)
    <3>1. /\ row \in VaultRows /\ row.last = 0 /\ row.rid = Of(p) /\ row.answers # {}
          /\ row.usage = 1
      BY <1>0, <1>2 DEF Fresh, VaultRows
    <3>2. vault' = [vault EXCEPT ![u] = row]
      BY <1>0, <1>9, <2>1
    <3> HIDE DEF row
    <3>3. VaultMoves(p)
      <4>1. ~ HasRow(u)
        BY <2>1 DEF HasRow
      <4>2. row.last <= now /\ row.rid \in Attempts /\ attempt[row.rid].uid = u /\ row.usage >= 1
        BY <1>0, <1>2, <3>1
      <4> QED BY <1>6, <3>1, <3>2, <4>1, <4>2, OneRow
    <3> QED BY <1>0, <1>7, <3>3, VaultStep
  <2>2. CASE vault[u] # NoRow /\ vault[u].answers # post[p].answers
    <3> DEFINE row == Replaced(vault[u], p)
    <3>1. /\ row \in VaultRows /\ row.last = vault[u].last /\ row.rid = vault[u].rid
          /\ row.answers # {} /\ row.usage = vault[u].usage
      <4>1. vault[u] \in VaultRows /\ post[p].answers \in Answers /\ now \in Nat
        BY <1>0, <1>2
      <4>2. row = [vault[u] EXCEPT !.answers = post[p].answers, !.submitted = now]
        BY DEF Replaced
      <4> HIDE DEF row
      <4> QED BY <1>2, <4>1, <4>2 DEF VaultRows
    <3>2. vault' = [vault EXCEPT ![u] = row]
      BY <1>0, <1>9, <2>2
    <3> HIDE DEF row
    <3>3. HasRow(u) /\ vault[u].last <= now /\ vault[u].rid \in Attempts /\ attempt[vault[u].rid].uid = u
          /\ vault[u].usage \in Nat
      BY <1>0, <2>2 DEF HasRow, ReuseIInv, PairsOK, VaultRows
    <3>4. VaultMoves(p)
      <4>1. row.usage + In(p, Visiting(u)) >= vault[u].usage + In(p, Visiting(u)')
        BY <1>6, <3>1, <3>3 DEF In
      <4>2. row.last <= now /\ row.rid \in Attempts /\ attempt[row.rid].uid = u
        BY <3>1, <3>3
      <4> QED BY <1>6, <3>1, <3>2, <3>3, <4>1, <4>2, OneRow
    <3> QED BY <1>0, <1>7, <3>4, VaultStep
  <2>3. CASE vault[u] # NoRow /\ vault[u].answers = post[p].answers
    <3>1. vault' = vault
      BY <1>0, <1>9, <2>3
    <3> QED BY <1>0, <1>6, <1>7, <3>1, OnlyPosts
  <2> QED BY <2>1, <2>2, <2>3
<1> QED BY <1>1, <1>8, <1>9 DEF Persist
-----------------------------------------------------------------------------
\* Steps that give an attempt a column and change no vault row.
AttemptMoves(p) ==
  /\ attempt' \in [Attempts -> AttemptRows]
  /\ \A a \in Attempts : attempt[a].uid # 0 => attempt'[a].uid = attempt[a].uid
  /\ \A a \in Attempts : attempt'[a].chosen = attempt[a].chosen
  /\ \A a \in Attempts : attempt'[a].uid # attempt[a].uid =>
       \A b \in Attempts \ {a} : /\ attempt'[b].uid = attempt[b].uid
                                 /\ attempt'[a].uid # attempt[b].uid

LEMMA AttemptStep ==
  ASSUME ReuseIInv, NEW p \in Posts, Covered(p), AttemptMoves(p),
         UNCHANGED <<now, traffic, vault, events, lastUse>>,
         \A u \in Uids : p \in Visiting(u)' => p \in Visiting(u)
  PROVE  ReuseIInv'
<1>0. \A u \in Uids : HasRow(u)' <=> HasRow(u)
  BY DEF HasRow, NoRow
<1>1. ReuseTypes'
  BY DEF ReuseIInv, ReuseTypes, Covered, AttemptMoves
<1>2. PairsOK'
  <2>1. \A u \in Uids : vault'[u].last <= now' /\ lastUse'[u] <= now'
    BY DEF ReuseIInv, PairsOK
  <2>2. \A u \in Uids : vault'[u] # NoRow => /\ vault'[u].rid \in Attempts /\ vault'[u].answers # {}
                                             /\ attempt'[vault'[u].rid].uid = u
    BY ReuseBounds DEF ReuseIInv, PairsOK, HasRow, AttemptMoves
  <2>3. \A a, b \in Attempts : a # b /\ attempt'[a].uid # 0 => attempt'[a].uid # attempt'[b].uid
    BY DEF ReuseIInv, PairsOK, AttemptMoves
  <2>4. \A a \in Attempts : attempt'[a].chosen # 0 => vault'[attempt'[a].chosen] # NoRow
    BY DEF ReuseIInv, PairsOK, HasRow, AttemptMoves
  <2> QED BY <2>1, <2>2, <2>3, <2>4 DEF PairsOK, HasRow, NoRow
<1>3. DecisionsOK'
  BY DEF ReuseIInv, ReuseTypes, EventRows, DecisionsOK, HasRow, AttemptMoves, NoRow
<1>4. ReusePolicyHolds' /\ TargetOK'
  BY DEF ReuseIInv, ReusePolicyHolds, Covered
<1>5. ProfileOncePerProject'
  <2> SUFFICES ASSUME NEW a \in Attempts, NEW b \in Attempts, a # b, SurveyOf[a] = SurveyOf[b],
                      attempt'[a].chosen # 0
               PROVE  attempt'[a].chosen \notin {attempt'[b].chosen, attempt'[b].uid}
    BY DEF ProfileOncePerProject
  <2>1. /\ attempt'[a].chosen = attempt[a].chosen /\ attempt'[b].chosen = attempt[b].chosen
        /\ attempt[a].chosen \notin {attempt[b].chosen, attempt[b].uid}
    BY DEF ReuseIInv, ProfileOncePerProject, AttemptMoves
  <2>2. PICK u \in Uids : u = attempt[a].chosen /\ vault[u] # NoRow
    BY <2>1 DEF ReuseIInv, ReuseTypes, AttemptRows, PairsOK, HasRow
  <2>3. vault[u].rid \in Attempts /\ attempt[vault[u].rid].uid = u
    BY <2>2 DEF ReuseIInv, PairsOK, HasRow
  <2>4. attempt'[b].uid # u
    <3>1. CASE attempt'[b].uid = attempt[b].uid
      BY <2>1, <2>2, <3>1
    <3>2. CASE attempt'[b].uid # attempt[b].uid
      <4>1. vault[u].rid # b
        BY <2>3, <3>2, <2>2, ReuseBounds DEF AttemptMoves
      <4> QED BY <2>3, <3>2, <4>1 DEF AttemptMoves
    <3> QED BY <3>1, <3>2
  <2> QED BY <2>1, <2>2, <2>4
<1>6. \A q \in Posts : PostOK(q)'
  <2>1. Steady /\ now' \in Nat
    BY <1>0 DEF Steady, ReuseIInv, ReuseTypes, AttemptMoves
  <2> QED BY <2>1, OthersOK DEF ReuseIInv, Covered
<1>7. ASSUME NEW u \in Uids, HasRow(u)
      PROVE  vault'[u].usage >= 1 + Cardinality(ReusesOf(u)') + Cardinality(Visiting(u)')
  <2>1. vault'[u] = vault[u] /\ ReusesOf(u)' = ReusesOf(u)
    BY DEF ReusesOf
  <2>2. /\ Cardinality(Visiting(u)) \in Nat /\ Cardinality(Visiting(u)') \in Nat
        /\ Cardinality(Visiting(u)') + In(p, Visiting(u)) = Cardinality(Visiting(u)) + In(p, Visiting(u)')
    BY VisitingMoves DEF Covered
  <2>3. In(p, Visiting(u)') \in {0, 1} /\ In(p, Visiting(u)) \in {0, 1}
        /\ In(p, Visiting(u)') <= In(p, Visiting(u))
    BY DEF In
  <2>4. Cardinality(ReusesOf(u)) \in Nat /\ vault[u].usage \in Nat
    BY ReusesCount DEF ReuseIInv, ReuseTypes, VaultRows
  <2>5. vault[u].usage >= 1 + Cardinality(ReusesOf(u)) + Cardinality(Visiting(u))
    BY <1>7 DEF ReuseIInv, CountsOK
  <2> QED BY <2>1, <2>2, <2>3, <2>4, <2>5
<1>8. CountsOK'
  BY <1>0, <1>7, OweNoMore DEF CountsOK
<1> QED BY <1>1, <1>2, <1>3, <1>4, <1>5, <1>6, <1>8 DEF ReuseIInv

LEMMA EnsureStep ==
  ASSUME ReuseIInv, NEW p \in Posts, EnsureUid(p)
  PROVE  ReuseIInv'
<1>0. /\ ReuseTypes /\ At(p, "ensure") /\ PostOK(p)
      /\ UNCHANGED <<now, traffic, vault, counter, events, lastUse, faults, refunds>>
      /\ counter \in CounterRows /\ TargetOK
      /\ attempt \in [Attempts -> AttemptRows] /\ post \in [Posts -> PostRows]
  BY DEF EnsureUid, ReuseIInv, ReuseTypes
<1>1. PICK a \in Attempts : a = post[p].of
  BY <1>0 DEF PostOK, At
<1>2. PICK u \in Uids \cup {0} :
        /\ Moves(p, [own |-> u, pc |-> "persist"])
        /\ attempt'[a].uid = u /\ u # 0
        /\ AttemptMoves(p)
  <2>1. CASE Draws(p)
    <3>1. PICK v \in Uids : /\ \A b \in Attempts : attempt[b].uid # v
                            /\ attempt' = [attempt EXCEPT ![a].uid = v]
                            /\ Moves(p, [own |-> v, pc |-> "persist"])
      BY <1>1, <2>1 DEF EnsureUid, Of
    <3>2. /\ attempt' \in [Attempts -> AttemptRows] /\ attempt'[a].uid = v
          /\ attempt'[a].chosen = attempt[a].chosen
          /\ \A b \in Attempts \ {a} : attempt'[b] = attempt[b]
      BY <1>0, <3>1 DEF AttemptRows
    <3>3. attempt[a].uid = 0
      BY <1>1, <2>1 DEF Draws, Of
    <3>4. AttemptMoves(p)
      BY <3>1, <3>2, <3>3 DEF AttemptMoves
    <3> QED BY <3>1, <3>2, <3>4, ReuseBounds
  <2>2. CASE ~ Draws(p)
    <3>1. attempt' = attempt /\ Moves(p, [own |-> attempt[a].uid, pc |-> "persist"])
      BY <1>1, <2>2 DEF EnsureUid, Of
    <3>2. AttemptMoves(p)
      BY <1>0, <3>1 DEF AttemptMoves
    <3>3. attempt[a].uid \in Uids \cup {0} /\ attempt[a].uid # 0
      BY <1>0, <1>1, <2>2 DEF AttemptRows, Draws, PostOK, At, Of
    <3> QED BY <3>1, <3>2, <3>3
  <2> QED BY <2>1, <2>2
<1> DEFINE fields == [own |-> u, pc |-> "persist"]
<1>4. DOMAIN fields = {"own", "pc"} /\ fields["own"] = u /\ fields["pc"] = "persist"
      /\ Moves(p, fields)
  BY <1>2
<1>5. FieldTypes["pc"] = PostSteps /\ FieldTypes["own"] = Uids \cup {0} /\ "persist" \in PostSteps
  BY DEF FieldTypes, PostSteps, SlotSteps
<1> HIDE DEF fields
<1>6. \A f \in PostFields \cap DOMAIN fields : fields[f] \in FieldTypes[f]
  BY <1>4, <1>5
<1>7. /\ post' \in [Posts -> PostRows] /\ Aside(p)
      /\ \A f \in PostFields :
           post'[p][f] = IF f \in DOMAIN fields THEN fields[f] ELSE post[p][f]
  BY <1>0, <1>4, <1>6, MoveIs
<1>8. /\ post'[p].own = u /\ post'[p].pc = "persist"
      /\ \A f \in PostFields \ {"pc", "own"} : post'[p][f] = post[p][f]
  BY <1>4, <1>7 DEF PostFields
<1>9. PostOK(p)'
  BY <1>0, <1>1, <1>2, <1>8 DEF PostOK, SlotSteps, HasRow, At, PostFields, NoRow
<1>10. p \notin Owing /\ p \notin Owing' /\ \A v \in Uids : p \notin Visiting(v)'
  BY <1>0, <1>8 DEF Owing, Visiting, SlotSteps, At
<1>11. Covered(p)
  BY <1>0, <1>7, <1>9, <1>10 DEF Covered, In, TargetOK, ReuseTypes, CounterRows
<1> QED BY <1>0, <1>2, <1>10, <1>11, AttemptStep

LEMMA RedirectStep ==
  ASSUME ReuseIInv, NEW p \in Posts, Redirect(p)
  PROVE  ReuseIInv'
<1>0. /\ ReuseTypes /\ At(p, "redirect") /\ PostOK(p)
      /\ UNCHANGED <<now, traffic, vault, counter, events, lastUse, faults, refunds>>
      /\ counter \in CounterRows /\ TargetOK
      /\ attempt \in [Attempts -> AttemptRows] /\ post \in [Posts -> PostRows]
      /\ post' = [post EXCEPT ![p].pc = "done"]
  BY DEF Redirect, ReuseIInv, ReuseTypes, Goes
<1>1. PICK a \in Attempts : a = post[p].of
  BY <1>0 DEF PostOK, At
<1>2. post[p].answers \in Answers
  BY <1>0 DEF PostOK, At
<1>3. AttemptMoves(p)
  <2>1. CASE attempt' = attempt
    BY <1>0, <2>1 DEF AttemptMoves
  <2>2. CASE attempt' # attempt
    <3> DEFINE x == [uid |-> IF attempt[a].chosen # 0 THEN attempt[a].chosen ELSE attempt[a].uid,
                     answers |-> post[p].answers]
    <3>1. attempt' = [attempt EXCEPT ![a].sent = x]
      BY <1>1, <2>2 DEF Redirect, Of
    <3>2. x \in [uid : Uids \cup {0}, answers : Answers \cup {{}}]
      <4>1. attempt[a].chosen \in Uids \cup {0} /\ attempt[a].uid \in Uids \cup {0}
        BY <1>0 DEF AttemptRows
      <4> QED BY <1>2, <4>1
    <3> HIDE DEF x
    <3>3. /\ attempt' \in [Attempts -> AttemptRows]
          /\ \A b \in Attempts : attempt'[b].uid = attempt[b].uid /\ attempt'[b].chosen = attempt[b].chosen
      BY <1>0, <3>1, <3>2 DEF AttemptRows
    <3> QED BY <3>3 DEF AttemptMoves
  <2> QED BY <2>1, <2>2
<1>4. post' \in [Posts -> PostRows] /\ Aside(p) /\ post'[p] = [post[p] EXCEPT !.pc = "done"]
  BY <1>0 DEF Aside, PostRows, PostSteps
<1>5. post'[p].pc = "done" /\ \A f \in PostFields \ {"pc"} : post'[p][f] = post[p][f]
  BY <1>0, <1>4, RowOf
<1>6. PostOK(p)'
  <2>1. attempt'[post[p].of].uid = attempt[post[p].of].uid \/ attempt[post[p].of].uid = 0
    BY <1>1, <1>3 DEF AttemptMoves
  <2> QED BY <1>0, <1>5, <2>1 DEF PostOK, SlotSteps, HasRow, At, PostFields, NoRow
<1>7. p \notin Owing /\ p \notin Owing' /\ \A v \in Uids : p \notin Visiting(v)'
  BY <1>0, <1>5 DEF Owing, Visiting, SlotSteps, At
<1>8. Covered(p)
  BY <1>0, <1>4, <1>6, <1>7 DEF Covered, In, TargetOK, ReuseTypes, CounterRows
<1> QED BY <1>0, <1>3, <1>7, <1>8, AttemptStep
-----------------------------------------------------------------------------
\* The reuse that commits: rested, below its limit, and unused on the project.
LEMMA PolicyAgain ==
  ASSUME ReuseTypes, DecisionsOK, ReusePolicyHolds, NEW u \in Uids, Rested(u), BelowLimit(u),
         \A e \in events : lastUse[e.uid] <= now,
         NEW new, new.uid = u, new.at = now, new \notin events, events' = events \cup {new}
  PROVE  ReusePolicyHolds'
<1>0. /\ now \in Nat /\ Interval \in Nat /\ Window \in Nat /\ MaxUses \in Nat
      /\ events \subseteq EventRows /\ IsFiniteSet(events) /\ \A v \in Uids : lastUse[v] \in Nat
  BY ReuseBounds DEF ReuseTypes
<1>1. \A e \in events : /\ e.at \in Nat /\ e.uid \in Uids /\ 1 <= e.at /\ e.at <= lastUse[e.uid]
                        /\ e.at <= now
  BY <1>0 DEF EventRows, DecisionsOK
<1>2. \A e \in events : e.uid = u => e.at + Interval <= now
  <2> SUFFICES ASSUME NEW e \in events, e.uid = u PROVE e.at + Interval <= now
    OBVIOUS
  <2>1. lastUse[u] # 0 /\ lastUse[u] \in Nat /\ e.at \in Nat /\ e.at <= lastUse[u]
    BY <1>0, <1>1
  <2>2. lastUse[u] + Interval <= now
    BY <2>1 DEF Rested
  <2> QED BY <1>0, <2>1, <2>2
<1>3. IsFiniteSet(Recent(u, now)) /\ Cardinality(Recent(u, now)) \in Nat
      /\ new \notin Recent(u, now)
  BY <1>0, FS_Subset, FS_CardinalityType DEF Recent
<1>4. /\ IsFiniteSet(Recent(u, now) \cup {new})
      /\ Cardinality(Recent(u, now) \cup {new}) = Cardinality(Recent(u, now)) + 1
  BY <1>3, FS_AddElement
<1>5. Cardinality(Recent(u, now) \cup {new}) <= MaxUses
  BY <1>0, <1>3, <1>4 DEF BelowLimit
<1> SUFFICES ASSUME NEW e \in events'
             PROVE  /\ \A f \in events' \ {e} :
                         f.uid = e.uid => f.at + Interval <= e.at \/ e.at + Interval <= f.at
                    /\ Cardinality({f \in events' : /\ f.uid = e.uid /\ f.at <= e.at
                                                    /\ f.at + Window >= e.at}) <= MaxUses
  BY DEF ReusePolicyHolds
<1>6. \A f \in events' \ {e} : f.uid = e.uid => f.at + Interval <= e.at \/ e.at + Interval <= f.at
  <2> SUFFICES ASSUME NEW f \in events' \ {e}, f.uid = e.uid
               PROVE  f.at + Interval <= e.at \/ e.at + Interval <= f.at
    OBVIOUS
  <2>1. CASE e \in events /\ f \in events
    BY <2>1 DEF ReusePolicyHolds
  <2>2. CASE e = new /\ f \in events
    BY <1>2, <2>2
  <2>3. CASE e \in events /\ f = new
    BY <1>2, <2>3
  <2> QED BY <2>1, <2>2, <2>3
<1> DEFINE S == {f \in events' : /\ f.uid = e.uid /\ f.at <= e.at /\ f.at + Window >= e.at}
<1>7. Cardinality(S) <= MaxUses
  <2>1. CASE e.uid = u /\ e.at = now
    <3>1. S \subseteq Recent(u, now) \cup {new}
      BY <2>1 DEF Recent
    <3>2. Cardinality(S) <= Cardinality(Recent(u, now) \cup {new}) /\ Cardinality(S) \in Nat
      BY <1>4, <3>1, FS_Subset, FS_CardinalityType
    <3> QED BY <1>0, <1>3, <1>4, <1>5, <3>2
  <2>2. CASE ~ (e.uid = u /\ e.at = now)
    <3>1. e \in events
      BY <2>2
    <3>2. S = {f \in events : f.uid = e.uid /\ f.at <= e.at /\ f.at + Window >= e.at}
      <4>1. ~ (new.uid = e.uid /\ new.at <= e.at)
        BY <1>0, <1>1, <2>2, <3>1
      <4> QED BY <4>1
    <3> QED BY <3>1, <3>2 DEF ReusePolicyHolds
  <2> QED BY <2>1, <2>2
<1> QED BY <1>6, <1>7

LEMMA CommitStep ==
  ASSUME ReuseIInv, NEW p \in Posts, CommitReuse(p)
  PROVE  ReuseIInv'
<1>0. /\ ReuseTypes /\ At(p, "commit") /\ PostOK(p)
      /\ UNCHANGED <<now, traffic, vault, counter, faults, refunds>>
      /\ counter \in CounterRows /\ TargetOK /\ now \in 1 .. MaxNow /\ now \in Nat
      /\ attempt \in [Attempts -> AttemptRows] /\ post \in [Posts -> PostRows]
      /\ vault \in [Uids -> VaultRows] /\ lastUse \in [Uids -> Nat]
  BY ReuseBounds DEF CommitReuse, ReuseIInv, ReuseTypes
<1>1. PICK a \in Attempts : a = post[p].of
  BY <1>0 DEF PostOK, At
<1>2. PICK u \in Uids : u = post[p].uid /\ HasRow(u)
  BY <1>0 DEF PostOK, At
<1>3. PICK pc \in {"mark", "undo"} : post' = [post EXCEPT ![p].pc = pc]
  BY DEF CommitReuse, Goes
<1>4. post' \in [Posts -> PostRows] /\ Aside(p) /\ post'[p] = [post[p] EXCEPT !.pc = pc]
  <2>1. post[p] \in PostRows /\ pc \in PostSteps
    BY <1>0, <1>3 DEF PostSteps, SlotSteps
  <2>2. [post[p] EXCEPT !.pc = pc] \in PostRows
    BY <2>1 DEF PostRows
  <2> QED BY <1>0, <1>3, <2>2 DEF Aside
<1>5. post'[p].pc = pc /\ \A f \in PostFields \ {"pc"} : post'[p][f] = post[p][f]
  BY <1>0, <1>4, RowOf
<1>6. p \in Owing /\ p \in Visiting(u)
  BY <1>0, <1>2 DEF Owing, Visiting, SlotSteps, At
<1>h. \A v \in Uids : HasRow(v)' <=> HasRow(v)
  BY <1>0 DEF HasRow, NoRow
<1>7. CASE UNCHANGED <<attempt, events, lastUse>> /\ post' = [post EXCEPT ![p].pc = "undo"]
  <2>1. post'[p].pc = "undo"
    BY <1>0, <1>7
  <2>2. PostOK(p)'
    <3>1. /\ post'[p].slot = post[p].slot /\ post'[p].prev = post[p].prev
          /\ post'[p].held = post[p].held /\ post'[p].of = post[p].of
          /\ post'[p].answers = post[p].answers /\ post'[p].own = post[p].own
          /\ post'[p].uid = post[p].uid
      BY <1>5 DEF PostFields
    <3>2. post[p].pc = "commit" /\ PostOK(p) /\ attempt' = attempt /\ now' = now
      BY <1>0, <1>7 DEF At
    <3>3. /\ post[p].slot /\ post[p].prev <= now /\ \A v \in post[p].held : HasRow(v)
          /\ post[p].of \in Attempts /\ post[p].answers \in Answers
          /\ post[p].own \in {0, attempt[post[p].of].uid}
          /\ post[p].uid \in Uids /\ HasRow(post[p].uid) /\ post[p].held \subseteq Uids
      BY <1>0, <3>2 DEF PostOK, SlotSteps, PostRows
    <3> QED
      BY <1>h, <2>1, <3>1, <3>2, <3>3 DEF PostOK, SlotSteps
  <2>3. p \in Owing' /\ \A v \in Uids : p \in Visiting(v)' => p \in Visiting(v)
    BY <1>0, <1>5, <2>1 DEF Owing, Visiting, SlotSteps, At, PostFields
  <2>4. Covered(p)
    BY <1>0, <1>4, <1>6, <2>2, <2>3 DEF Covered, In, TargetOK, ReuseTypes, CounterRows
  <2> QED BY <1>0, <1>7, <2>3, <2>4, OnlyPosts
<1> DEFINE new == [attempt |-> a, uid |-> u, at |-> now]
<1>8. ASSUME Undecided(a), Rested(u), Unused(p, u), BelowLimit(u), post[p].own # 0,
             attempt' = [attempt EXCEPT ![a].chosen = u], events' = events \cup {new},
             lastUse' = [lastUse EXCEPT ![u] = now], post' = [post EXCEPT ![p].pc = "mark"]
      PROVE  ReuseIInv'
  <2>0. /\ new \in EventRows /\ new.attempt = a /\ new.uid = u /\ new.at = now
    BY <1>0 DEF EventRows
  <2> HIDE DEF new
  <2>1. /\ attempt' \in [Attempts -> AttemptRows] /\ attempt'[a].chosen = u
        /\ \A b \in Attempts : attempt'[b].uid = attempt[b].uid
        /\ \A b \in Attempts \ {a} : attempt'[b].chosen = attempt[b].chosen
    BY <1>0, <1>8 DEF AttemptRows
  <2>2. attempt[a].chosen = 0 /\ (\A e \in events : e.attempt # a) /\ new \notin events
    BY <1>8, <2>0 DEF Undecided, EventsOf
  <2>3. /\ lastUse' \in [Uids -> Nat] /\ lastUse'[u] = now
        /\ \A v \in Uids \ {u} : lastUse'[v] = lastUse[v]
    BY <1>0, <1>8
  <2>4. ReuseTypes'
    <3>1. IsFiniteSet(events')
      BY <1>8, FS_AddElement DEF ReuseIInv, ReuseTypes
    <3> QED BY <1>0, <1>4, <1>8, <2>0, <2>1, <2>3, <3>1 DEF ReuseTypes
  <2>5. PairsOK'
    <3>1. \A v \in Uids : vault'[v].last <= now' /\ lastUse'[v] <= now'
      BY <1>0, <2>3 DEF ReuseIInv, PairsOK
    <3>2. \A v \in Uids : vault'[v] # NoRow => /\ vault'[v].rid \in Attempts /\ vault'[v].answers # {}
                                               /\ attempt'[vault'[v].rid].uid = v
      BY <1>0, <2>1 DEF ReuseIInv, PairsOK, HasRow
    <3>3. \A b, c \in Attempts : b # c /\ attempt'[b].uid # 0 => attempt'[b].uid # attempt'[c].uid
      BY <2>1 DEF ReuseIInv, PairsOK
    <3>4. \A b \in Attempts : attempt'[b].chosen # 0 => vault'[attempt'[b].chosen] # NoRow
      BY <1>0, <1>2, <2>1 DEF ReuseIInv, PairsOK, HasRow
    <3> QED BY <3>1, <3>2, <3>3, <3>4 DEF PairsOK, HasRow, NoRow
  <2>6. DecisionsOK'
    <3> SUFFICES ASSUME NEW e \in events'
                 PROVE  /\ vault'[e.uid] # NoRow /\ 1 <= e.at /\ e.at <= lastUse'[e.uid]
                        /\ attempt'[e.attempt].chosen = e.uid
                        /\ \A f \in events' : f.attempt = e.attempt => f = e
      BY DEF DecisionsOK, HasRow, NoRow
    <3>1. CASE e = new
      BY <1>0, <1>2, <1>8, <2>0, <2>1, <2>2, <2>3, <3>1 DEF HasRow
    <3>2. CASE e \in events
      <4>1. /\ HasRow(e.uid) /\ 1 <= e.at /\ e.at <= lastUse[e.uid]
            /\ attempt[e.attempt].chosen = e.uid /\ e.attempt \in Attempts /\ e.uid \in Uids
            /\ e.at \in Nat /\ \A f \in events : f.attempt = e.attempt => f = e
        BY <3>2 DEF ReuseIInv, ReuseTypes, EventRows, DecisionsOK
      <4>2. lastUse[u] <= now /\ lastUse[u] \in Nat
        BY <1>0 DEF ReuseIInv, PairsOK
      <4>3. e.at <= lastUse'[e.uid]
        BY <1>0, <2>3, <4>1, <4>2
      <4> QED BY <1>0, <1>8, <2>0, <2>1, <2>2, <3>2, <4>1, <4>3 DEF HasRow
    <3> QED BY <1>8, <3>1, <3>2
  <2>7. ReusePolicyHolds'
    <3>1. \A e \in events : lastUse[e.uid] <= now
      BY DEF ReuseIInv, ReuseTypes, EventRows, PairsOK
    <3> QED BY <1>8, <2>0, <2>2, <3>1, PolicyAgain DEF ReuseIInv
  <2>8. ProfileOncePerProject'
    <3> SUFFICES ASSUME NEW b \in Attempts, NEW c \in Attempts, b # c, SurveyOf[b] = SurveyOf[c],
                        attempt'[b].chosen # 0
                 PROVE  attempt'[b].chosen \notin {attempt'[c].chosen, attempt'[c].uid}
      BY DEF ProfileOncePerProject
    <3>1. \A d \in Attempts \ {a} : SurveyOf[d] = SurveyOf[a] => u \notin {attempt[d].chosen, attempt[d].uid}
      BY <1>1, <1>8 DEF Unused, Of
    <3>2. attempt[b].chosen # 0 => attempt[b].chosen \notin {attempt[c].chosen, attempt[c].uid}
      BY DEF ReuseIInv, ProfileOncePerProject
    <3>3. CASE b = a
      BY <2>1, <3>1, <3>3
    <3>4. CASE c = a
      BY <2>1, <3>1, <3>2, <3>4
    <3>5. CASE b # a /\ c # a
      BY <2>1, <3>2, <3>5
    <3> QED BY <3>3, <3>4, <3>5
  <2>9. post'[p].pc = "mark"
    BY <1>0, <1>8
  <2>10. \A q \in Posts : PostOK(q)'
    <3>1. PostOK(p)'
      BY <1>0, <1>1, <1>5, <2>1, <2>9 DEF PostOK, SlotSteps, HasRow, At, PostFields, NoRow
    <3>2. Steady /\ now' \in Nat
      BY <1>0, <1>h, <2>1 DEF Steady
    <3> QED BY <1>4, <3>1, <3>2, OthersOK DEF ReuseIInv
  <2>11. p \notin Owing' /\ \A v \in Uids : p \notin Visiting(v)'
    BY <2>9 DEF Owing, Visiting, SlotSteps
  <2>12. Cardinality(events') + Cardinality(Owing') <= counter'.allocated + refunds'
    <3>1. /\ Cardinality(Owing) \in Nat /\ Cardinality(Owing') \in Nat
          /\ Cardinality(Owing') + In(p, Owing) = Cardinality(Owing) + In(p, Owing')
      BY <1>4, OwingMoves
    <3>2. Cardinality(events') = Cardinality(events) + 1 /\ Cardinality(events) \in Nat
      BY <1>8, <2>2, FS_AddElement, FS_CardinalityType DEF ReuseIInv, ReuseTypes
    <3>3. In(p, Owing) = 1 /\ In(p, Owing') = 0
      BY <1>6, <2>11 DEF In
    <3>4. Cardinality(events) + Cardinality(Owing) <= counter.allocated + refunds
      BY DEF ReuseIInv, CountsOK
    <3>5. counter.allocated \in Nat /\ refunds \in Nat /\ counter' = counter /\ refunds' = refunds
      BY <1>0 DEF CounterRows, ReuseTypes
    <3> QED BY <3>1, <3>2, <3>3, <3>4, <3>5
  <2>13. ASSUME NEW v \in Uids, HasRow(v)
         PROVE  vault'[v].usage >= 1 + Cardinality(ReusesOf(v)') + Cardinality(Visiting(v)')
    <3>1. vault'[v] = vault[v] /\ vault[v].usage \in Nat
      BY <1>0 DEF VaultRows
    <3>2. /\ Cardinality(Visiting(v)) \in Nat /\ Cardinality(Visiting(v)') \in Nat
          /\ Cardinality(Visiting(v)') + In(p, Visiting(v)) = Cardinality(Visiting(v)) + In(p, Visiting(v)')
      BY <1>4, VisitingMoves
    <3>3. In(p, Visiting(v)') = 0 /\ In(p, Visiting(v)) = IF v = u THEN 1 ELSE 0
      BY <1>0, <1>2, <2>11 DEF In, Visiting, At
    <3>4. /\ Cardinality(ReusesOf(v)) \in Nat
          /\ Cardinality(ReusesOf(v)') = Cardinality(ReusesOf(v)) + IF v = u THEN 1 ELSE 0
      <4>1. IsFiniteSet(ReusesOf(v)) /\ Cardinality(ReusesOf(v)) \in Nat
        BY <1>0, ReusesCount
      <4>2. CASE v = u
        <5>1. ReusesOf(v)' = ReusesOf(v) \cup {new} /\ new \notin ReusesOf(v)
          BY <1>8, <2>0, <2>2, <4>2 DEF ReusesOf
        <5> QED BY <4>1, <4>2, <5>1, FS_AddElement
      <4>3. CASE v # u
        <5>1. ReusesOf(v)' = ReusesOf(v)
          BY <1>8, <2>0, <4>3 DEF ReusesOf
        <5> QED BY <4>1, <4>3, <5>1
      <4> QED BY <4>2, <4>3
    <3>5. vault[v].usage >= 1 + Cardinality(ReusesOf(v)) + Cardinality(Visiting(v))
      BY <2>13 DEF ReuseIInv, CountsOK
    <3> QED BY <3>1, <3>2, <3>3, <3>4, <3>5
  <2>14. CountsOK'
    BY <1>h, <2>12, <2>13 DEF CountsOK
  <2>15. TargetOK'
    BY <1>0 DEF TargetOK, Target
  <2> QED BY <2>4, <2>5, <2>6, <2>7, <2>8, <2>10, <2>14, <2>15 DEF ReuseIInv
<1>9. \/ UNCHANGED <<attempt, events, lastUse>> /\ post' = [post EXCEPT ![p].pc = "undo"]
      \/ /\ Undecided(a) /\ Rested(u) /\ Unused(p, u) /\ BelowLimit(u) /\ post[p].own # 0
         /\ attempt' = [attempt EXCEPT ![a].chosen = u] /\ events' = events \cup {new}
         /\ lastUse' = [lastUse EXCEPT ![u] = now] /\ post' = [post EXCEPT ![p].pc = "mark"]
  BY <1>1, <1>2 DEF CommitReuse, Chosen, Goes, Of
<1> QED BY <1>7, <1>8, <1>9
-----------------------------------------------------------------------------
LEMMA InitReuse == ReuseInit => ReuseIInv
<1> SUFFICES ASSUME ReuseInit PROVE ReuseIInv
  OBVIOUS
<1> DEFINE Owner(u) == CHOOSE b \in Registered : UidOf[b] = u
<1>1. PICK profile \in [Registered -> Answers] :
        /\ vault = [u \in Uids |->
             IF \E a \in Registered : UidOf[a] = u
               THEN [rid |-> Owner(u), answers |-> profile[Owner(u)], usage |-> 1, last |-> 0,
                     submitted |-> 0]
               ELSE NoRow]
        /\ attempt = [a \in Attempts |->
             [uid |-> IF a \in Legacy THEN 0 ELSE UidOf[a], chosen |-> 0,
              sent |-> IF a \in Registered THEN [uid |-> UidOf[a], answers |-> profile[a]]
                                           ELSE NotSent]]
  BY Zenon DEF ReuseInit
<1>2. /\ now = 1 /\ traffic = 0 /\ events = {} /\ lastUse = [u \in Uids |-> 0]
      /\ post = [p \in Posts |-> Free] /\ faults = 0 /\ refunds = 0
      /\ counter = [exists |-> FALSE, baseline |-> 0, target |-> 0, allocated |-> 0,
                    first |-> 0, returning |-> 0]
  BY DEF ReuseInit
<1>3. \A u \in Uids : (\E a \in Registered : UidOf[a] = u) =>
        Owner(u) \in Registered /\ UidOf[Owner(u)] = u
  OBVIOUS
<1> HIDE DEF Owner
<1>4. /\ Registered \subseteq Attempts /\ Registered \cap Legacy = {} /\ UidOf \in [Attempts -> Uids]
      /\ \A a, b \in Attempts : UidOf[a] = UidOf[b] => a = b
  BY ProfileReuseAssumption
<1>5. \A u \in Uids : /\ vault[u] \in VaultRows /\ vault[u].last = 0
                      /\ vault[u].answers # {} =>
                           /\ vault[u].rid \in Registered /\ UidOf[vault[u].rid] = u
                           /\ vault[u].usage = 1
                      /\ vault[u] # NoRow => vault[u].answers # {}
  <2> SUFFICES ASSUME NEW u \in Uids
               PROVE  /\ vault[u] \in VaultRows /\ vault[u].last = 0
                      /\ vault[u].answers # {} =>
                           /\ vault[u].rid \in Registered /\ UidOf[vault[u].rid] = u
                           /\ vault[u].usage = 1
                      /\ vault[u] # NoRow => vault[u].answers # {}
    OBVIOUS
  <2>1. CASE \E a \in Registered : UidOf[a] = u
    <3>1. vault[u] = [rid |-> Owner(u), answers |-> profile[Owner(u)], usage |-> 1, last |-> 0,
                      submitted |-> 0]
      BY <1>1, <2>1
    <3>2. Owner(u) \in Registered /\ UidOf[Owner(u)] = u /\ profile[Owner(u)] \in Answers
      BY <1>3, <2>1
    <3> QED BY <1>4, <3>1, <3>2, ReuseBounds DEF VaultRows
  <2>2. CASE ~ \E a \in Registered : UidOf[a] = u
    <3>1. vault[u] = NoRow
      BY <1>1, <2>2
    <3> QED BY <3>1 DEF NoRow, VaultRows
  <2> QED BY <2>1, <2>2
<1>6. \A a \in Attempts : /\ attempt[a] \in AttemptRows /\ attempt[a].chosen = 0
                          /\ attempt[a].uid = IF a \in Legacy THEN 0 ELSE UidOf[a]
  <2> SUFFICES ASSUME NEW a \in Attempts
               PROVE  /\ attempt[a] \in AttemptRows /\ attempt[a].chosen = 0
                      /\ attempt[a].uid = IF a \in Legacy THEN 0 ELSE UidOf[a]
    OBVIOUS
  <2> DEFINE s == IF a \in Registered THEN [uid |-> UidOf[a], answers |-> profile[a]] ELSE NotSent
             w == IF a \in Legacy THEN 0 ELSE UidOf[a]
  <2>1. s \in [uid : Uids \cup {0}, answers : Answers \cup {{}}]
    BY <1>4 DEF NotSent
  <2>2. w \in Uids \cup {0}
    BY <1>4
  <2>3. attempt[a] = [uid |-> w, chosen |-> 0, sent |-> s]
    BY <1>1
  <2> HIDE DEF s
  <2> QED BY <2>1, <2>2, <2>3 DEF AttemptRows
<1>7. vault \in [Uids -> VaultRows] /\ attempt \in [Attempts -> AttemptRows]
  BY <1>1, <1>5, <1>6
<1>8. Free \in PostRows /\ Free.pc = "free" /\ ~ Free.slot /\ Free.prev = 0 /\ Free.held = {}
  BY DEF Free, PostRows, PostSteps
<1>9. ReuseTypes
  <2>1. 1 \in 1 .. MaxNow /\ 0 \in 0 .. MaxTraffic /\ 0 \in 0 .. MaxFaults
    BY <1>2, ReuseBounds, ProfileReuseAssumption
  <2>2. post \in [Posts -> PostRows] /\ lastUse \in [Uids -> Nat]
    BY <1>2, <1>8
  <2>3. counter \in CounterRows
    BY <1>2 DEF CounterRows
  <2>4. events \subseteq EventRows /\ IsFiniteSet(events)
    BY <1>2, FS_EmptySet
  <2> QED BY <1>2, <1>7, <2>1, <2>2, <2>3, <2>4 DEF ReuseTypes
<1>10. PairsOK
  <2>1. \A u \in Uids : vault[u].last <= now /\ lastUse[u] <= now
    BY <1>2, <1>5
  <2>2. \A u \in Uids : HasRow(u) => /\ vault[u].rid \in Attempts /\ vault[u].answers # {}
                                     /\ attempt[vault[u].rid].uid = u
    BY <1>4, <1>5, <1>6 DEF HasRow
  <2>3. \A a, b \in Attempts : a # b /\ attempt[a].uid # 0 => attempt[a].uid # attempt[b].uid
    BY <1>4, <1>6
  <2> QED BY <1>6, <2>1, <2>2, <2>3 DEF PairsOK
<1>11. DecisionsOK /\ ProfileOncePerProject /\ ReusePolicyHolds /\ TargetOK
  BY <1>2, <1>6 DEF DecisionsOK, ProfileOncePerProject, ReusePolicyHolds, TargetOK
<1>12. \A p \in Posts : PostOK(p)
  <2>1. \A p \in Posts : post[p] = Free
    BY <1>2
  <2>2. now = 1
    BY <1>2
  <2> QED BY <1>8, <2>1, <2>2 DEF PostOK, SlotSteps
<1>13. CountsOK
  <2>1. Owing = {} /\ \A u \in Uids : Visiting(u) = {} /\ ReusesOf(u) = {}
    BY <1>2, <1>8 DEF Owing, Visiting, ReusesOf, SlotSteps
  <2>2. \A u \in Uids : HasRow(u) => vault[u].usage = 1
    BY <1>5 DEF HasRow
  <2> QED BY <1>2, <2>1, <2>2, FS_EmptySet DEF CountsOK
<1> QED BY <1>9, <1>10, <1>11, <1>12, <1>13 DEF ReuseIInv

LEMMA ReuseStep == ReuseIInv /\ [ReuseNext]_reuseVars => ReuseIInv'
<1> SUFFICES ASSUME ReuseIInv, [ReuseNext]_reuseVars PROVE ReuseIInv'
  OBVIOUS
<1>1. CASE Tick \/ Arrive \/ UNCHANGED reuseVars
  BY <1>1, ElsewhereStep
<1>2. ASSUME NEW p \in Posts, Submit(p) \/ Decide(p) \/ ReadBaseline(p) \/ ClaimMonthSlot(p)
      PROVE  ReuseIInv'
  BY <1>2, SubmitStep, DecideStep, ReadBaselineStep, ClaimStep
<1>3. ASSUME NEW p \in Posts,
             ScanVault(p) \/ PickProfile(p) \/ CommitReuse(p) \/ UndoReservation(p)
               \/ MarkPool(p) \/ ReleaseMonthSlot(p)
      PROVE  ReuseIInv'
  BY <1>3, ScanStep, PickStep, CommitStep, UndoStep, MarkStep, ReleaseStep
<1>4. ASSUME NEW p \in Posts,
             EnsureUid(p) \/ Persist(p) \/ Redirect(p) \/ DatabaseFails(p) \/ WorkerKilled(p)
      PROVE  ReuseIInv'
  BY <1>4, EnsureStep, PersistStep, RedirectStep, FailStep, KillStep
<1> QED BY <1>1, <1>2, <1>3, <1>4 DEF ReuseNext

LEMMA ReuseHolds == ReuseIInv => ReusesAllowed /\ CountsCoverReuses /\ VaultSound
<1> SUFFICES ASSUME ReuseIInv PROVE ReusesAllowed /\ CountsCoverReuses /\ VaultSound
  OBVIOUS
<1>1. BudgetCoversReuses
  <2>1. {p \in Posts : post[p].slot /\ post[p].pc \notin {"mark", "raise"}} \subseteq Owing
    BY DEF Owing, ReuseIInv, PostOK
  <2>2. IsFiniteSet(Owing) /\ Cardinality(Owing) \in Nat
    <3>1. Owing \subseteq Posts
      BY DEF Owing
    <3> QED BY <3>1, ReuseBounds, FS_Subset, FS_CardinalityType
  <2>3. Cardinality({p \in Posts : post[p].slot /\ post[p].pc \notin {"mark", "raise"}}) <= Cardinality(Owing)
        /\ Cardinality({p \in Posts : post[p].slot /\ post[p].pc \notin {"mark", "raise"}}) \in Nat
    BY <2>1, <2>2, FS_Subset, FS_CardinalityType
  <2>4. /\ Cardinality(events) \in Nat /\ counter.allocated + refunds \in Nat
        /\ Cardinality(events) + Cardinality(Owing) <= counter.allocated + refunds
        /\ counter.allocated <= counter.target
    BY FS_CardinalityType DEF ReuseIInv, ReuseTypes, CounterRows, CountsOK, TargetOK
  <2> HIDE DEF Owing
  <2> QED BY <2>2, <2>3, <2>4 DEF BudgetCoversReuses
<1>2. VisitsCoverReuses
  <2> SUFFICES ASSUME NEW u \in Uids, vault[u] # NoRow
               PROVE  vault[u].usage >= 1 + Cardinality({e \in events : e.uid = u})
    BY DEF VisitsCoverReuses
  <2>1. vault[u].usage >= 1 + Cardinality(ReusesOf(u)) + Cardinality(Visiting(u))
    BY DEF ReuseIInv, CountsOK, HasRow
  <2>2. Visiting(u) \subseteq Posts
    BY DEF Visiting
  <2>3. /\ Cardinality(Visiting(u)) \in Nat /\ Cardinality(ReusesOf(u)) \in Nat
        /\ vault[u].usage \in Nat
    BY <2>2, ReuseBounds, FS_Subset, FS_CardinalityType, ReusesCount DEF ReuseIInv, ReuseTypes, VaultRows
  <2> QED BY <2>1, <2>3 DEF ReusesOf
<1>3. ReuseTypeOK
  <2>1. /\ now \in 1 .. MaxNow /\ traffic \in 0 .. MaxTraffic /\ now \in Nat
        /\ faults \in 0 .. MaxFaults /\ refunds \in Nat
    BY ReuseBounds DEF ReuseIInv, ReuseTypes
  <2>2. \A u \in Uids : /\ vault[u].rid \in Attempts \cup {Nobody}
                        /\ vault[u].usage \in Nat /\ vault[u].last \in 0 .. now
    BY <2>1 DEF ReuseIInv, ReuseTypes, VaultRows, PairsOK
  <2>3. \A a \in Attempts : {attempt[a].uid, attempt[a].chosen} \subseteq Uids \cup {0}
    BY DEF ReuseIInv, ReuseTypes, AttemptRows
  <2>4. {counter.baseline, counter.target, counter.allocated} \subseteq Nat
    BY DEF ReuseIInv, ReuseTypes, CounterRows
  <2>5. \A e \in events : e.attempt \in Attempts /\ e.uid \in Uids /\ e.at \in 1 .. now
    <3> SUFFICES ASSUME NEW e \in events
                 PROVE  e.attempt \in Attempts /\ e.uid \in Uids /\ e.at \in 1 .. now
      OBVIOUS
    <3>1. e.attempt \in Attempts /\ e.uid \in Uids /\ e.at \in Nat
      BY DEF ReuseIInv, ReuseTypes, EventRows
    <3>2. 1 <= e.at /\ e.at <= lastUse[e.uid] /\ lastUse[e.uid] <= now /\ lastUse[e.uid] \in Nat
      BY <3>1 DEF ReuseIInv, DecisionsOK, PairsOK, ReuseTypes
    <3> QED BY <2>1, <3>1, <3>2
  <2>6. lastUse \in [Uids -> 0 .. now]
    <3>1. \A u \in Uids : lastUse[u] \in 0 .. now
      BY <2>1 DEF ReuseIInv, PairsOK, ReuseTypes
    <3> QED BY <3>1 DEF ReuseIInv, ReuseTypes
  <2>7. \A p \in Posts : post[p].of \in Attempts \cup {Nobody}
    BY RowOf DEF ReuseIInv
  <2> QED BY <2>1, <2>2, <2>3, <2>4, <2>5, <2>6, <2>7 DEF ReuseTypeOK
<1>4. VaultPairsStand
  <2> SUFFICES ASSUME NEW u \in Uids, NEW v \in Uids, vault[u] # NoRow
               PROVE  /\ attempt[vault[u].rid].uid = u
                      /\ u # v /\ vault[v] # NoRow => vault[u].rid # vault[v].rid
    BY Zenon DEF VaultPairsStand
  <2> QED BY DEF ReuseIInv, PairsOK, HasRow
<1>5. OneDecisionPerAttempt
  BY DEF ReuseIInv, DecisionsOK, OneDecisionPerAttempt
<1> QED BY <1>1, <1>2, <1>3, <1>4, <1>5 DEF ReuseIInv, ReusesAllowed, CountsCoverReuses, VaultSound

(****************************************************************************)
(* maybe_assign_reusable_profile, for any number of requests, profiles and  *)
(* attempts and any limits: a reuse that commits was allowed, whatever the  *)
(* vault scan saw.                                                          *)
(****************************************************************************)
THEOREM ReuseCorrect == ReuseSpec => []ReusesAllowed
<1>1. ReuseIInv => ReusesAllowed
  BY ReuseHolds
<1> QED BY <1>1, InitReuse, ReuseStep, PTL DEF ReuseSpec

(****************************************************************************)
(* Every use of a profile is in its usage count and every reuse of the      *)
(* month in what the counter has allocated, whoever fails half-way.         *)
(****************************************************************************)
THEOREM CountsCorrect == ReuseSpec => []CountsCoverReuses
<1>1. ReuseIInv => CountsCoverReuses
  BY ReuseHolds
<1> QED BY <1>1, InitReuse, ReuseStep, PTL DEF ReuseSpec

(****************************************************************************)
(* ensure_vault_entry and the reuse: a vault row stays with the attempt it  *)
(* was made for, and an attempt is sent one profile at most.                *)
(****************************************************************************)
THEOREM VaultCorrect == ReuseSpec => []VaultSound
<1>1. ReuseIInv => VaultSound
  BY ReuseHolds
<1> QED BY <1>1, InitReuse, ReuseStep, PTL DEF ReuseSpec

-----------------------------------------------------------------------------
(* Both, in the composition that the runs check *)

LEMMA EntryStep == ReuseIInv /\ IInv /\ [EntryNext]_<<focus, reuseVars, innovateVars>> => (ReuseIInv /\ IInv)'
<1> SUFFICES ASSUME ReuseIInv, IInv, [EntryNext]_<<focus, reuseVars, innovateVars>>
             PROVE  ReuseIInv' /\ IInv'
  OBVIOUS
<1>1. [ReuseNext]_reuseVars /\ [InnovateNext]_innovateVars
  <2>1. ReuseNext \/ UNCHANGED reuseVars
    BY DEF EntryNext
  <2>2. InnovateNext \/ UNCHANGED innovateVars
    BY DEF EntryNext
  <2> QED BY <2>1, <2>2
<1> QED BY <1>1, ReuseStep, StepOK

(****************************************************************************)
(* Whichever of the two a behaviour of the instance moves: the theorems     *)
(* above hold of its initial states and of all its steps.                   *)
(****************************************************************************)
THEOREM EntryCorrect ==
  EntrySpec => [](InnovateInv /\ ReusesAllowed /\ CountsCoverReuses /\ VaultSound)
<1>1. EntryInit => ReuseIInv /\ IInv
  BY InitReuse, InitOK DEF EntryInit
<1>2. ReuseIInv /\ IInv => InnovateInv /\ ReusesAllowed /\ CountsCoverReuses /\ VaultSound
  BY ReuseHolds, Trusted
<1> QED BY <1>1, <1>2, EntryStep, PTL DEF EntrySpec
=============================================================================
