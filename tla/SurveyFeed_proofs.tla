--------------------------- MODULE SurveyFeed_proofs ---------------------------
(****************************************************************************)
(* SurveyFeed for every adapter and any number of surveys, markets and      *)
(* workers: what the rows and details of the installed adapters promise.    *)
(* The compositions MCJobs and MCInventory both contain it.                 *)
(****************************************************************************)
EXTENDS SurveyFeed, FiniteSetTheorems, TLAPS

\* The provider gave p for survey s at some time: stamps only grow, and what is
\* closed or filled stays so.
Given(s, p) ==
  /\ p.stamp =< offer[s].stamp
  /\ p.left = 0 => offer[s].left = 0
  /\ ~p.open => ~offer[s].open

Present(s) == listing[s].status # "absent"
StampsOK == \A s \in Surveys : offer[s].stamp =< revisions

\* A row shows what the provider gave, and has details only if it was found.
RowOK(s) ==
  /\ Present(s) => Given(s, listing[s].raw)
  /\ ~Present(s) => ~listing[s].synced /\ listing[s].raw.stamp = 0
  /\ s \in batch => Present(s)

\* What a poll has of a survey: not found means withdrawn, or not asked.
PollOK(s) ==
  poll.pc = "calling" =>
    /\ s \in poll.found => Given(s, poll.seen[s])
    /\ s \in poll.found \/ MarketOf[s] \in poll.todo \cup poll.failed \/ ~offer[s].open
    /\ MarketOf[s] \in poll.failed => adapter = "unimarket" /\ feedFaults > 0

\* A refresh works on a row that was found, and its questions are not older than
\* the row it read, nor, at Zamplia, than the survey it was given.
RefreshOK(w) ==
  LET r == detailWork[w] IN
  r.pc # "idle" =>
    /\ r.survey \in Surveys /\ Present(r.survey) /\ Given(r.survey, r.read)
    /\ r.pc = "survey" => adapter = "zamplia"
    /\ adapter = "zamplia" /\ r.pc # "survey" =>
         /\ r.detail.stamp =< offer[r.survey].stamp
         /\ ~r.detail.open => ~offer[r.survey].open
    /\ r.pc \in {"quotas", "persist"} =>
         /\ r.asked >= r.read.stamp
         /\ adapter = "zamplia" => r.asked >= r.detail.stamp
    /\ r.pc = "persist" =>
         /\ adapter \in {"zamplia", "track"} /\ r.left = 0 => offer[r.survey].left = 0
         /\ adapter = "acuity" => r.left = r.read.left

ReadFilled(w, s) ==
  detailWork[w].pc # "idle" /\ detailWork[w].survey = s /\ detailWork[w].read.left = 0

\* Acuity: a count that reached zero was zero at every poll since.
FilledOK(s) ==
  adapter = "acuity" =>
    /\ listing[s].synced /\ details[s].left = 0 => offer[s].left = 0
    /\ poll.pc = "calling" /\ s \in poll.found =>
         /\ Present(s) /\ listing[s].raw.left = 0 => poll.seen[s].left = 0
         /\ listing[s].synced /\ details[s].left = 0 => poll.seen[s].left = 0
         /\ \A w \in DetailWorkers : ReadFilled(w, s) => poll.seen[s].left = 0

FeedIInv ==
  /\ FeedTypeOK /\ StampsOK
  /\ \A s \in Surveys : RowOK(s) /\ PollOK(s) /\ FilledOK(s)
  /\ \A w \in DetailWorkers : RefreshOK(w)
  /\ FreshDetailsCurrent /\ ClosedIsOver /\ FilledIsRefused

LEMMA FeedBounds ==
  /\ MaxRevisions \in Nat /\ MaxFeedFaults \in Nat /\ Target \in Nat /\ Surveys \subseteq Nat
  /\ MarketOf \in [Surveys -> Markets]
  /\ Adapters \subseteq {"zamplia", "unimarket", "track", "acuity", "rfg"}
<1> QED
  BY FeedAssumption DEF Target

LEMMA StampBounds ==
  /\ \A n \in Revision : n \in Nat
  /\ 0 \in Revision /\ 0 \in Left /\ Target \in Left
  /\ \A n \in 0 .. MaxRevisions : n < MaxRevisions => n + 1 \in Revision /\ n + 1 > n
  /\ \A n \in 0 .. MaxFeedFaults : n \in Nat /\ (n < MaxFeedFaults => n + 1 \in 0 .. MaxFeedFaults)
<1> QED
  BY FeedBounds DEF Revision, Left, Target

LEMMA FeedBegins == FeedInit => FeedIInv
<1> SUFFICES ASSUME FeedInit PROVE FeedIInv
  OBVIOUS
<1>1. NoPayload \in FeedPayload /\ NoPayload.stamp = 0
  BY StampBounds DEF NoPayload, FeedPayload
<1>2. FeedTypeOK
  <2>1. offer \in [Surveys -> FeedPayload]
    BY StampBounds DEF FeedInit, FeedPayload
  <2>2. listing \in [Surveys -> FeedRow]
    BY StampBounds, <1>1 DEF FeedInit, FeedRow
  <2>3. details \in [Surveys -> [asked : Revision, left : Left]]
    BY StampBounds DEF FeedInit
  <2>4. poll.pc \in {"idle"} /\ poll \in [pc : {"idle", "calling"}, todo : SUBSET Markets,
               failed : SUBSET Markets, found : SUBSET Surveys, seen : [Surveys -> FeedPayload]]
    BY <1>1 DEF FeedInit, NoPoll
  <2>5. NoRefresh \in [pc : {"idle", "survey", "questions", "quotas", "persist"},
                     survey : Surveys \cup {0}, read : FeedPayload,
                     capacity : Left, detail : FeedPayload, asked : Revision, left : Left]
    BY <1>1, StampBounds DEF NoRefresh
  <2>6. revisions \in 0 .. MaxRevisions /\ feedFaults \in 0 .. MaxFeedFaults
    BY FeedBounds DEF FeedInit
  <2>7. adapter \in Adapters /\ batch \subseteq Surveys /\ overtaken \subseteq Surveys
    BY DEF FeedInit
  <2> QED
    BY <2>1, <2>2, <2>3, <2>4, <2>5, <2>6, <2>7 DEF FeedTypeOK, FeedInit
<1>3. \A s \in Surveys : /\ listing[s].status = "absent" /\ ~listing[s].synced
                         /\ listing[s].raw = NoPayload /\ s \notin batch /\ offer[s].stamp = 0
  BY DEF FeedInit
<1>4. poll.pc = "idle" /\ \A w \in DetailWorkers : detailWork[w].pc = "idle"
  BY DEF FeedInit, NoPoll, NoRefresh
<1>5. StampsOK
  BY <1>3, StampBounds DEF StampsOK, FeedInit
<1>6. \A s \in Surveys : RowOK(s) /\ PollOK(s) /\ FilledOK(s)
  BY <1>1, <1>3, <1>4 DEF RowOK, PollOK, FilledOK, Present
<1>7. \A w \in DetailWorkers : RefreshOK(w)
  BY <1>4 DEF RefreshOK
<1>8. FreshDetailsCurrent /\ ClosedIsOver /\ FilledIsRefused
  BY <1>3 DEF FreshDetailsCurrent, ClosedIsOver, FilledIsRefused
<1> QED
  BY <1>2, <1>5, <1>6, <1>7, <1>8 DEF FeedIInv

\* What is known of a payload the provider gave stays so.
LEMMA ProviderMoves ==
  ASSUME FeedIInv, NEW z \in Surveys, Revise(z) \/ Exhaust(z)
  PROVE  FeedIInv'
<1> USE DEF FeedIInv
<1>1. /\ UNCHANGED <<adapter, listing, details, poll, batch, detailWork, overtaken, feedFaults>>
      /\ revisions < MaxRevisions /\ revisions' = revisions + 1
      /\ revisions \in 0 .. MaxRevisions /\ revisions \in Nat
  BY StampBounds DEF Revise, Exhaust, FeedTypeOK, Revision
<1>2. PICK x \in FeedPayload :
        /\ offer' = [offer EXCEPT ![z] = x]
        /\ x.stamp \in {offer[z].stamp, revisions + 1} /\ x.left \in {offer[z].left, 0}
        /\ ~offer[z].open => ~x.open
  <2>1. offer[z] \in FeedPayload /\ revisions + 1 \in Revision /\ 0 \in Left
    BY <1>1, StampBounds DEF FeedTypeOK
  <2>2. CASE Revise(z)
    <3> DEFINE x == [offer[z] EXCEPT !.stamp = revisions + 1]
    <3>1. x \in FeedPayload /\ x.stamp = revisions + 1 /\ x.left = offer[z].left
          /\ x.open = offer[z].open
      BY <2>1 DEF FeedPayload
    <3>2. offer' = [offer EXCEPT ![z] = x]
      BY <2>2 DEF Revise
    <3> HIDE DEF x
    <3> QED
      BY <3>1, <3>2
  <2>3. CASE offer' = [offer EXCEPT ![z].left = 0]
    <3> DEFINE x == [offer[z] EXCEPT !.left = 0]
    <3>1. x \in FeedPayload /\ x.stamp = offer[z].stamp /\ x.left = 0
          /\ x.open = offer[z].open
      BY <2>1 DEF FeedPayload
    <3>2. offer' = [offer EXCEPT ![z] = x]
      BY <2>3
    <3> HIDE DEF x
    <3> QED
      BY <3>1, <3>2
  <2>4. CASE offer' = [offer EXCEPT ![z].open = FALSE]
    <3> DEFINE x == [offer[z] EXCEPT !.open = FALSE]
    <3>1. x \in FeedPayload /\ x.stamp = offer[z].stamp /\ x.left = offer[z].left
          /\ x.open = FALSE
      BY <2>1 DEF FeedPayload
    <3>2. offer' = [offer EXCEPT ![z] = x]
      BY <2>4
    <3> HIDE DEF x
    <3> QED
      BY <3>1, <3>2
  <2> QED
    BY <2>2, <2>3, <2>4 DEF Exhaust
<1>3. /\ offer' \in [Surveys -> FeedPayload] /\ offer'[z] = x
      /\ \A s \in Surveys : s # z => offer'[s] = offer[s]
  BY <1>2 DEF FeedTypeOK
<1>4. \A s \in Surveys : /\ offer[s].stamp \in Nat /\ offer'[s].stamp \in Nat
                         /\ offer[s].stamp =< offer'[s].stamp
                         /\ offer'[s].stamp =< revisions + 1
                         /\ offer[s].left = 0 => offer'[s].left = 0
                         /\ ~offer[s].open => ~offer'[s].open
  <2>1. \A s \in Surveys : offer[s].stamp \in Nat /\ offer'[s].stamp \in Nat
                           /\ offer[s].stamp =< revisions
    BY <1>3, StampBounds DEF FeedTypeOK, FeedPayload, StampsOK
  <2> SUFFICES ASSUME NEW s \in Surveys
               PROVE  /\ offer[s].stamp =< offer'[s].stamp
                      /\ offer'[s].stamp =< revisions + 1
                      /\ offer[s].left = 0 => offer'[s].left = 0
                      /\ ~offer[s].open => ~offer'[s].open
    BY <2>1
  <2>2. CASE s = z
    <3>1. offer'[s] = x
      BY <1>3, <2>2
    <3>2. /\ offer[s].stamp =< x.stamp /\ x.stamp =< revisions + 1
          /\ offer[s].left = 0 => x.left = 0
      BY <1>1, <1>2, <2>1, <2>2
    <3> QED
      BY <1>2, <2>2, <3>1, <3>2, Zenon
  <2>3. CASE s # z
    <3>1. offer'[s] = offer[s]
      BY <1>3, <2>3
    <3>2. offer[s].stamp =< offer[s].stamp /\ offer[s].stamp =< revisions + 1
      BY <1>1, <2>1
    <3> QED
      BY <3>1, <3>2, Zenon
  <2> QED
    BY <2>2, <2>3
<1>5. ASSUME NEW s \in Surveys, NEW p \in FeedPayload, Given(s, p)
      PROVE  /\ p.stamp =< offer'[s].stamp
             /\ p.left = 0 => offer'[s].left = 0
             /\ ~p.open => ~offer'[s].open
  <2>1. p.stamp \in Nat
    BY StampBounds DEF FeedPayload
  <2> QED
    BY <1>4, <1>5, <2>1 DEF Given
<1>6. FeedTypeOK'
  <2>1. (revisions + 1) \in 0 .. MaxRevisions
    BY <1>1, StampBounds DEF Revision
  <2> QED
    BY <1>1, <1>3, <2>1 DEF FeedTypeOK
<1>7. StampsOK'
  BY <1>1, <1>4 DEF StampsOK
<1>8. ASSUME NEW s \in Surveys PROVE RowOK(s)'
  <2>1. listing[s].raw \in FeedPayload
    BY DEF FeedTypeOK, FeedRow
  <2> QED
    BY <1>1, <1>5, <2>1 DEF RowOK, Present, Given
<1>9. ASSUME NEW s \in Surveys PROVE PollOK(s)'
  <2>1. poll.seen[s] \in FeedPayload
    BY DEF FeedTypeOK
  <2> QED
    BY <1>1, <1>4, <1>5, <2>1 DEF PollOK, Given
<1>10. ASSUME NEW s \in Surveys PROVE FilledOK(s)'
  BY <1>1, <1>4 DEF FilledOK, Present, ReadFilled
<1>11. ASSUME NEW w \in DetailWorkers PROVE RefreshOK(w)'
  <2> DEFINE r == detailWork[w]
  <2>1. r.read \in FeedPayload /\ r.detail.stamp \in Nat
    BY StampBounds DEF FeedTypeOK, FeedPayload
  <2>2. ASSUME r.pc # "idle" PROVE r.survey \in Surveys /\ Given(r.survey, r.read)
    BY <2>2 DEF RefreshOK
  <2>3. ASSUME r.pc # "idle"
        PROVE /\ r.detail.stamp =< offer[r.survey].stamp => r.detail.stamp =< offer'[r.survey].stamp
              /\ offer[r.survey].left = 0 => offer'[r.survey].left = 0
              /\ ~offer[r.survey].open => ~offer'[r.survey].open
    BY <1>4, <2>1, <2>2, <2>3
  <2>4. RefreshOK(w) /\ detailWork' = detailWork /\ adapter' = adapter /\ listing' = listing
    BY <1>1
  <2> HIDE DEF FeedIInv
  <2> QED
    BY <1>5, <2>1, <2>2, <2>3, <2>4 DEF RefreshOK, Given, Present
<1>12. FreshDetailsCurrent' /\ ClosedIsOver' /\ FilledIsRefused'
  BY <1>1, <1>4 DEF FreshDetailsCurrent, ClosedIsOver, FilledIsRefused
<1> QED
  BY <1>6, <1>7, <1>8, <1>9, <1>10, <1>11, <1>12

\* The rows, their details and the refreshes are left alone by the calls of a poll.
LEMMA PollMoves ==
  ASSUME FeedIInv, UNCHANGED <<adapter, offer, listing, details, batch, detailWork, overtaken,
                               revisions>>,
         feedFaults' \in 0 .. MaxFeedFaults, feedFaults' >= feedFaults,
         poll' \in [pc : {"idle", "calling"}, todo : SUBSET Markets, failed : SUBSET Markets,
                    found : SUBSET Surveys, seen : [Surveys -> FeedPayload]],
         \A s \in Surveys : PollOK(s)', \A s \in Surveys : FilledOK(s)'
  PROVE  FeedIInv'
<1> USE DEF FeedIInv
<1>1. FeedTypeOK'
  BY DEF FeedTypeOK
<1>2. StampsOK' /\ \A s \in Surveys : RowOK(s)'
  BY DEF StampsOK, RowOK, Present, Given
<1>3. \A w \in DetailWorkers : RefreshOK(w)'
  BY DEF RefreshOK, Given, Present
<1>4. FreshDetailsCurrent' /\ FilledIsRefused'
  BY DEF FreshDetailsCurrent, FilledIsRefused
<1>5. ClosedIsOver'
  <2>1. feedFaults \in Nat /\ feedFaults' \in Nat
    BY StampBounds DEF FeedTypeOK
  <2> QED
    BY <2>1 DEF ClosedIsOver
<1> QED
  BY <1>1, <1>2, <1>3, <1>4, <1>5

LEMMA PollStarts ==
  ASSUME FeedIInv, StartPoll \/ GiveUp
  PROVE  FeedIInv'
<1>1. /\ UNCHANGED <<adapter, offer, listing, details, batch, detailWork, overtaken, revisions,
                     feedFaults>>
      /\ feedFaults \in 0 .. MaxFeedFaults /\ feedFaults \in Nat
  BY StampBounds DEF FeedIInv, FeedTypeOK, StartPoll, GiveUp
<1>2. /\ poll' \in [pc : {"idle", "calling"}, todo : SUBSET Markets, failed : SUBSET Markets,
                    found : SUBSET Surveys, seen : [Surveys -> FeedPayload]]
      /\ poll'.found = {} /\ poll'.failed = {} /\ (poll'.pc = "calling" => poll'.todo = Markets)
  <2>1. NoPayload \in FeedPayload
    BY StampBounds DEF NoPayload, FeedPayload
  <2>2. CASE StartPoll
    <3>1. poll' = [pc |-> "calling", todo |-> Markets, failed |-> {}, found |-> {},
                   seen |-> [s \in Surveys |-> NoPayload]]
      BY <2>2 DEF StartPoll, NoPoll
    <3> QED
      BY <2>1, <3>1
  <2>3. CASE GiveUp
    BY <2>1, <2>3 DEF GiveUp, NoPoll
  <2> QED
    BY <2>2, <2>3
<1>3. \A s \in Surveys : PollOK(s)'
  BY <1>2, FeedBounds DEF PollOK
<1>4. \A s \in Surveys : FilledOK(s)'
  BY <1>1, <1>2 DEF FilledOK, FeedIInv
<1> QED
  BY <1>1, <1>2, <1>3, <1>4, PollMoves

\* An answer: what the call lists is as of now, and what it does not list is closed.
LEMMA CallAnswered ==
  ASSUME FeedIInv, NEW ms \in SUBSET Markets, AnswerCall(ms)
  PROVE  FeedIInv'
<1> DEFINE asked == {s \in Surveys : MarketOf[s] \in ms}
           live == {s \in asked : offer[s].open}
<1>1. /\ UNCHANGED <<adapter, offer, listing, details, batch, detailWork, overtaken, revisions,
                     feedFaults>>
      /\ feedFaults \in 0 .. MaxFeedFaults /\ feedFaults \in Nat
      /\ poll.pc = "calling" /\ ms \subseteq poll.todo
  BY StampBounds DEF FeedIInv, FeedTypeOK, AnswerCall
<1>2. PICK now \in SUBSET asked :
        /\ live \subseteq now
        /\ poll' = [poll EXCEPT
                      !.todo = @ \ ms,
                      !.found = @ \cup now,
                      !.seen = [s \in Surveys |-> IF s \in now THEN offer[s] ELSE @[s]]]
  BY DEF AnswerCall
<1> HIDE DEF live
<1>3. poll \in [pc : {"idle", "calling"}, todo : SUBSET Markets, failed : SUBSET Markets,
                found : SUBSET Surveys, seen : [Surveys -> FeedPayload]]
      /\ offer \in [Surveys -> FeedPayload]
  BY DEF FeedIInv, FeedTypeOK
<1>4. poll' = [pc |-> "calling", todo |-> poll.todo \ ms, failed |-> poll.failed,
               found |-> poll.found \cup now,
               seen |-> [s \in Surveys |-> IF s \in now THEN offer[s] ELSE poll.seen[s]]]
  BY <1>1, <1>2, <1>3
<1>5. poll' \in [pc : {"idle", "calling"}, todo : SUBSET Markets, failed : SUBSET Markets,
                 found : SUBSET Surveys, seen : [Surveys -> FeedPayload]]
  BY <1>3, <1>4
<1>6. ASSUME NEW s \in Surveys
      PROVE  Given(s, offer[s]) /\ PollOK(s) /\ FilledOK(s) /\ RowOK(s)
             /\ (s \in now => poll'.seen[s] = offer[s])
             /\ (s \notin now => poll'.seen[s] = poll.seen[s])
  <2>1. offer[s].stamp \in Nat
    BY <1>3, StampBounds DEF FeedPayload
  <2> QED
    BY <1>4, <2>1 DEF FeedIInv, Given
<1>7. ASSUME NEW s \in Surveys PROVE PollOK(s)'
  <2>1. MarketOf[s] \in ms => s \in now \/ ~offer[s].open
    BY <1>2 DEF live
  <2> QED
    BY <1>1, <1>4, <1>6, <2>1 DEF PollOK, Given
<1>8. ASSUME NEW s \in Surveys PROVE FilledOK(s)'
  <2>1. ASSUME s \in now
        PROVE  /\ Present(s) /\ listing[s].raw.left = 0 => offer[s].left = 0
               /\ \A w \in DetailWorkers : ReadFilled(w, s) => offer[s].left = 0
    BY <1>6 DEF FeedIInv, RowOK, Given, RefreshOK, ReadFilled
  <2>2. CASE s \in now
    BY <1>1, <1>4, <1>6, <2>1, <2>2 DEF FilledOK, Present, ReadFilled
  <2>3. CASE s \notin now
    BY <1>1, <1>4, <1>6, <2>3 DEF FilledOK, Present, ReadFilled
  <2> QED
    BY <2>2, <2>3
<1> QED
  BY <1>1, <1>5, <1>7, <1>8, PollMoves

LEMMA CallFailed ==
  ASSUME FeedIInv, NEW ms \in SUBSET Markets, CallFails(ms)
  PROVE  FeedIInv'
<1>1. /\ UNCHANGED <<adapter, offer, listing, details, batch, detailWork, overtaken, revisions>>
      /\ feedFaults' \in 0 .. MaxFeedFaults /\ feedFaults' > 0 /\ feedFaults' >= feedFaults
      /\ poll.pc = "calling"
  <2>1. feedFaults \in Nat /\ feedFaults' = feedFaults + 1 /\ feedFaults' \in 0 .. MaxFeedFaults
    BY StampBounds DEF FeedIInv, FeedTypeOK, CallFails
  <2> QED
    BY <2>1 DEF CallFails
<1>2. poll \in [pc : {"idle", "calling"}, todo : SUBSET Markets, failed : SUBSET Markets,
                found : SUBSET Surveys, seen : [Surveys -> FeedPayload]]
  BY DEF FeedIInv, FeedTypeOK
<1>3. CASE adapter # "unimarket"
  <2>1. poll' = NoPoll
    BY <1>3 DEF CallFails, AfterFailure
  <2>2. NoPayload \in FeedPayload
    BY StampBounds DEF NoPayload, FeedPayload
  <2>3. poll' \in [pc : {"idle", "calling"}, todo : SUBSET Markets, failed : SUBSET Markets,
                   found : SUBSET Surveys, seen : [Surveys -> FeedPayload]] /\ poll'.pc = "idle"
    BY <2>1, <2>2 DEF NoPoll
  <2>4. \A s \in Surveys : PollOK(s)' /\ FilledOK(s)'
    BY <1>1, <2>3 DEF PollOK, FilledOK, FeedIInv
  <2> QED
    BY <1>1, <2>3, <2>4, PollMoves
<1>4. CASE adapter = "unimarket"
  <2>1. poll' = [pc |-> "calling", todo |-> poll.todo \ ms, failed |-> poll.failed \cup ms,
                 found |-> poll.found, seen |-> poll.seen]
    BY <1>1, <1>2, <1>4 DEF CallFails, AfterFailure
  <2>2. poll' \in [pc : {"idle", "calling"}, todo : SUBSET Markets, failed : SUBSET Markets,
                   found : SUBSET Surveys, seen : [Surveys -> FeedPayload]]
    BY <1>2, <2>1
  <2>3. \A s \in Surveys : PollOK(s)'
    BY <1>1, <1>4, <2>1 DEF PollOK, FeedIInv, Given
  <2>4. \A s \in Surveys : FilledOK(s)'
    BY <1>1, <1>4 DEF FilledOK
  <2> QED
    BY <1>1, <2>2, <2>3, <2>4, PollMoves
<1> QED
  BY <1>3, <1>4

\* The merge: rows that were found show what was seen, live ones not found close.
LEMMA ItemIs ==
  ASSUME NEW p \in FeedPayload, adapter \in Adapters
  PROVE  /\ InventoryItem(p).status \in {"live", "closed"} /\ InventoryItem(p).remaining \in Left
         /\ InventoryItem(p).status = "closed" => ~p.open \/ p.left = 0
         /\ adapter = "track" => InventoryItem(p).remaining = 0
         /\ adapter = "acuity" => InventoryItem(p).remaining = p.left
<1>1. p.left \in Left /\ p.open \in BOOLEAN /\ 0 \in Left /\ Target \in Left
  BY StampBounds DEF FeedPayload
<1>2. adapter \in {"zamplia", "unimarket", "track", "acuity", "rfg"}
  BY FeedBounds
<1>3. \A n \in Left : ~(n > 0) => n = 0
  BY DEF Left, Target
<1>4. CASE adapter = "zamplia"
  BY <1>1, <1>4 DEF InventoryItem, ZampliaItem, StatusOf
<1>5. CASE adapter = "track"
  BY <1>1, <1>5 DEF InventoryItem, TrackItem
<1>6. CASE adapter = "acuity"
  BY <1>1, <1>6 DEF InventoryItem, AcuityItem
<1>7. CASE adapter = "unimarket"
  BY <1>1, <1>3, <1>7 DEF InventoryItem, UniMarketItem, StatusOf
<1>8. CASE adapter = "rfg"
  BY <1>1, <1>8 DEF InventoryItem, RfgItem, StatusOf
<1> QED
  BY <1>2, <1>4, <1>5, <1>6, <1>7, <1>8

LEMMA PollMerges ==
  ASSUME FeedIInv, MergePoll
  PROVE  FeedIInv'
<1> USE DEF FeedIInv
<1> DEFINE found == poll.found
           seen == poll.seen
<1>1. /\ UNCHANGED <<adapter, offer, details, batch, detailWork, revisions, feedFaults>>
      /\ poll.pc = "calling" /\ poll.todo = {} /\ poll' = NoPoll /\ poll'.pc = "idle"
      /\ overtaken' = {s \in overtaken : listing'[s].synced} /\ adapter \in Adapters
      /\ found \subseteq Surveys /\ seen \in [Surveys -> FeedPayload]
  BY DEF MergePoll, NoPoll, FeedTypeOK
<1>2. ASSUME NEW s \in found
      PROVE  /\ listing'[s] = [status |-> InventoryItem(seen[s]).status,
                               remaining |-> InventoryItem(seen[s]).remaining,
                               raw |-> seen[s], synced |-> StillSynced(s)]
             /\ seen[s] \in FeedPayload
  BY <1>1 DEF MergePoll
<1>3. ASSUME NEW s \in Surveys, s \notin found
      PROVE  /\ listing'[s].remaining = listing[s].remaining /\ listing'[s].raw = listing[s].raw
             /\ listing'[s].synced = listing[s].synced
             /\ \/ listing'[s] = listing[s]
                \/ listing[s].status = "live" /\ listing'[s].status = "closed"
             /\ listing'[s] \in FeedRow
  <2>1. listing[s] \in FeedRow
    BY DEF FeedTypeOK
  <2>2. listing'[s] = IF s \in Unlisted THEN [listing[s] EXCEPT !.status = "closed"] ELSE listing[s]
    BY <1>3 DEF MergePoll
  <2>3. s \in Unlisted => listing[s].status = "live"
    BY DEF Unlisted
  <2> QED
    BY <2>1, <2>2, <2>3 DEF FeedRow
<1>4. ASSUME NEW s \in found
      PROVE  StillSynced(s) \in BOOLEAN
             /\ (StillSynced(s) => listing[s].synced /\ listing[s].raw.stamp = seen[s].stamp)
  <2>1. listing[s].synced \in BOOLEAN
    BY <1>1 DEF FeedTypeOK, FeedRow
  <2> QED
    BY <2>1 DEF StillSynced, Signature
<1>5. ASSUME NEW s \in found
      PROVE  /\ listing'[s] \in FeedRow /\ listing'[s].raw = seen[s]
             /\ listing'[s].status = InventoryItem(seen[s]).status
             /\ listing'[s].remaining = InventoryItem(seen[s]).remaining
             /\ listing'[s].synced <=> StillSynced(s)
             /\ listing'[s].status \in {"live", "closed"}
  <2>1. /\ InventoryItem(seen[s]).status \in {"live", "closed"}
        /\ InventoryItem(seen[s]).remaining \in Left
    BY <1>1, <1>2, ItemIs
  <2>2. PICK st \in {"live", "closed"}, re \in Left, b \in BOOLEAN :
          InventoryItem(seen[s]).status = st /\ InventoryItem(seen[s]).remaining = re
          /\ StillSynced(s) = b
    BY <1>4, <2>1, Zenon
  <2>3. listing'[s] = [status |-> st, remaining |-> re, raw |-> seen[s], synced |-> b]
    BY <1>2, <2>2, Zenon
  <2>4. listing'[s] \in FeedRow
    <3>1. \A v \in {"live", "closed"}, n \in Left, p \in FeedPayload, y \in BOOLEAN :
            [status |-> v, remaining |-> n, raw |-> p, synced |-> y] \in FeedRow
      BY DEF FeedRow
    <3> QED
      BY <1>2, <2>3, <3>1, Zenon
  <2>5. /\ listing'[s].status = st /\ listing'[s].remaining = re /\ listing'[s].raw = seen[s]
    BY <2>3
  <2>6. listing'[s].synced = b
    <3>1. \A r : r = [status |-> st, remaining |-> re, raw |-> seen[s], synced |-> b]
                 => r.synced = b
      OBVIOUS
    <3> QED
      BY <2>3, <3>1, Zenon
  <2> QED
    BY <2>2, <2>4, <2>5, <2>6, Zenon
<1>6. FeedTypeOK'
  <2>1. listing' \in [Surveys -> FeedRow]
    <3>1. listing' = [s \in Surveys |-> listing'[s]]
      BY DEF MergePoll
    <3>2. \A s \in Surveys : listing'[s] \in FeedRow
      BY <1>3, <1>5
    <3> QED
      BY <3>1, <3>2
  <2>2. poll' \in [pc : {"idle", "calling"}, todo : SUBSET Markets, failed : SUBSET Markets,
                   found : SUBSET Surveys, seen : [Surveys -> FeedPayload]]
    <3>1. NoPayload \in FeedPayload
      BY StampBounds DEF NoPayload, FeedPayload
    <3> QED
      BY <1>1, <3>1 DEF NoPoll
  <2>3. overtaken' \subseteq Surveys
    BY <1>1 DEF FeedTypeOK
  <2> QED
    BY <1>1, <2>1, <2>2, <2>3 DEF FeedTypeOK
<1>7. \A s \in Surveys : Present(s) => Present(s)'
  BY <1>3, <1>5 DEF Present
<1>8. ASSUME NEW s \in Surveys PROVE RowOK(s)'
  <2>1. RowOK(s) /\ PollOK(s)
    OBVIOUS
  <2>2. CASE s \in found
    BY <1>1, <1>5, <2>1, <2>2 DEF RowOK, PollOK, Present, Given
  <2>3. CASE s \notin found
    BY <1>1, <1>3, <2>1, <2>3 DEF RowOK, Present, Given
  <2> QED
    BY <2>2, <2>3
<1>9. ASSUME NEW s \in Surveys PROVE PollOK(s)'
  BY <1>1 DEF PollOK
<1>10. ASSUME NEW s \in Surveys PROVE FilledOK(s)'
  <2>1. FilledOK(s)
    OBVIOUS
  <2> QED
    BY <1>1, <1>3, <1>4, <1>5, <2>1 DEF FilledOK
<1>11. ASSUME NEW w \in DetailWorkers PROVE RefreshOK(w)'
  <2>1. RefreshOK(w)
    OBVIOUS
  <2> HIDE DEF FeedIInv
  <2> QED
    BY <1>1, <1>7, <2>1 DEF RefreshOK, Given
<1>12. FreshDetailsCurrent'
  <2> SUFFICES ASSUME NEW s \in Surveys, listing'[s].synced, s \notin overtaken'
               PROVE  details[s].asked >= listing'[s].raw.stamp
    BY <1>1 DEF FreshDetailsCurrent
  <2>1. listing[s].synced /\ listing'[s].raw.stamp = listing[s].raw.stamp
    BY <1>3, <1>4, <1>5
  <2> QED
    BY <1>1, <2>1 DEF FreshDetailsCurrent
<1>13. ClosedIsOver'
  <2> SUFFICES ASSUME NEW s \in Surveys, listing'[s].status = "closed"
               PROVE  \/ ~offer[s].open \/ offer[s].left = 0
                      \/ adapter = "unimarket" /\ feedFaults > 0
    BY <1>1 DEF ClosedIsOver
  <2>1. CASE s \in found
    BY <1>1, <1>2, <1>5, <2>1, ItemIs DEF PollOK, Given
  <2>2. CASE s \notin found
    <3>1. listing[s].status = "closed" \/ ~offer[s].open \/ MarketOf[s] \in poll.failed
      BY <1>1, <1>3, <2>2 DEF PollOK
    <3> QED
      BY <1>1, <3>1 DEF ClosedIsOver, PollOK
  <2> QED
    BY <2>1, <2>2
<1>14. FilledIsRefused'
  <2> SUFFICES ASSUME adapter \in {"track", "acuity"}, NEW s \in Surveys, listing'[s].synced,
                      details[s].left = 0
               PROVE  listing'[s].remaining = 0
    BY <1>1 DEF FilledIsRefused
  <2>1. CASE s \in found
    <3>1. listing[s].synced
      BY <1>4, <1>5, <2>1
    <3>2. adapter = "acuity" => seen[s].left = 0
      BY <1>1, <2>1, <3>1 DEF FilledOK
    <3> QED
      BY <1>1, <1>2, <1>5, <2>1, <3>2, ItemIs
  <2>2. CASE s \notin found
    BY <1>3, <2>2 DEF FilledIsRefused
  <2> QED
    BY <2>1, <2>2
<1>15. StampsOK'
  BY <1>1 DEF StampsOK
<1> QED
  BY <1>6, <1>8, <1>9, <1>10, <1>11, <1>12, <1>13, <1>14, <1>15

\* refresh_client_integration_details takes up the first surveys that wait.
LEMMA BatchTaken ==
  ASSUME FeedIInv, StartBatch
  PROVE  FeedIInv'
<1> USE DEF FeedIInv
<1>1. /\ UNCHANGED <<adapter, offer, listing, details, poll, detailWork, overtaken, revisions,
                     feedFaults>>
      /\ batch' \subseteq Waiting
  BY DEF StartBatch, FirstOf
<1>2. Waiting \subseteq Surveys /\ \A s \in Waiting : Present(s)
  BY DEF Waiting, Present
<1>3. FeedTypeOK'
  BY <1>1, <1>2 DEF FeedTypeOK
<1>4. \A s \in Surveys : RowOK(s)'
  BY <1>1, <1>2 DEF RowOK, Present, Given
<1>5. \A s \in Surveys : PollOK(s)' /\ FilledOK(s)'
  BY <1>1 DEF PollOK, FilledOK, Present, ReadFilled, Given
<1>6. \A w \in DetailWorkers : RefreshOK(w)'
  BY <1>1 DEF RefreshOK, Present, Given
<1>7. StampsOK' /\ FreshDetailsCurrent' /\ ClosedIsOver' /\ FilledIsRefused'
  BY <1>1 DEF StampsOK, FreshDetailsCurrent, ClosedIsOver, FilledIsRefused
<1> QED
  BY <1>3, <1>4, <1>5, <1>6, <1>7

\* A worker's refresh moves on: the rows and their details are left alone.
RefreshRow == [pc : {"idle", "survey", "questions", "quotas", "persist"},
               survey : Surveys \cup {0}, read : FeedPayload, capacity : Left,
               detail : FeedPayload, asked : Revision, left : Left]

LEMMA RefreshMoves ==
  ASSUME FeedIInv, UNCHANGED <<adapter, offer, listing, details, poll, overtaken, revisions>>,
         batch' \subseteq batch, feedFaults' \in 0 .. MaxFeedFaults, feedFaults' >= feedFaults,
         NEW w \in DetailWorkers, NEW x \in RefreshRow, detailWork' = [detailWork EXCEPT ![w] = x],
         RefreshOK(w)',
         adapter = "acuity" /\ x.pc # "idle" /\ x.read.left = 0 /\ poll.pc = "calling"
           /\ x.survey \in poll.found => poll.seen[x.survey].left = 0
  PROVE  FeedIInv'
<1> USE DEF FeedIInv
<1>1. /\ detailWork' \in [DetailWorkers -> RefreshRow] /\ detailWork'[w] = x
      /\ \A v \in DetailWorkers : v # w => detailWork'[v] = detailWork[v]
  BY DEF FeedTypeOK, RefreshRow
<1>2. feedFaults \in Nat /\ feedFaults' \in Nat
  BY StampBounds DEF FeedTypeOK
<1>3. FeedTypeOK'
  BY <1>1 DEF FeedTypeOK, RefreshRow
<1>4. \A s \in Surveys : RowOK(s)'
  BY DEF RowOK, Present, Given
<1>5. ASSUME NEW s \in Surveys PROVE PollOK(s)'
  <2>1. PollOK(s)
    OBVIOUS
  <2> HIDE DEF FeedIInv
  <2> QED
    BY <1>2, <2>1 DEF PollOK, Given
<1>6. ASSUME NEW s \in Surveys PROVE FilledOK(s)'
  <2>1. FilledOK(s)
    OBVIOUS
  <2> HIDE DEF FeedIInv
  <2> QED
    BY <1>1, <2>1 DEF FilledOK, Present, ReadFilled
<1>7. ASSUME NEW v \in DetailWorkers PROVE RefreshOK(v)'
  <2>1. CASE v # w
    <3>1. RefreshOK(v) /\ detailWork'[v] = detailWork[v]
      BY <1>1, <2>1
    <3> HIDE DEF FeedIInv
    <3> QED
      BY <3>1 DEF RefreshOK, Present, Given
  <2> QED
    BY <2>1
<1>8. ClosedIsOver'
  BY <1>2 DEF ClosedIsOver
<1>9. StampsOK' /\ FreshDetailsCurrent' /\ FilledIsRefused'
  BY DEF StampsOK, FreshDetailsCurrent, FilledIsRefused
<1> QED
  BY <1>3, <1>4, <1>5, <1>6, <1>7, <1>8, <1>9

\* A refresh reads the row.
LEMMA RefreshBegins ==
  ASSUME FeedIInv, NEW s \in Surveys, NEW w \in DetailWorkers, Present(s), Reading(w, s),
         UNCHANGED <<adapter, offer, listing, details, poll, overtaken, revisions, feedFaults>>,
         batch' \subseteq batch
  PROVE  FeedIInv'
<1> DEFINE x == [pc |-> FirstCall, survey |-> s, read |-> listing[s].raw,
                 capacity |-> listing[s].remaining, detail |-> NoPayload, asked |-> 0, left |-> 0]
<1>1. listing[s] \in FeedRow /\ NoPayload \in FeedPayload
  BY StampBounds DEF FeedIInv, FeedTypeOK, NoPayload, FeedPayload
<1>2. x \in RefreshRow /\ x.pc = FirstCall /\ x.survey = s /\ x.read = listing[s].raw
  <2>1. /\ listing[s].raw \in FeedPayload /\ listing[s].remaining \in Left
        /\ FirstCall \in {"survey", "questions"} /\ 0 \in Revision /\ 0 \in Left
    BY <1>1, StampBounds DEF FeedRow, FirstCall
  <2> QED
    BY <1>1, <2>1 DEF RefreshRow
<1>3. detailWork' = [detailWork EXCEPT ![w] = x]
  <2>1. x = [NoRefresh EXCEPT !.pc = FirstCall, !.survey = s, !.read = listing[s].raw,
                              !.capacity = listing[s].remaining]
    <3>1. ASSUME NEW y, y = [NoRefresh EXCEPT !.pc = FirstCall, !.survey = s,
                                              !.read = listing[s].raw,
                                              !.capacity = listing[s].remaining]
          PROVE  x = y
      BY <3>1 DEF NoRefresh
    <3> QED
      BY <3>1, Zenon
  <2> HIDE DEF x
  <2> QED
    BY <2>1, Zenon DEF Reading
<1> HIDE DEF x
<1>4. detailWork'[w] = x
  BY <1>3 DEF FeedIInv, FeedTypeOK
<1>5. FirstCall \in {"survey", "questions"} /\ (FirstCall = "survey" <=> adapter = "zamplia")
  BY DEF FirstCall
<1>6. RowOK(s) /\ FilledOK(s)
  BY DEF FeedIInv
<1>7. RefreshOK(w)'
  BY <1>2, <1>4, <1>5, <1>6 DEF RefreshOK, RowOK, Present, Given
<1>8. feedFaults \in 0 .. MaxFeedFaults /\ feedFaults \in Nat
  BY StampBounds DEF FeedIInv, FeedTypeOK
<1>9. adapter = "acuity" /\ x.pc # "idle" /\ x.read.left = 0 /\ poll.pc = "calling"
           /\ x.survey \in poll.found => poll.seen[x.survey].left = 0
  <2>1. adapter = "acuity" /\ poll.pc = "calling" /\ s \in poll.found /\ Present(s)
          /\ listing[s].raw.left = 0 => poll.seen[s].left = 0
    BY <1>6, Zenon DEF FilledOK
  <2> QED
    BY <1>2, <2>1
<1>10. feedFaults' \in 0 .. MaxFeedFaults /\ feedFaults' >= feedFaults
  BY <1>8
<1> QED
  BY <1>2, <1>3, <1>7, <1>9, <1>10, RefreshMoves, Zenon

LEMMA RefreshesBegin ==
  ASSUME FeedIInv, NEW s \in Surveys,
         NextOfBatch(s) \/ \E w \in DetailWorkers : RefreshOnDemand(w, s)
  PROVE  FeedIInv'
<1>1. CASE NextOfBatch(s)
  <2>1. Present(s)
    BY <1>1 DEF NextOfBatch, FeedIInv, RowOK
  <2>2. TaskWorker \in DetailWorkers
    BY FeedAssumption DEF TaskWorker
  <2> QED
    BY <1>1, <2>1, <2>2, RefreshBegins DEF NextOfBatch
<1>2. ASSUME NEW w \in DetailWorkers, RefreshOnDemand(w, s) PROVE FeedIInv'
  BY <1>2, RefreshBegins DEF RefreshOnDemand, Present
<1> QED
  BY <1>1, <1>2

\* The calls of a refresh, and its failure.
LEMMA RefreshAsks ==
  ASSUME FeedIInv, NEW w \in DetailWorkers,
         AskSurvey(w) \/ AskQuestions(w) \/ AskQuotas(w) \/ RefreshFails(w)
  PROVE  FeedIInv'
<1> DEFINE r == detailWork[w]
           s == r.survey
<1>1. /\ r \in RefreshRow /\ detailWork \in [DetailWorkers -> RefreshRow] /\ RefreshOK(w)
      /\ offer \in [Surveys -> FeedPayload] /\ NoPayload \in FeedPayload
      /\ adapter \in {"zamplia", "unimarket", "track", "acuity", "rfg"}
  BY FeedBounds, StampBounds DEF FeedIInv, FeedTypeOK, RefreshRow, NoPayload, FeedPayload
<1>2. /\ UNCHANGED <<adapter, offer, listing, details, poll, overtaken, revisions>>
      /\ batch' \subseteq batch
  BY DEF AskSurvey, AskQuestions, AskQuotas, RefreshFails
<1>3. feedFaults' \in 0 .. MaxFeedFaults /\ feedFaults' >= feedFaults
  <2>1. feedFaults \in 0 .. MaxFeedFaults /\ feedFaults \in Nat
    BY StampBounds DEF FeedIInv, FeedTypeOK
  <2>2. \/ feedFaults' = feedFaults
        \/ feedFaults < MaxFeedFaults /\ feedFaults' = feedFaults + 1
    BY DEF AskSurvey, AskQuestions, AskQuotas, RefreshFails
  <2> QED
    BY <2>1, <2>2, StampBounds
<1>4. ASSUME r.pc # "idle"
      PROVE  /\ s \in Surveys /\ Present(s) /\ Given(s, r.read) /\ r.read \in FeedPayload
             /\ r.read.stamp \in Nat /\ offer[s] \in FeedPayload /\ offer[s].stamp \in Nat
             /\ r.detail.stamp \in Nat
             /\ r.read.stamp \in Revision /\ offer[s].stamp \in Revision
             /\ offer[s].left \in Left /\ r.read.left \in Left /\ r.capacity \in Left
             /\ r.left \in Left
  BY <1>1, <1>4, StampBounds DEF RefreshOK, RefreshRow, FeedPayload
<1>5. ASSUME r.pc # "idle", adapter = "acuity", r.read.left = 0, poll.pc = "calling",
             s \in poll.found
      PROVE  poll.seen[s].left = 0
  <2>1. FilledOK(s)
    BY <1>4, <1>5 DEF FeedIInv
  <2>2. ReadFilled(w, s)
    BY <1>5 DEF ReadFilled
  <2> QED
    BY <1>5, <2>1, <2>2, Zenon DEF FilledOK
<1>6. CASE AskSurvey(w)
  <2>1. r.pc = "survey" /\ adapter = "zamplia"
    BY <1>1, <1>6 DEF AskSurvey, RefreshOK
  <2>2. PICK detail \in {offer[s]} \cup IF offer[s].open THEN {} ELSE {r.read} :
          detailWork' = [detailWork EXCEPT ![w].pc = "questions", ![w].detail = detail]
    BY <1>6, Zenon DEF AskSurvey
  <2> DEFINE x == [r EXCEPT !.pc = "questions", !.detail = detail]
  <2>3. /\ x \in RefreshRow /\ x.pc = "questions" /\ x.survey = s /\ x.read = r.read
        /\ x.detail = detail
    <3>1. detail \in FeedPayload
      BY <1>4, <2>1, <2>2
    <3> QED
      BY <1>1, <3>1 DEF RefreshRow
  <2>4. detailWork' = [detailWork EXCEPT ![w] = x]
    BY <2>2
  <2> HIDE DEF x
  <2>5. detailWork'[w] = x
    BY <1>1, <2>4
  <2>6. detail.stamp =< offer[s].stamp /\ (~detail.open => ~offer[s].open)
    BY <1>4, <2>1, <2>2 DEF Given
  <2>7. RefreshOK(w)'
    BY <1>2, <1>4, <2>1, <2>3, <2>5, <2>6 DEF RefreshOK, Given, Present
  <2> QED
    BY <1>2, <1>3, <1>5, <2>1, <2>3, <2>4, <2>7, RefreshMoves, Zenon
<1>7. CASE AskQuestions(w)
  <2>1. r.pc = "questions"
    BY <1>7 DEF AskQuestions
  <2> DEFINE asked == IF adapter = "acuity" THEN r.read.stamp ELSE offer[s].stamp
             x == [r EXCEPT !.pc = "quotas", !.asked = asked, !.left = offer[s].left]
  <2>2. asked \in Revision /\ asked \in Nat /\ asked >= r.read.stamp
    BY <1>4, <2>1, StampBounds DEF Given
  <2>3. adapter = "zamplia" => /\ asked >= r.detail.stamp
                               /\ r.detail.stamp =< offer[s].stamp
                               /\ ~r.detail.open => ~offer[s].open
    BY <1>1, <1>4, <2>1 DEF RefreshOK
  <2>4. detailWork' = [detailWork EXCEPT ![w] = x]
    BY <1>7 DEF AskQuestions, AcuityQuestions, UpstreamQuestions
  <2> HIDE DEF asked
  <2>5. /\ x \in RefreshRow /\ x.pc = "quotas" /\ x.survey = s /\ x.read = r.read
        /\ x.detail = r.detail /\ x.asked = asked
    BY <1>1, <1>4, <2>1, <2>2 DEF RefreshRow
  <2> HIDE DEF x
  <2>6. detailWork'[w] = x
    BY <1>1, <2>4
  <2>7. RefreshOK(w)'
    BY <1>2, <1>4, <2>1, <2>2, <2>3, <2>5, <2>6 DEF RefreshOK, Given, Present
  <2> QED
    BY <1>2, <1>3, <1>5, <2>1, <2>4, <2>5, <2>7, RefreshMoves, Zenon
<1>8. CASE AskQuotas(w)
  <2>1. r.pc = "quotas"
    BY <1>8 DEF AskQuotas
  <2>2. PICK left \in QuotaCounts(r) :
          detailWork' = [detailWork EXCEPT ![w].pc = "persist", ![w].left = left]
    BY <1>8 DEF AskQuotas
  <2>3. /\ left \in Left
        /\ adapter \in {"zamplia", "track"} => left = offer[s].left
        /\ adapter = "acuity" => left = r.read.left
    BY <1>1, <1>4, <2>1, <2>2
    DEF QuotaCounts, ZampliaQuota, TrackQuota, AcuityQuota, UniMarketQuota, RfgQuota
  <2> DEFINE x == [r EXCEPT !.pc = "persist", !.left = left]
  <2>4. /\ x \in RefreshRow /\ x.pc = "persist" /\ x.survey = s /\ x.read = r.read
        /\ x.detail = r.detail /\ x.asked = r.asked /\ x.left = left
    BY <1>1, <2>3 DEF RefreshRow
  <2>5. detailWork' = [detailWork EXCEPT ![w] = x]
    BY <2>2
  <2> HIDE DEF x
  <2>6. detailWork'[w] = x
    BY <1>1, <2>5
  <2>7. RefreshOK(w)'
    BY <1>1, <1>2, <1>4, <2>1, <2>3, <2>4, <2>6 DEF RefreshOK, Given, Present
  <2> QED
    BY <1>2, <1>3, <1>5, <2>1, <2>4, <2>5, <2>7, RefreshMoves, Zenon
<1>9. CASE RefreshFails(w)
  <2>1. NoRefresh \in RefreshRow /\ NoRefresh.pc = "idle"
    BY <1>1, StampBounds DEF NoRefresh, RefreshRow
  <2>2. detailWork' = [detailWork EXCEPT ![w] = NoRefresh]
    BY <1>9 DEF RefreshFails
  <2>3. detailWork'[w] = NoRefresh
    BY <1>1, <2>2
  <2>4. RefreshOK(w)'
    BY <2>1, <2>3 DEF RefreshOK
  <2> QED
    BY <1>2, <1>3, <2>1, <2>2, <2>4, RefreshMoves, Zenon
<1> QED
  BY <1>6, <1>7, <1>8, <1>9

\* survey_updates of each adapter.
LEMMA RowMade ==
  ASSUME NEW v \in {"absent", "live", "closed"}, NEW n \in Left, NEW p \in FeedPayload,
         NEW row \in FeedRow, NEW new,
         new = [status |-> v, remaining |-> n, raw |-> p, synced |-> row.synced]
  PROVE  new \in FeedRow /\ new.status = v /\ new.remaining = n /\ new.raw = p
<1>1. \A y \in BOOLEAN : [status |-> v, remaining |-> n, raw |-> p, synced |-> y] \in FeedRow
  BY DEF FeedRow
<1>2. row.synced \in BOOLEAN
  BY DEF FeedRow
<1>3. new \in FeedRow
  BY <1>1, <1>2, Zenon
<1> QED
  BY <1>3

LEMMA RowFresh ==
  ASSUME NEW row \in FeedRow, NEW new, new = [row EXCEPT !.synced = TRUE]
  PROVE  new \in FeedRow /\ new.synced /\ new.status = row.status /\ new.raw = row.raw
         /\ new.remaining = row.remaining
<1> QED
  BY DEF FeedRow

LEMMA RowUpdated ==
  ASSUME NEW row \in FeedRow, NEW r \in RefreshRow
  PROVE  /\ Updated(row, r) \in FeedRow
         /\ adapter = "zamplia" =>
              /\ Updated(row, r).raw.stamp = r.detail.stamp
              /\ Updated(row, r).raw.left = r.left
              /\ Updated(row, r).raw.open <=> r.detail.open
              /\ Updated(row, r).status = StatusOf(r.detail.open)
         /\ adapter # "zamplia" => Updated(row, r).raw = row.raw
         /\ adapter = "track" => /\ Updated(row, r).remaining = r.left
                                 /\ Updated(row, r).status = StatusOf(r.left > 0)
         /\ adapter = "acuity" => Updated(row, r).remaining = r.left
         /\ adapter \notin {"zamplia", "track"} => Updated(row, r).status = row.status
<1>1. \A yes \in BOOLEAN : StatusOf(yes) \in {"absent", "live", "closed"}
  BY DEF StatusOf
<1>2. row.status \in {"absent", "live", "closed"} /\ row.raw \in FeedPayload
  BY DEF FeedRow
<1>3. r.left \in Left
  BY DEF RefreshRow
<1>4. CASE adapter = "zamplia"
  <2> DEFINE p == [r.detail EXCEPT !.left = r.left]
             st == StatusOf(r.detail.open)
  <2>1. r.detail \in FeedPayload /\ r.detail.open \in BOOLEAN
    BY DEF RefreshRow, FeedPayload
  <2>2. /\ p \in FeedPayload /\ p.stamp = r.detail.stamp /\ p.left = r.left
        /\ p.open <=> r.detail.open
    BY <1>3, <2>1 DEF FeedPayload
  <2>3. st \in {"absent", "live", "closed"}
    BY <1>1, <2>1, Zenon
  <2>4. Updated(row, r) = [row EXCEPT !.remaining = r.left, !.status = st, !.raw = p]
    BY <1>4, Zenon DEF Updated, ZampliaUpdates
  <2> HIDE DEF p, st
  <2>5. Updated(row, r) = [status |-> st, remaining |-> r.left, raw |-> p, synced |-> row.synced]
    BY <2>4 DEF FeedRow
  <2>6. /\ Updated(row, r) \in FeedRow /\ Updated(row, r).status = st
        /\ Updated(row, r).remaining = r.left /\ Updated(row, r).raw = p
    BY <1>3, <2>2, <2>3, <2>5, RowMade
  <2>7. st = StatusOf(r.detail.open)
    BY DEF st
  <2> QED
    BY <1>4, <2>2, <2>6, <2>7
<1>5. CASE adapter = "track"
  <2> DEFINE st == StatusOf(r.left > 0)
  <2>1. st \in {"absent", "live", "closed"}
    BY DEF StatusOf
  <2>2. Updated(row, r) = [row EXCEPT !.remaining = r.left, !.status = st]
    BY <1>5, Zenon DEF Updated, TrackUpdates
  <2> HIDE DEF st
  <2>3. Updated(row, r) = [status |-> st, remaining |-> r.left, raw |-> row.raw,
                           synced |-> row.synced]
    BY <2>2 DEF FeedRow
  <2>4. /\ Updated(row, r) \in FeedRow /\ Updated(row, r).status = st
        /\ Updated(row, r).remaining = r.left /\ Updated(row, r).raw = row.raw
    BY <1>2, <1>3, <2>1, <2>3, RowMade
  <2>5. st = StatusOf(r.left > 0)
    BY DEF st
  <2> QED
    BY <1>5, <2>4, <2>5
<1>6. CASE adapter = "acuity"
  <2>1. Updated(row, r) = [row EXCEPT !.remaining = r.left]
    BY <1>6, Zenon DEF Updated, AcuityUpdates
  <2>2. Updated(row, r) = [status |-> row.status, remaining |-> r.left, raw |-> row.raw,
                           synced |-> row.synced]
    BY <2>1 DEF FeedRow
  <2>3. /\ Updated(row, r) \in FeedRow /\ Updated(row, r).status = row.status
        /\ Updated(row, r).remaining = r.left /\ Updated(row, r).raw = row.raw
    BY <1>2, <1>3, <2>2, RowMade
  <2> QED
    BY <1>6, <2>3
<1>7. CASE adapter \notin {"zamplia", "track", "acuity"}
  <2>1. Updated(row, r) = row
    BY <1>7 DEF Updated
  <2> QED
    BY <1>7, <2>1
<1> QED
  BY <1>4, <1>5, <1>6, <1>7

\* The transaction at the end of a refresh.
LEMMA DetailsPersisted ==
  ASSUME FeedIInv, NEW w \in DetailWorkers, PersistDetails(w)
  PROVE  FeedIInv'
<1> DEFINE r == detailWork[w]
           s == r.survey
           new == listing'[s]
<1>1. /\ r \in RefreshRow /\ r.pc = "persist" /\ detailWork \in [DetailWorkers -> RefreshRow]
      /\ listing \in [Surveys -> FeedRow]
      /\ details \in [Surveys -> [asked : Revision, left : Left]]
      /\ UNCHANGED <<adapter, offer, poll, batch, revisions, feedFaults>>
      /\ details' = [details EXCEPT ![s] = [asked |-> r.asked, left |-> r.left]]
      /\ listing' = [listing EXCEPT ![s] = [Updated(listing[s], r) EXCEPT !.synced = TRUE]]
      /\ overtaken' = IF listing'[s].raw.stamp # r.read.stamp /\ adapter # "zamplia"
                        THEN overtaken \cup {s} ELSE overtaken \ {s}
      /\ detailWork' = [detailWork EXCEPT ![w] = NoRefresh]
  BY DEF PersistDetails, FeedIInv, FeedTypeOK, RefreshRow
<1>2. /\ s \in Surveys /\ Present(s) /\ Given(s, r.read)
      /\ adapter = "zamplia" =>
           /\ r.detail.stamp =< offer[s].stamp /\ (~r.detail.open => ~offer[s].open)
           /\ r.asked >= r.detail.stamp
      /\ r.asked >= r.read.stamp
      /\ adapter \in {"zamplia", "track"} /\ r.left = 0 => offer[s].left = 0
      /\ adapter = "acuity" => r.left = r.read.left
  <2>1. RefreshOK(w)
    BY DEF FeedIInv
  <2> QED
    BY <1>1, <2>1 DEF RefreshOK
<1>3. /\ r.left \in Left /\ r.left \in Nat /\ r.asked \in Revision /\ r.detail.open \in BOOLEAN
  <2>1. \A n \in Left : n \in Nat
    BY DEF Left, Target
  <2> QED
    BY <1>1, <2>1 DEF RefreshRow, FeedPayload
<1>4. /\ new \in FeedRow /\ new.synced
      /\ adapter = "zamplia" =>
           /\ new.raw.stamp = r.detail.stamp /\ new.raw.left = r.left
           /\ new.raw.open <=> r.detail.open
           /\ new.status = StatusOf(r.detail.open)
      /\ adapter # "zamplia" => new.raw = listing[s].raw
      /\ adapter = "track" => new.remaining = r.left /\ new.status = StatusOf(r.left > 0)
      /\ adapter = "acuity" => new.remaining = r.left
      /\ adapter \notin {"zamplia", "track"} => new.status = listing[s].status
  <2>1. listing[s] \in FeedRow /\ new = [Updated(listing[s], r) EXCEPT !.synced = TRUE]
    BY <1>1, <1>2
  <2> DEFINE u == Updated(listing[s], r)
  <2> HIDE DEF r, s, new
  <2>2. /\ u \in FeedRow
        /\ adapter = "zamplia" =>
             /\ u.raw.stamp = r.detail.stamp /\ u.raw.left = r.left
             /\ u.raw.open <=> r.detail.open
             /\ u.status = StatusOf(r.detail.open)
        /\ adapter # "zamplia" => u.raw = listing[s].raw
        /\ adapter = "track" => u.remaining = r.left /\ u.status = StatusOf(r.left > 0)
        /\ adapter = "acuity" => u.remaining = r.left
        /\ adapter \notin {"zamplia", "track"} => u.status = listing[s].status
    BY <1>1, <2>1, RowUpdated, Zenon
  <2> HIDE DEF u
  <2>3. /\ new \in FeedRow /\ new.synced /\ new.status = u.status
        /\ new.raw = u.raw /\ new.remaining = u.remaining
    <3>1. new = [u EXCEPT !.synced = TRUE]
      BY <2>1 DEF u
    <3> QED
      BY <2>2, <3>1, RowFresh
  <2> QED
    BY <2>2, <2>3, Zenon
<1>5. /\ listing' \in [Surveys -> FeedRow]
      /\ \A t \in Surveys : t # s => listing'[t] = listing[t] /\ details'[t] = details[t]
      /\ details' \in [Surveys -> [asked : Revision, left : Left]]
      /\ details'[s].asked = r.asked /\ details'[s].left = r.left
  <2>1. [asked |-> r.asked, left |-> r.left] \in [asked : Revision, left : Left]
    BY <1>3
  <2>2. [Updated(listing[s], r) EXCEPT !.synced = TRUE] \in FeedRow
    BY <1>1, <1>2, <1>4
  <2> HIDE DEF r, s, new
  <2> QED
    BY <1>1, <1>2, <2>1, <2>2
<1>6. /\ new.status # "absent"
      /\ new.status = "closed" => \/ listing[s].status = "closed"
                                  \/ ~offer[s].open
                                  \/ offer[s].left = 0
  <2>1. CASE adapter = "zamplia"
    BY <1>2, <1>3, <1>4, <2>1 DEF StatusOf
  <2>2. CASE adapter = "track"
    <3>1. new.status = StatusOf(r.left > 0) /\ (r.left = 0 => offer[s].left = 0)
      BY <1>2, <1>4, <2>2
    <3> QED
      BY <1>3, <3>1 DEF StatusOf
  <2>3. CASE adapter \notin {"zamplia", "track"}
    BY <1>2, <1>4, <2>3 DEF Present
  <2> QED
    BY <2>1, <2>2, <2>3
<1>7. /\ detailWork' \in [DetailWorkers -> RefreshRow] /\ detailWork'[w].pc = "idle"
      /\ \A v \in DetailWorkers : v # w => detailWork'[v] = detailWork[v]
  <2>1. NoRefresh \in RefreshRow /\ NoRefresh.pc = "idle"
    BY StampBounds DEF NoRefresh, RefreshRow, NoPayload, FeedPayload
  <2> QED
    BY <1>1, <2>1
<1>8. overtaken' \subseteq Surveys /\ \A t \in Surveys : t # s => (t \in overtaken <=> t \in overtaken')
  BY <1>1, <1>2 DEF FeedIInv, FeedTypeOK
<1>9. FeedTypeOK'
  BY <1>1, <1>5, <1>7, <1>8 DEF FeedIInv, FeedTypeOK, RefreshRow
<1> HIDE DEF r, new
<1>10. \A t \in Surveys : Present(t) => Present(t)'
  BY <1>5, <1>6 DEF Present, new
<1>11. ASSUME NEW t \in Surveys PROVE RowOK(t)'
  <2>1. RowOK(t)
    BY DEF FeedIInv
  <2>2. CASE t = s
    <3>1. Given(s, new.raw)
      <4>1. CASE adapter = "zamplia"
        BY <1>2, <1>4, <4>1 DEF Given
      <4>2. CASE adapter # "zamplia"
        BY <1>2, <1>4, <2>1, <2>2, <4>2 DEF RowOK
      <4> QED
        BY <4>1, <4>2
    <3> QED
      BY <1>1, <1>2, <1>10, <2>2, <3>1 DEF RowOK, Given, new
  <2>3. CASE t # s
    BY <1>1, <1>5, <2>1, <2>3 DEF RowOK, Present, Given
  <2> QED
    BY <2>2, <2>3
<1>12. ASSUME NEW t \in Surveys PROVE PollOK(t)'
  <2>1. PollOK(t)
    BY DEF FeedIInv
  <2> QED
    BY <1>1, <2>1 DEF PollOK, Given
<1>13. ASSUME NEW t \in Surveys PROVE FilledOK(t)'
  <2>1. FilledOK(t)
    BY DEF FeedIInv
  <2>2. \A v \in DetailWorkers : ReadFilled(v, t)' => ReadFilled(v, t)
    BY <1>7 DEF ReadFilled
  <2>3. CASE t # s
    BY <1>1, <1>5, <2>1, <2>2, <2>3 DEF FilledOK, Present
  <2>4. CASE t = s /\ adapter = "acuity"
    <3>1. r.left = 0 => offer[s].left = 0 /\ ReadFilled(w, s)
      BY <1>1, <1>2, <2>4 DEF ReadFilled, Given, r, s
    <3>2. new.raw = listing[s].raw
      BY <1>4, <2>4
    <3> QED
      BY <1>1, <1>2, <1>5, <2>1, <2>2, <2>4, <3>1, <3>2 DEF FilledOK, new
  <2>5. CASE adapter # "acuity"
    BY <1>1, <2>5 DEF FilledOK
  <2> QED
    BY <2>3, <2>4, <2>5
<1>14. ASSUME NEW v \in DetailWorkers PROVE RefreshOK(v)'
  <2>1. CASE v = w
    BY <1>7, <2>1 DEF RefreshOK
  <2>2. CASE v # w
    <3>1. RefreshOK(v) /\ detailWork'[v] = detailWork[v]
      BY <1>7, <2>2 DEF FeedIInv
    <3> QED
      BY <1>1, <1>10, <3>1 DEF RefreshOK, Given
  <2> QED
    BY <2>1, <2>2
<1>15. FreshDetailsCurrent'
  <2> SUFFICES ASSUME NEW t \in Surveys, listing'[t].synced, t \notin overtaken'
               PROVE  details'[t].asked >= listing'[t].raw.stamp
    BY DEF FreshDetailsCurrent
  <2>1. CASE t = s
    <3>1. adapter # "zamplia" => new.raw.stamp = r.read.stamp
      BY <1>1, <2>1 DEF new
    <3>2. r.asked >= new.raw.stamp
      BY <1>2, <1>4, <3>1
    <3> QED
      BY <1>5, <2>1, <3>2 DEF new
  <2>2. CASE t # s
    BY <1>5, <1>8, <2>2 DEF FeedIInv, FreshDetailsCurrent
  <2> QED
    BY <2>1, <2>2
<1>16. ClosedIsOver'
  <2> SUFFICES ASSUME NEW t \in Surveys, listing'[t].status = "closed"
               PROVE  \/ ~offer[t].open \/ offer[t].left = 0
                      \/ adapter = "unimarket" /\ feedFaults > 0
    BY <1>1 DEF ClosedIsOver
  <2>1. listing[t].status = "closed" \/ ~offer[t].open \/ offer[t].left = 0
    BY <1>5, <1>6 DEF new
  <2> QED
    BY <2>1 DEF FeedIInv, ClosedIsOver
<1>17. FilledIsRefused'
  <2> SUFFICES ASSUME adapter \in {"track", "acuity"}, NEW t \in Surveys, listing'[t].synced,
                      details'[t].left = 0
               PROVE  listing'[t].remaining = 0
    BY <1>1 DEF FilledIsRefused
  <2>1. CASE t = s
    BY <1>4, <1>5, <2>1 DEF new
  <2>2. CASE t # s
    BY <1>5, <2>2 DEF FeedIInv, FilledIsRefused
  <2> QED
    BY <2>1, <2>2
<1>18. StampsOK'
  BY <1>1 DEF FeedIInv, StampsOK
<1> QED
  BY <1>9, <1>11, <1>12, <1>13, <1>14, <1>15, <1>16, <1>17, <1>18 DEF FeedIInv

LEMMA FeedStep == FeedIInv /\ [FeedNext]_feedVars => FeedIInv'
<1>1. ASSUME FeedIInv, FeedNext PROVE FeedIInv'
  BY <1>1, ProviderMoves, PollStarts, CallAnswered, CallFailed, PollMerges, BatchTaken,
     RefreshesBegin, RefreshAsks, DetailsPersisted
  DEF FeedNext, RefreshSteps
<1>2. ASSUME FeedIInv, UNCHANGED feedVars PROVE FeedIInv'
  <2> USE DEF FeedIInv
  <2>1. FeedTypeOK' /\ StampsOK'
    BY <1>2 DEF feedVars, FeedTypeOK, StampsOK
  <2>2. \A s \in Surveys : RowOK(s)' /\ PollOK(s)' /\ FilledOK(s)'
    BY <1>2 DEF feedVars, RowOK, PollOK, FilledOK, Present, ReadFilled, Given
  <2>3. \A w \in DetailWorkers : RefreshOK(w)'
    BY <1>2 DEF feedVars, RefreshOK, Present, Given
  <2>4. FreshDetailsCurrent' /\ ClosedIsOver' /\ FilledIsRefused'
    BY <1>2 DEF feedVars, FreshDetailsCurrent, ClosedIsOver, FilledIsRefused
  <2> QED
    BY <2>1, <2>2, <2>3, <2>4
<1> QED
  BY <1>1, <1>2

LEMMA FeedInductive == FeedSpec => []FeedIInv
<1> QED
  BY FeedBegins, FeedStep, PTL DEF FeedSpec

LEMMA FeedKept == FeedIInv => FeedInv
<1> QED
  BY DEF FeedIInv, FeedInv

(****************************************************************************)
(* sync_client_integration and refresh_client_integration_details, for any  *)
(* surveys, markets, workers and adapters: details that count as fresh are  *)
(* as new as the row unless overtaken, a poll closes only what is over, and *)
(* a filled survey stays refused.                                           *)
(****************************************************************************)
THEOREM FeedCorrect == FeedSpec => []FeedInv
<1> QED
  BY FeedInductive, FeedKept, PTL
=============================================================================
