------------------------ MODULE AttemptOutcome_proofs ------------------------
(****************************************************************************)
(* What a step may do to an attempt's outcome: FirstOutcomeStands, SentOnce *)
(* and VerifiedOutcomeHasVerifiedSource for every set of attempts, then     *)
(* OneRedirectPerEntryIP and what Toluna's events do in any order.  They    *)
(* rest on the invariant of AttemptLifecycle_proofs, strengthened by what   *)
(* the handlers take for granted of verified, redirected_at and the poll's  *)
(* candidates.                                                              *)
(****************************************************************************)
EXTENDS AttemptLifecycle_proofs

Revisable(a) == ProviderOf[a] \in {"rfg", "toluna"}

VerifiedSource(a, source) ==
  /\ ProviderOf[a] = "rfg" => source = "rfg_callback"
  /\ ProviderOf[a] = "toluna" => source \in {"toluna_callback", "toluna_notification"}

\* Only two providers' attempts are polled, and only Toluna's get notices.
FeedsOK ==
  /\ \A m \in answers : ProviderOf[m.attempt] \in {"innovatemr", "biobrain"}
  /\ \A a \in Attempts, e \in Events :
       notices[<<a, e>>] # "absent" => ProviderOf[a] = "toluna"

OutcomeOK ==
  /\ FeedsOK
  /\ \A a \in Attempts :
       /\ row[a].verified => /\ row[a].status \in Terminal
                             /\ VerifiedSource(a, row[a].source)
       /\ row[a].status \in {"absent", "initiated"} => ~row[a].redirected

OInv == IInv /\ OutcomeOK

(****************************************************************************)
(* The four things a step may do to the row q of attempt a.                 *)
(****************************************************************************)
Opens(q, r) ==
  /\ q.status = "absent"
  /\ r.status = "initiated"
  /\ ~r.verified
  /\ ~r.redirected

Keeps(a, q, r) ==
  /\ r.status = q.status
  /\ r.source = q.source
  /\ r.redirected = q.redirected
  /\ r.verified => q.verified \/ (q.status \in Terminal /\ ~Revisable(a))

Sends(q, r) ==
  /\ q.status = "initiated"
  /\ r.status = "redirected"
  /\ r.verified = q.verified

Ends(a, q, r) ==
  /\ r.status \in Terminal
  /\ q.status \in Terminal => Revisable(a)
  /\ r.verified => VerifiedSource(a, r.source)

Write(a, q, r) == Opens(q, r) \/ Keeps(a, q, r) \/ Sends(q, r) \/ Ends(a, q, r)

Writes == \A b \in Attempts : Write(b, row[b], row'[b])

(****************************************************************************)
(* A write to one row keeps all the others.                                 *)
(****************************************************************************)
LEMMA OneRow ==
  ASSUME IInv, NEW a \in Attempts, NEW r, Write(a, row[a], r),
         row' = [row EXCEPT ![a] = r]
  PROVE  Writes
<1>1. row \in [Attempts -> AttemptRow]
  BY DEF IInv, TypeOK
<1>2. row'[a] = r
  BY <1>1
<1>3. ASSUME NEW b \in Attempts, b # a PROVE Write(b, row[b], row'[b])
  BY <1>1, <1>3 DEF Write, Keeps
<1> QED BY <1>2, <1>3 DEF Writes

LEMMA NoRow ==
  ASSUME UNCHANGED row
  PROVE  Writes
BY DEF Writes, Write, Keeps

(****************************************************************************)
(* The _finish_* transactions end a journey that nothing has verified.      *)
(****************************************************************************)
LEMMA FinishWrites ==
  ASSUME OInv, NEW a \in Attempts, NEW o \in Terminal, NEW src,
         FinishLocally(a, o, src)
  PROVE  Writes
<1> DEFINE r == [Ended(row[a], o, src) EXCEPT !.exit = "ending"]
<1>1. row[a] \in AttemptRow /\ row[a].status = "initiated"
  BY DEF OInv, IInv, TypeOK, FinishLocally, StillInitiated
<1>2. "initiated" \notin Terminal
  BY DEF Terminal
<1>3. ~row[a].verified
  BY <1>1, <1>2 DEF OInv, OutcomeOK
<1>4. r.status = o /\ r.verified = row[a].verified
  BY <1>1 DEF Ended, AttemptRow
<1>5. Write(a, row[a], r)
  BY <1>1, <1>2, <1>3, <1>4 DEF Write, Ends
<1>6. row' = [row EXCEPT ![a] = r]
  BY DEF FinishLocally, Record
<1> HIDE DEF r
<1> QED BY <1>5, <1>6, OneRow DEF OInv

(****************************************************************************)
(* Entry opens a row, ends a pending one, sends an INITIATED one or keeps   *)
(* its outcome.                                                             *)
(****************************************************************************)
LEMMA EntryWrites ==
  ASSUME OInv, NEW a \in Attempts, Entry(a)
  PROVE  Writes
<1> DEFINE q == row[a]
<1>0. IInv /\ q \in AttemptRow /\ row \in [Attempts -> AttemptRow]
  BY DEF OInv, IInv, TypeOK
<1>t. "quality_terminated" \in Terminal /\ "terminated" \in Terminal
  BY DEF Terminal
<1>1. ASSUME NEW ip \in ArrivalIPs, NEW reserves \in BOOLEAN,
             EnterSurvey(a, ip, reserves)
      PROVE  Writes
  <2>1. Write(a, q, NewRow(ip))
    BY <1>1 DEF EnterSurvey, Write, Opens, NewRow
  <2> QED BY <1>0, <1>1, <2>1, OneRow DEF EnterSurvey
<1>2. CASE RejectDuplicate(a)
  <2>1. CASE StillInitiated(a)
    BY <1>2, <1>t, <2>1, FinishWrites DEF RejectDuplicate
  <2>2. CASE ~StillInitiated(a)
    BY <1>2, <2>2, NoRow DEF RejectDuplicate
  <2> QED BY <2>1, <2>2
<1>3. CASE EntryRequestDies(a)
  BY <1>3, NoRow DEF EntryRequestDies
<1>4. ASSUME NEW ip \in EntryIPs, BackfillEntryIP(a, ip) PROVE Writes
  <2> DEFINE r == [q EXCEPT !.ip = ip]
  <2>1. Write(a, q, r)
    BY <1>0 DEF Write, Keeps, AttemptRow
  <2>2. row' = [row EXCEPT ![a] = r]
    BY <1>0, <1>4 DEF BackfillEntryIP
  <2> QED BY <1>0, <2>1, <2>2, OneRow
<1>5. CASE RejectCountry(a)
  BY <1>5, <1>t, FinishWrites DEF RejectCountry
<1>6. CASE RejectPrescreener(a)
  BY <1>6, <1>t, FinishWrites DEF RejectPrescreener
<1>7. ASSUME NEW o \in Terminal, RejectInvite(a, o) PROVE Writes
  BY <1>7, FinishWrites DEF RejectInvite
<1>8. CASE SubmitPrescreener(a)
  <2> DEFINE r == [q EXCEPT !.status = "redirected", !.redirected = TRUE,
                            !.invited = TRUE]
  <2>1. Write(a, q, r)
    BY <1>0, <1>8 DEF SubmitPrescreener, StillInitiated, Write, Sends, AttemptRow
  <2>2. row' = [row EXCEPT ![a] = r]
    BY <1>0, <1>8 DEF SubmitPrescreener
  <2> QED BY <1>0, <2>1, <2>2, OneRow
<1>9. CASE ReleasePreparedInvite(a)
  <2> DEFINE r == [q EXCEPT !.status = "redirected", !.redirected = TRUE]
  <2>1. Write(a, q, r)
    BY <1>0, <1>9 DEF ReleasePreparedInvite, StillInitiated, Write, Sends, AttemptRow
  <2>2. row' = [row EXCEPT ![a] = r]
    BY <1>0, <1>9 DEF ReleasePreparedInvite
  <2> QED BY <1>0, <2>1, <2>2, OneRow
<1> QED BY <1>1, <1>2, <1>3, <1>4, <1>5, <1>6, <1>7, <1>8, <1>9 DEF Entry

(****************************************************************************)
(* A callback ends a journey that has no callback, keeps the outcome of one *)
(* that has, or revises it where RFG's server or a verified Toluna source   *)
(* may; it verifies RFG and Toluna rows together with their outcome only.   *)
(****************************************************************************)
LEMMA CallbackWrites ==
  ASSUME OInv, NEW a \in Attempts, Callback(a)
  PROVE  Writes
<1> DEFINE q == row[a]
<1>0. /\ IInv
      /\ q \in AttemptRow
      /\ row \in [Attempts -> AttemptRow]
      /\ q.callbackAt <=> q.status \in Terminal
      /\ q.verified => q.status \in Terminal
  BY DEF OInv, IInv, TypeOK, HoldFollowsJourney, OutcomeOK
<1>p. /\ ProviderOf[a] \in {"innovatemr", "biobrain", "dynamic"} =>
           ~Revisable(a) /\ \A s : VerifiedSource(a, s)
      /\ Pending \cap Terminal = {}
  BY DEF Revisable, VerifiedSource, Pending, Terminal
<1>1. ASSUME NEW o \in Terminal, InnovateCallback(a, o) PROVE Writes
  <2> DEFINE src   == IF HashRequired THEN "signed_redirect" ELSE "browser_callback"
             first == IF q.callbackAt THEN q
                      ELSE [Ended(q, o, src) EXCEPT !.exit = "ending"]
             r     == IF HashRequired
                        THEN [first EXCEPT !.verified = TRUE,
                                           !.exit = IF q.callbackAt THEN "later" ELSE @]
                        ELSE first
  <2>1. row' = [row EXCEPT ![a] = r]
    BY <1>1 DEF InnovateCallback, Record
  <2>2. ~Revisable(a) /\ \A s : VerifiedSource(a, s)
    BY <1>1, <1>p DEF InnovateCallback
  <2>3. CASE q.callbackAt
    <3>1. first = q
      BY <2>3
    <3>2. r.status = q.status /\ r.source = q.source /\ r.redirected = q.redirected
      <4> HIDE DEF first
      <4> QED BY <1>0, <3>1 DEF AttemptRow
    <3> HIDE DEF r
    <3> QED BY <1>0, <2>1, <2>2, <2>3, <3>2, OneRow DEF Write, Keeps
  <2>4. CASE ~q.callbackAt
    <3>1. r.status = o
      <4>1. first = [q EXCEPT !.status = o, !.source = src, !.callbackAt = TRUE,
                              !.exit = "ending"]
        BY <1>0, <2>4 DEF Ended, AttemptRow
      <4>2. first.status = o /\ [first EXCEPT !.verified = TRUE, !.exit =
                  IF q.callbackAt THEN "later" ELSE @].status = o
        <5> HIDE DEF src
        <5> QED BY <1>0, <4>1 DEF AttemptRow
      <4> QED BY <4>2
    <3> HIDE DEF r
    <3> QED BY <1>0, <2>1, <2>2, <2>4, <3>1, OneRow DEF Write, Ends
  <2> QED BY <2>3, <2>4
<1>2. ASSUME NEW o \in Terminal, BiobrainCallback(a, o) PROVE Writes
  <2> DEFINE src == IF HashRequired THEN "signed_redirect" ELSE "browser_callback"
             r   == [Ended(q, o, src) EXCEPT !.exit = "ending",
                       !.verified = IF HashRequired THEN TRUE ELSE @]
  <2>1. row' = [row EXCEPT ![a] = r]
    BY <1>2 DEF BiobrainCallback, Record
  <2>2. r.status = o
    <3> HIDE DEF src
    <3> QED BY <1>0 DEF Ended, AttemptRow
  <2>3. q.status \notin Terminal /\ \A s : VerifiedSource(a, s)
    BY <1>0, <1>2, <1>p DEF BiobrainCallback, Unanswered
  <2> HIDE DEF r
  <2> QED BY <1>0, <2>1, <2>2, <2>3, OneRow DEF Write, Ends
<1>3. ASSUME NEW o \in Terminal, UnsignedCallback(a, o) PROVE Writes
  <2>1. CASE q.callbackAt
    <3>1. row' = [row EXCEPT ![a] = q]
      BY <1>3, <2>1 DEF UnsignedCallback, Record
    <3> QED BY <1>0, <3>1, NoRow
  <2>2. CASE ~q.callbackAt
    <3> DEFINE r == [Ended(q, o, "browser_callback") EXCEPT !.exit = "ending"]
    <3>1. row' = [row EXCEPT ![a] = r]
      BY <1>3, <2>2 DEF UnsignedCallback, Record
    <3>2. r.status = o /\ ~r.verified
      BY <1>0, <2>2 DEF Ended, AttemptRow
    <3> HIDE DEF r
    <3> QED BY <1>0, <2>2, <3>1, <3>2, OneRow DEF Write, Ends
  <2> QED BY <2>1, <2>2
<1>4. ASSUME NEW o \in Terminal, TolunaCallback(a, o) PROVE Writes
  <2> DEFINE r == [Ended(q, o, "toluna_callback") EXCEPT !.verified = TRUE,
                                                         !.exit = "ending"]
  <2>1. row' = [row EXCEPT ![a] = r]
    BY <1>4 DEF TolunaCallback, Record
  <2>2. r.status = o /\ r.source = "toluna_callback"
    BY <1>0 DEF Ended, AttemptRow
  <2>3. Revisable(a) /\ VerifiedSource(a, "toluna_callback")
    BY <1>4 DEF TolunaCallback, Revisable, VerifiedSource
  <2> HIDE DEF r
  <2> QED BY <1>0, <2>1, <2>2, <2>3, OneRow DEF Write, Ends
<1>5. ASSUME NEW o \in Terminal, RfgServerCallback(a, o) PROVE Writes
  <2> DEFINE r == [Ended(q, o, "rfg_callback") EXCEPT !.verified = TRUE]
  <2>1. row' = [row EXCEPT ![a] = r]
    BY <1>5 DEF RfgServerCallback, Record
  <2>2. r.status = o /\ r.source = "rfg_callback"
    BY <1>0 DEF Ended, AttemptRow
  <2>3. Revisable(a) /\ VerifiedSource(a, "rfg_callback")
    BY <1>5 DEF RfgServerCallback, Revisable, VerifiedSource
  <2> HIDE DEF r
  <2> QED BY <1>0, <2>1, <2>2, <2>3, OneRow DEF Write, Ends
<1>6. CASE RfgBrowserReturn(a)
  <2> DEFINE r == [q EXCEPT !.exit = "later"]
  <2>1. Write(a, q, r)
    BY <1>0 DEF Write, Keeps, AttemptRow
  <2>2. row' = [row EXCEPT ![a] = r]
    BY <1>0, <1>6 DEF RfgBrowserReturn
  <2> QED BY <1>0, <2>1, <2>2, OneRow
<1>7. ASSUME NEW e \in Events, StoreNotice(a, e) PROVE Writes
  BY <1>7, NoRow DEF StoreNotice
<1>8. ASSUME NEW e \in Events, NEW o \in Terminal, ApplyNotice(a, e, o) PROVE Writes
  <2> DEFINE r == [Ended(q, o, "toluna_notification") EXCEPT !.verified = TRUE]
  <2>1. row' = [row EXCEPT ![a] = r]
    BY <1>8 DEF ApplyNotice, Record
  <2>2. r.status = o /\ r.source = "toluna_notification"
    BY <1>0 DEF Ended, AttemptRow
  <2>3. ProviderOf[a] = "toluna"
    BY <1>8 DEF ApplyNotice, OInv, OutcomeOK, FeedsOK
  <2>4. Revisable(a) /\ VerifiedSource(a, "toluna_notification")
    BY <2>3 DEF Revisable, VerifiedSource
  <2> HIDE DEF r
  <2> QED BY <1>0, <2>1, <2>2, <2>4, OneRow DEF Write, Ends
<1> QED BY <1>1, <1>2, <1>3, <1>4, <1>5, <1>6, <1>7, <1>8 DEF Callback

(****************************************************************************)
(* The poll looks at attempts of two providers only, and ends none that has *)
(* its callback.                                                            *)
(****************************************************************************)
LEMMA PollWrites ==
  ASSUME OInv, Poll
  PROVE  Writes
<1>1. PICK m \in Answer : \/ FetchTransaction(m)
                          \/ ApplyTransaction(m)
                          \/ DropTransaction(m)
  BY DEF Poll
<1> DEFINE a == m.attempt
           q == row[a]
<1>2. CASE FetchTransaction(m) \/ DropTransaction(m)
  BY <1>2, NoRow DEF FetchTransaction, DropTransaction
<1>3. CASE ApplyTransaction(m)
  <2> DEFINE known == IF q.ip = NoIP THEN [q EXCEPT !.ip = m.ip] ELSE q
             ends  == m.outcome # "none" /\ Unanswered(q)
             r     == IF ends
                        THEN [Ended(known, m.outcome, "innovatemr_transaction")
                                EXCEPT !.verified = m.valid]
                        ELSE known
  <2>1. /\ IInv
        /\ a \in Attempts
        /\ q \in AttemptRow
        /\ m.outcome \in {"none"} \cup Terminal
    BY DEF OInv, IInv, TypeOK, Answer
  <2>2. \A s : VerifiedSource(a, s)
    BY <1>3 DEF ApplyTransaction, OInv, OutcomeOK, FeedsOK, VerifiedSource
  <2>3. row' = [row EXCEPT ![a] = r]
    BY <1>3 DEF ApplyTransaction, Record
  <2>4. /\ known \in AttemptRow
        /\ known.status = q.status /\ known.source = q.source
        /\ known.redirected = q.redirected /\ known.verified = q.verified
    BY <2>1 DEF AttemptRow, Answer
  <2>5. CASE ends
    <3>1. r.status = m.outcome
      <4> HIDE DEF known
      <4> QED BY <2>1, <2>4, <2>5 DEF Ended, AttemptRow
    <3>2. m.outcome \in Terminal /\ q.status \notin Terminal
      BY <2>1, <2>5 DEF Unanswered, Pending, Terminal
    <3> HIDE DEF r
    <3> QED BY <2>1, <2>2, <2>3, <3>1, <3>2, OneRow DEF Write, Ends
  <2>6. CASE ~ends
    <3>1. r = known
      BY <2>6
    <3> HIDE DEF r, known
    <3> QED BY <2>1, <2>3, <2>4, <3>1, OneRow DEF Write, Keeps
  <2> QED BY <2>5, <2>6
<1> QED BY <1>1, <1>2, <1>3

(****************************************************************************)
(* Every step writes one row in one of the four ways, or none.              *)
(****************************************************************************)
LEMMA NextWrites ==
  ASSUME OInv, [Next]_vars
  PROVE  Writes
<1>1. ASSUME NEW a \in Attempts, TtlElapses(a) PROVE Writes
  BY <1>1, NoRow DEF TtlElapses
<1>2. ASSUME NEW w \in Workers, Expiry(w) PROVE Writes
  BY <1>2, NoRow DEF Expiry, ListDue, ExpireListed, KillExpiryRun
<1>3. CASE UNCHANGED vars
  BY <1>3, NoRow DEF vars
<1> QED BY <1>1, <1>2, <1>3, EntryWrites, CallbackWrites, PollWrites DEF Next

(****************************************************************************)
(* The poll fetches, and notices are stored, for their providers only.      *)
(****************************************************************************)
LEMMA NextFeeds ==
  ASSUME OInv, [Next]_vars
  PROVE  FeedsOK'
<1> USE DEF journeyVars, expiryVars
<1>0. FeedsOK /\ notices \in [Attempts \X Events -> {"absent", "stored", "applied"}]
  BY DEF OInv, OutcomeOK, IInv, TypeOK
<1>1. CASE UNCHANGED <<answers, notices>>
  BY <1>0, <1>1 DEF FeedsOK
<1>2. ASSUME NEW a \in Attempts, Entry(a) PROVE UNCHANGED <<answers, notices>>
  BY <1>2 DEF Entry, EnterSurvey, RejectDuplicate, EntryRequestDies, BackfillEntryIP,
              RejectCountry, RejectPrescreener, RejectInvite, SubmitPrescreener,
              ReleasePreparedInvite
<1>3. ASSUME NEW a \in Attempts, Callback(a) PROVE FeedsOK'
  <2>1. ASSUME NEW e \in Events, StoreNotice(a, e) PROVE FeedsOK'
    BY <1>0, <2>1 DEF StoreNotice, FeedsOK
  <2>2. ASSUME NEW e \in Events, NEW o \in Terminal, ApplyNotice(a, e, o)
        PROVE  FeedsOK'
    BY <1>0, <2>2 DEF ApplyNotice, FeedsOK
  <2>3. ASSUME NEW o \in Terminal,
               \/ InnovateCallback(a, o) \/ BiobrainCallback(a, o)
               \/ UnsignedCallback(a, o) \/ TolunaCallback(a, o)
               \/ RfgServerCallback(a, o)
        PROVE  UNCHANGED <<answers, notices>>
    BY <2>3 DEF InnovateCallback, BiobrainCallback, UnsignedCallback, TolunaCallback,
                RfgServerCallback
  <2>4. CASE RfgBrowserReturn(a)
    BY <1>1, <2>4 DEF RfgBrowserReturn
  <2> QED BY <1>1, <1>3, <2>1, <2>2, <2>3, <2>4 DEF Callback
<1>4. CASE Poll
  <2>1. PICK m \in Answer : \/ FetchTransaction(m)
                            \/ ApplyTransaction(m)
                            \/ DropTransaction(m)
    BY <1>4 DEF Poll
  <2>2. UNCHANGED notices
    BY <2>1 DEF FetchTransaction, ApplyTransaction, DropTransaction
  <2>3. CASE FetchTransaction(m)
    BY <1>0, <2>2, <2>3 DEF FetchTransaction, FeedsOK
  <2>4. CASE ApplyTransaction(m) \/ DropTransaction(m)
    <3>1. answers' \subseteq answers
      BY <2>4 DEF ApplyTransaction, DropTransaction
    <3> QED BY <1>0, <2>2, <3>1 DEF FeedsOK
  <2> QED BY <2>1, <2>3, <2>4
<1>5. ASSUME NEW a \in Attempts, TtlElapses(a) PROVE UNCHANGED <<answers, notices>>
  BY <1>5 DEF TtlElapses
<1>6. ASSUME NEW w \in Workers, Expiry(w) PROVE UNCHANGED <<answers, notices>>
  BY <1>6 DEF Expiry, ListDue, ExpireListed, KillExpiryRun
<1>7. CASE UNCHANGED vars
  BY <1>1, <1>7 DEF vars
<1> QED BY <1>1, <1>2, <1>3, <1>4, <1>5, <1>6, <1>7 DEF Next

(****************************************************************************)
(* The starting rows are unverified and nobody has been sent on.            *)
(****************************************************************************)
LEMMA InitOutcome == Init => OutcomeOK
BY DEF Init, OutcomeOK, FeedsOK, NewRow

(****************************************************************************)
(* The four kinds of write keep the strengthened invariant.                 *)
(****************************************************************************)
LEMMA OutcomeKept ==
  ASSUME OInv, IInv', Writes, FeedsOK'
  PROVE  OInv'
<1> SUFFICES ASSUME NEW a \in Attempts
             PROVE  /\ row'[a].verified => /\ row'[a].status \in Terminal
                                           /\ VerifiedSource(a, row'[a].source)
                    /\ row'[a].status \in {"absent", "initiated"} =>
                         ~row'[a].redirected
  BY DEF OInv, OutcomeOK
<1>1. /\ row[a].verified => /\ row[a].status \in Terminal
                            /\ VerifiedSource(a, row[a].source)
      /\ row[a].status \in {"absent", "initiated"} => ~row[a].redirected
  BY DEF OInv, OutcomeOK
<1>2. {"absent", "initiated", "redirected"} \cap Terminal = {}
  BY DEF Terminal
<1>3. CASE Opens(row[a], row'[a])
  BY <1>3 DEF Opens
<1>4. CASE Keeps(a, row[a], row'[a])
  BY <1>1, <1>4 DEF Keeps, Revisable, VerifiedSource
<1>5. CASE Sends(row[a], row'[a])
  BY <1>1, <1>2, <1>5 DEF Sends
<1>6. CASE Ends(a, row[a], row'[a])
  BY <1>2, <1>6 DEF Ends
<1> QED BY <1>3, <1>4, <1>5, <1>6 DEF Writes, Write

LEMMA OutcomeInvariance == Spec => []OInv
<1>1. Init => OInv
  BY InitIInv, InitOutcome DEF OInv
<1>2. OInv /\ [Next]_vars => OInv'
  <2> SUFFICES ASSUME OInv, [Next]_vars PROVE OInv'
    OBVIOUS
  <2>1. IInv'
    BY NextShape, ShapeInv DEF OInv
  <2> QED BY <2>1, NextWrites, NextFeeds, OutcomeKept
<1> QED BY <1>1, <1>2, PTL DEF Spec

-----------------------------------------------------------------------------
(****************************************************************************)
(* Browser callbacks and the poll: whichever ends the journey first stands, *)
(* for every provider whose outcome is not revised by a server.             *)
(****************************************************************************)
THEOREM FirstOutcomeCorrect == Spec => FirstOutcomeStands
<1>1. OInv /\ [Next]_vars =>
        [\A a \in Attempts :
           (ProviderOf[a] \in {"innovatemr", "biobrain", "dynamic"}
              /\ row[a].status \in Terminal)
           => /\ row'[a].status = row[a].status
              /\ row'[a].source = row[a].source]_vars
  <2> SUFFICES ASSUME OInv, [Next]_vars, NEW a \in Attempts,
                      ProviderOf[a] \in {"innovatemr", "biobrain", "dynamic"},
                      row[a].status \in Terminal
               PROVE  row'[a].status = row[a].status /\ row'[a].source = row[a].source
    OBVIOUS
  <2>1. Write(a, row[a], row'[a])
    BY NextWrites DEF Writes
  <2>2. ~Revisable(a) /\ row[a].status \notin {"absent", "initiated"}
    BY DEF Revisable, Terminal
  <2> QED BY <2>1, <2>2 DEF Write, Opens, Keeps, Sends, Ends
<1> QED BY <1>1, OutcomeInvariance, PTL DEF Spec, FirstOutcomeStands

(****************************************************************************)
(* A respondent is sent on once, from an INITIATED row, and no handler      *)
(* reopens an ended journey.                                                *)
(****************************************************************************)
THEOREM SentOnceCorrect == Spec => SentOnce
<1>1. OInv /\ [Next]_vars =>
        [\A a \in Attempts :
           /\ row'[a].status = "redirected" /\ row[a].status # "redirected"
                => row[a].status = "initiated" /\ ~row[a].redirected
           /\ row[a].status \in Terminal => row'[a].status \in Terminal]_vars
  <2> SUFFICES ASSUME OInv, [Next]_vars, NEW a \in Attempts
               PROVE  /\ row'[a].status = "redirected" /\ row[a].status # "redirected"
                           => row[a].status = "initiated" /\ ~row[a].redirected
                      /\ row[a].status \in Terminal => row'[a].status \in Terminal
    OBVIOUS
  <2>1. Write(a, row[a], row'[a])
    BY NextWrites DEF Writes
  <2>2. row[a].status = "initiated" => ~row[a].redirected
    BY DEF OInv, OutcomeOK
  <2>3. {"absent", "initiated", "redirected"} \cap Terminal = {}
    BY DEF Terminal
  <2> QED BY <2>1, <2>2, <2>3 DEF Write, Opens, Keeps, Sends, Ends
<1> QED BY <1>1, OutcomeInvariance, PTL DEF Spec, SentOnce

(****************************************************************************)
(* The verification mark of an RFG or Toluna row never stands beside an     *)
(* outcome that another source wrote.                                       *)
(****************************************************************************)
THEOREM VerifiedCorrect == Spec => []VerifiedOutcomeHasVerifiedSource
<1>1. OInv => VerifiedOutcomeHasVerifiedSource
  BY DEF OInv, OutcomeOK, VerifiedSource, VerifiedOutcomeHasVerifiedSource
<1> QED BY <1>1, OutcomeInvariance, PTL

-----------------------------------------------------------------------------
(****************************************************************************)
(* One redirect per entry address.  A claim made when an attempt enters has *)
(* to hold until the attempt may be sent, through the death of the request  *)
(* that should reject it, late addresses and early callbacks: of two        *)
(* attempts that entered one survey from one known address, one is barred.  *)
(****************************************************************************)
Known(a) == visit[a] \in {"rejecting", "open", "lost"}

Barred(a) ==
  /\ ~row[a].redirected
  /\ visit[a] \in {"rejecting", "lost"} \/ row[a].status \in Terminal

AddressRow(a) ==
  /\ row[a].status = "absent" <=> visit[a] = "none"
  /\ row[a].status = "redirected" => row[a].redirected
  /\ row[a].status = "initiated" /\ row[a].invited => visit[a] = "no_ip"
  /\ row[a].source = "local_duplicate_ip_guard" => Barred(a)
  /\ Known(a) => row[a].ip # NoIP
  /\ visit[a] \in {"rejecting", "lost"} => ~row[a].redirected

SharedAddress ==
  EnforceUniqueIP =>
    \A a, b \in Attempts :
      /\ a # b /\ SurveyOf[a] = SurveyOf[b]
      /\ Known(a) /\ Known(b) /\ row[a].ip = row[b].ip
      => Barred(a) \/ Barred(b)

AInv ==
  /\ OInv
  /\ \A a \in Attempts : AddressRow(a)
  /\ SharedAddress

(****************************************************************************)
(* A step that opens no attempt keeps who is known, from where, and barred. *)
(****************************************************************************)
Steady(a) ==
  /\ AddressRow(a)'
  /\ Known(a)' <=> Known(a)
  /\ Known(a) => row'[a].ip = row[a].ip
  /\ Barred(a) => Barred(a)'

\* What such a step may do to the row q of a.
KeepsPlace(q, r) ==
  /\ r.status = q.status
  /\ r.source = q.source
  /\ r.redirected = q.redirected
  /\ r.invited = q.invited

SendsOn(a, q, r) ==
  /\ q.status = "initiated" /\ r.status = "redirected"
  /\ r.redirected
  /\ r.source = q.source
  /\ HasRid(a) \/ q.invited

EndsPlace(q, r) ==
  /\ q.status # "absent"
  /\ r.status \in Terminal
  /\ r.redirected = q.redirected
  /\ r.source = "local_duplicate_ip_guard" => q.status = "initiated"

Place(a, q, r) ==
  /\ r.ip = q.ip \/ visit[a] = "no_ip" \/ q.ip = NoIP
  /\ KeepsPlace(q, r) \/ SendsOn(a, q, r) \/ EndsPlace(q, r)

(****************************************************************************)
(* The row keeps its place if the entry request says nothing new, and a     *)
(* respondent whose attempt is barred cannot be sent.                       *)
(****************************************************************************)
LEMMA PlaceSteady ==
  ASSUME AInv, NEW a \in Attempts, Place(a, row[a], row'[a]), visit'[a] = visit[a]
  PROVE  Steady(a)
<1>1. /\ AddressRow(a)
      /\ row[a].status \in {"absent", "initiated"} => ~row[a].redirected
  BY DEF AInv, OInv, OutcomeOK
<1>2. {"absent", "initiated", "redirected"} \cap Terminal = {}
  BY DEF Terminal
<1>3. Known(a)' <=> Known(a)
  BY DEF Known
<1>4. Known(a) => row'[a].ip = row[a].ip
  BY <1>1 DEF Known, AddressRow, Place
<1>5. CASE KeepsPlace(row[a], row'[a])
  <2>1. Barred(a)' <=> Barred(a)
    BY <1>5 DEF Barred, KeepsPlace
  <2>2. AddressRow(a)'
    BY <1>1, <1>3, <1>4, <1>5, <2>1 DEF AddressRow, KeepsPlace
  <2> QED BY <1>3, <1>4, <2>1, <2>2 DEF Steady
<1>6. CASE SendsOn(a, row[a], row'[a])
  <2>1. ~Barred(a) /\ visit[a] \notin {"none", "rejecting", "lost"}
    BY <1>1, <1>2, <1>6 DEF Barred, AddressRow, SendsOn, HasRid
  <2>2. AddressRow(a)'
    BY <1>1, <1>2, <1>3, <1>4, <1>6, <2>1 DEF AddressRow, SendsOn
  <2> QED BY <1>3, <1>4, <2>1, <2>2 DEF Steady
<1>7. CASE EndsPlace(row[a], row'[a])
  <2>1. Barred(a) => Barred(a)'
    BY <1>7 DEF Barred, EndsPlace
  <2>2. row'[a].source = "local_duplicate_ip_guard" => Barred(a)'
    BY <1>1, <1>7 DEF Barred, EndsPlace
  <2>3. AddressRow(a)'
    BY <1>1, <1>2, <1>3, <1>4, <1>7, <2>2 DEF AddressRow, EndsPlace
  <2> QED BY <1>3, <1>4, <2>1, <2>3 DEF Steady
<1> QED BY <1>5, <1>6, <1>7 DEF Place

LEMMA UntouchedSteady ==
  ASSUME AInv, NEW a \in Attempts, row'[a] = row[a], visit'[a] = visit[a]
  PROVE  Steady(a)
<1>1. Place(a, row[a], row'[a])
  BY DEF Place, KeepsPlace
<1> QED BY <1>1, PlaceSteady

\* One row keeps its place and nothing else moves.
LEMMA RowSteady ==
  ASSUME AInv, NEW a \in Attempts, NEW r, row' = [row EXCEPT ![a] = r],
         UNCHANGED visit, Place(a, row[a], r)
  PROVE  \A b \in Attempts : Steady(b)
<1>1. row \in [Attempts -> AttemptRow]
  BY DEF AInv, OInv, IInv, TypeOK
<1>2. row'[a] = r /\ \A b \in Attempts : b # a => row'[b] = row[b]
  BY <1>1
<1>3. Steady(a)
  BY <1>2, PlaceSteady
<1>4. ASSUME NEW b \in Attempts, b # a PROVE Steady(b)
  BY <1>2, <1>4, UntouchedSteady
<1> QED BY <1>3, <1>4

LEMMA NothingSteady ==
  ASSUME AInv, UNCHANGED <<row, visit>>
  PROVE  \A b \in Attempts : Steady(b)
BY UntouchedSteady

(****************************************************************************)
(* The _finish_* transactions end an INITIATED journey.                     *)
(****************************************************************************)
LEMMA FinishPlace ==
  ASSUME AInv, NEW a \in Attempts, NEW o \in Terminal, NEW src,
         FinishLocally(a, o, src)
  PROVE  \E r : row' = [row EXCEPT ![a] = r] /\ Place(a, row[a], r)
                /\ r.status \in Terminal /\ ~r.redirected
<1> DEFINE q == row[a]
           r == [Ended(q, o, src) EXCEPT !.exit = "ending"]
<1>1. q \in AttemptRow /\ q.status = "initiated" /\ ~q.redirected
  BY DEF AInv, OInv, OutcomeOK, IInv, TypeOK, FinishLocally, StillInitiated
<1>2. r.status = o /\ r.redirected = q.redirected /\ r.ip = q.ip
  BY <1>1 DEF Ended, AttemptRow
<1>3. row' = [row EXCEPT ![a] = r]
  BY DEF FinishLocally, Record
<1> HIDE DEF r
<1>4. Place(a, q, r)
  BY <1>1, <1>2 DEF Place, EndsPlace
<1> QED BY <1>1, <1>2, <1>3, <1>4

(****************************************************************************)
(* Entry: RejectDuplicate and the death of the request settle a barred      *)
(* attempt; a late address is recorded only where none was known.           *)
(****************************************************************************)
LEMMA DuplicateSteady ==
  ASSUME AInv, NEW a \in Attempts, RejectDuplicate(a)
  PROVE  \A b \in Attempts : Steady(b)
<1>0. /\ AddressRow(a) /\ visit[a] = "rejecting"
      /\ row[a].status \in {"absent"} \cup Pending \cup Terminal
      /\ row \in [Attempts -> AttemptRow]
      /\ visit \in [Attempts -> Visits]
  BY DEF AInv, OInv, IInv, TypeOK, RejectDuplicate, AttemptRow
<1>1. visit'[a] = "open" /\ \A b \in Attempts \ {a} : visit'[b] = visit[b]
  BY <1>0 DEF RejectDuplicate
<1>2. /\ row'[a].ip = row[a].ip
      /\ row'[a].status \in Terminal
      /\ ~row'[a].redirected
      /\ \A b \in Attempts \ {a} : row'[b] = row[b]
  <2>1. CASE StillInitiated(a)
    <3>1. FinishLocally(a, "quality_terminated", "local_duplicate_ip_guard")
      BY <2>1 DEF RejectDuplicate
    <3>2. PICK r : /\ row' = [row EXCEPT ![a] = r]
                   /\ Place(a, row[a], r)
                   /\ r.status \in Terminal /\ ~r.redirected
      BY <3>1, FinishPlace DEF Terminal
    <3>3. r.ip = row[a].ip
      BY <1>0, <3>2 DEF Place, AddressRow, Known
    <3> QED BY <1>0, <3>2, <3>3
  <2>2. CASE ~StillInitiated(a)
    <3>1. UNCHANGED row
      BY <2>2 DEF RejectDuplicate
    <3>2. ~row[a].redirected /\ row[a].status \in Terminal
      BY <1>0, <2>2 DEF AddressRow, StillInitiated, Pending
    <3> QED BY <3>1, <3>2
  <2> QED BY <2>1, <2>2
<1>3. Barred(a)' /\ Known(a)' /\ Known(a)
  BY <1>0, <1>1, <1>2 DEF Barred, Known
<1>4. row'[a].status \notin {"absent", "initiated", "redirected"}
  BY <1>2 DEF Terminal
<1>5. AddressRow(a)'
  BY <1>0, <1>1, <1>2, <1>3, <1>4 DEF AddressRow
<1>6. Steady(a)
  BY <1>2, <1>3, <1>5 DEF Steady
<1>7. ASSUME NEW b \in Attempts, b # a PROVE Steady(b)
  BY <1>1, <1>2, <1>7, UntouchedSteady
<1> QED BY <1>6, <1>7

LEMMA DeathSteady ==
  ASSUME AInv, NEW a \in Attempts, EntryRequestDies(a)
  PROVE  \A b \in Attempts : Steady(b)
<1>1. AddressRow(a) /\ visit[a] = "rejecting" /\ UNCHANGED row
  BY DEF AInv, EntryRequestDies
<1>2. visit'[a] = "lost" /\ \A b \in Attempts \ {a} : visit'[b] = visit[b]
  BY DEF AInv, OInv, IInv, TypeOK, EntryRequestDies
<1>3. Known(a) /\ Known(a)' /\ Barred(a)'
  BY <1>1, <1>2 DEF Known, Barred, AddressRow
<1>4. AddressRow(a)'
  BY <1>1, <1>2, <1>3 DEF AddressRow, Known
<1>5. Steady(a)
  BY <1>1, <1>3, <1>4 DEF Steady
<1>6. ASSUME NEW b \in Attempts, b # a PROVE Steady(b)
  BY <1>1, <1>2, <1>6, UntouchedSteady
<1> QED BY <1>5, <1>6

LEMMA EntrySteady ==
  ASSUME AInv, NEW a \in Attempts, Entry(a)
  PROVE  \/ \A b \in Attempts : Steady(b)
         \/ \E ip \in ArrivalIPs, reserves \in BOOLEAN : EnterSurvey(a, ip, reserves)
<1> USE DEF journeyVars
<1> DEFINE q == row[a]
           Done == \A b \in Attempts : Steady(b)
<1>0. q \in AttemptRow /\ row \in [Attempts -> AttemptRow]
  BY DEF AInv, OInv, IInv, TypeOK
<1>t. "quality_terminated" \in Terminal /\ "terminated" \in Terminal
  BY DEF Terminal
<1>f. ASSUME NEW o \in Terminal, NEW src, FinishLocally(a, o, src), UNCHANGED visit
      PROVE  Done
  <2>1. PICK r : row' = [row EXCEPT ![a] = r] /\ Place(a, q, r)
    BY <1>f, FinishPlace
  <2> HIDE DEF q
  <2> QED BY <1>f, <2>1, RowSteady DEF q
<1>1. CASE RejectDuplicate(a)
  BY <1>1, DuplicateSteady
<1>2. CASE EntryRequestDies(a)
  BY <1>2, DeathSteady
<1>3. ASSUME NEW ip \in EntryIPs, BackfillEntryIP(a, ip) PROVE Done
  <2> DEFINE r == [q EXCEPT !.ip = ip]
  <2>1. Place(a, q, r)
    BY <1>0, <1>3 DEF BackfillEntryIP, Place, KeepsPlace, AttemptRow
  <2>2. row' = [row EXCEPT ![a] = r] /\ UNCHANGED visit
    BY <1>0, <1>3 DEF BackfillEntryIP
  <2> HIDE DEF r
  <2> QED BY <2>1, <2>2, RowSteady
<1>4. CASE RejectCountry(a)
  BY <1>4, <1>t, <1>f DEF RejectCountry
<1>5. CASE RejectPrescreener(a)
  BY <1>5, <1>t, <1>f DEF RejectPrescreener
<1>6. ASSUME NEW o \in Terminal, RejectInvite(a, o) PROVE Done
  BY <1>6, <1>f DEF RejectInvite
<1>7. CASE SubmitPrescreener(a)
  <2> DEFINE r == [q EXCEPT !.status = "redirected", !.redirected = TRUE,
                            !.invited = TRUE]
  <2>1. Place(a, q, r)
    BY <1>0, <1>7 DEF SubmitPrescreener, StillInitiated, Place, SendsOn, AttemptRow
  <2>2. row' = [row EXCEPT ![a] = r] /\ UNCHANGED visit
    BY <1>0, <1>7 DEF SubmitPrescreener
  <2> HIDE DEF r
  <2> QED BY <2>1, <2>2, RowSteady
<1>8. CASE ReleasePreparedInvite(a)
  <2> DEFINE r == [q EXCEPT !.status = "redirected", !.redirected = TRUE]
  <2>1. Place(a, q, r)
    BY <1>0, <1>8 DEF ReleasePreparedInvite, StillInitiated, Place, SendsOn, AttemptRow
  <2>2. row' = [row EXCEPT ![a] = r] /\ UNCHANGED visit
    BY <1>0, <1>8 DEF ReleasePreparedInvite
  <2> HIDE DEF r
  <2> QED BY <2>1, <2>2, RowSteady
<1> HIDE DEF Done
<1> QED BY <1>1, <1>2, <1>3, <1>4, <1>5, <1>6, <1>7, <1>8 DEF Entry, Done

(****************************************************************************)
(* A callback leaves the address alone and sends nobody on.                 *)
(****************************************************************************)
LEMMA EndedPlace ==
  ASSUME NEW a \in Attempts, NEW q \in AttemptRow, q.status # "absent",
         NEW o \in Terminal, NEW src \in Sources \ {"local_duplicate_ip_guard"},
         NEW r, r.status = o, r.source = src, r.redirected = q.redirected, r.ip = q.ip
  PROVE  Place(a, q, r)
BY DEF Place, EndsPlace

LEMMA CallbackSteady ==
  ASSUME AInv, NEW a \in Attempts, Callback(a)
  PROVE  \A b \in Attempts : Steady(b)
<1> USE DEF journeyVars
<1> DEFINE q    == row[a]
           Done == \A b \in Attempts : Steady(b)
<1>0. q \in AttemptRow /\ row \in [Attempts -> AttemptRow] /\ q = row[a]
  BY DEF AInv, OInv, IInv, TypeOK
<1>r. ASSUME NEW r, row' = [row EXCEPT ![a] = r], UNCHANGED visit, Place(a, q, r)
      PROVE  Done
  BY <1>r, RowSteady
<1>k. Place(a, q, q)
  BY DEF Place, KeepsPlace
<1> HIDE DEF q, Done
<1>1. ASSUME NEW o \in Terminal, InnovateCallback(a, o) PROVE Done
  <2> DEFINE src   == IF HashRequired THEN "signed_redirect" ELSE "browser_callback"
             first == IF q.callbackAt THEN q
                      ELSE [Ended(q, o, src) EXCEPT !.exit = "ending"]
             r     == IF HashRequired
                        THEN [first EXCEPT !.verified = TRUE,
                                           !.exit = IF q.callbackAt THEN "later" ELSE @]
                        ELSE first
  <2>1. row' = [row EXCEPT ![a] = r] /\ UNCHANGED visit /\ q.status # "absent"
    BY <1>1 DEF InnovateCallback, Record, Exists, q
  <2>2. src \in Sources \ {"local_duplicate_ip_guard"}
    BY DEF Sources
  <2>3. CASE q.callbackAt
    <3>1. first = q
      BY <2>3
    <3>2. KeepsPlace(q, r) /\ r.ip = q.ip
      <4> HIDE DEF first
      <4> QED BY <1>0, <3>1 DEF AttemptRow, KeepsPlace
    <3> HIDE DEF r
    <3> QED BY <1>r, <2>1, <3>2 DEF Place
  <2>4. CASE ~q.callbackAt
    <3>1. /\ r.status = o /\ r.source = src
          /\ r.redirected = q.redirected /\ r.ip = q.ip
      <4>1. first = [q EXCEPT !.status = o, !.source = src, !.callbackAt = TRUE,
                              !.exit = "ending"]
        BY <1>0, <2>4 DEF Ended, AttemptRow
      <4> HIDE DEF src, first
      <4>2. first \in AttemptRow
        BY <1>0, <2>2, <4>1 DEF AttemptRow
      <4>3. /\ first.status = o /\ first.source = src
            /\ first.redirected = q.redirected /\ first.ip = q.ip
        BY <1>0, <4>1 DEF AttemptRow
      <4> QED BY <4>2, <4>3 DEF AttemptRow
    <3> HIDE DEF r, src
    <3> QED BY <1>0, <1>r, <2>1, <2>2, <3>1, EndedPlace
  <2> QED BY <2>3, <2>4
<1>2. ASSUME NEW o \in Terminal, BiobrainCallback(a, o) PROVE Done
  <2> DEFINE src == IF HashRequired THEN "signed_redirect" ELSE "browser_callback"
             r   == [Ended(q, o, src) EXCEPT !.exit = "ending",
                       !.verified = IF HashRequired THEN TRUE ELSE @]
  <2>1. row' = [row EXCEPT ![a] = r] /\ UNCHANGED visit /\ q.status # "absent"
    BY <1>2 DEF BiobrainCallback, Record, Unanswered, Pending, q
  <2>2. src \in Sources \ {"local_duplicate_ip_guard"}
    BY DEF Sources
  <2> HIDE DEF src
  <2>3. /\ r.status = o /\ r.source = src
        /\ r.redirected = q.redirected /\ r.ip = q.ip
    BY <1>0 DEF Ended, AttemptRow
  <2> HIDE DEF r
  <2> QED BY <1>0, <1>r, <2>1, <2>2, <2>3, EndedPlace
<1>3. ASSUME NEW o \in Terminal, UnsignedCallback(a, o) PROVE Done
  <2>1. CASE q.callbackAt
    BY <1>3, <1>k, <1>r, <2>1 DEF UnsignedCallback, Record, q
  <2>2. CASE ~q.callbackAt
    <3> DEFINE r == [Ended(q, o, "browser_callback") EXCEPT !.exit = "ending"]
    <3>1. row' = [row EXCEPT ![a] = r] /\ UNCHANGED visit /\ q.status # "absent"
      BY <1>3, <2>2 DEF UnsignedCallback, Record, Exists, q
    <3>2. /\ r.status = o /\ r.source = "browser_callback"
          /\ r.redirected = q.redirected /\ r.ip = q.ip
      BY <1>0 DEF Ended, AttemptRow
    <3> HIDE DEF r
    <3> QED BY <1>0, <1>r, <3>1, <3>2, EndedPlace DEF Sources
  <2> QED BY <2>1, <2>2
<1>4. ASSUME NEW o \in Terminal, TolunaCallback(a, o) PROVE Done
  <2> DEFINE r == [Ended(q, o, "toluna_callback") EXCEPT !.verified = TRUE,
                                                         !.exit = "ending"]
  <2>1. row' = [row EXCEPT ![a] = r] /\ UNCHANGED visit /\ q.status # "absent"
    BY <1>4 DEF TolunaCallback, Record, Exists, q
  <2>2. /\ r.status = o /\ r.source = "toluna_callback"
        /\ r.redirected = q.redirected /\ r.ip = q.ip
    BY <1>0 DEF Ended, AttemptRow
  <2> HIDE DEF r
  <2> QED BY <1>0, <1>r, <2>1, <2>2, EndedPlace DEF Sources
<1>5. ASSUME NEW o \in Terminal, RfgServerCallback(a, o) PROVE Done
  <2> DEFINE r == [Ended(q, o, "rfg_callback") EXCEPT !.verified = TRUE]
  <2>1. row' = [row EXCEPT ![a] = r] /\ UNCHANGED visit /\ q.status # "absent"
    BY <1>5 DEF RfgServerCallback, Record, Exists, q
  <2>2. /\ r.status = o /\ r.source = "rfg_callback"
        /\ r.redirected = q.redirected /\ r.ip = q.ip
    BY <1>0 DEF Ended, AttemptRow
  <2> HIDE DEF r
  <2> QED BY <1>0, <1>r, <2>1, <2>2, EndedPlace DEF Sources
<1>6. CASE RfgBrowserReturn(a)
  <2> DEFINE r == [q EXCEPT !.exit = "later"]
  <2>1. Place(a, q, r)
    BY <1>0 DEF Place, KeepsPlace, AttemptRow
  <2>2. row' = [row EXCEPT ![a] = r] /\ UNCHANGED visit
    BY <1>0, <1>6 DEF RfgBrowserReturn
  <2> HIDE DEF r
  <2> QED BY <1>0, <2>1, <2>2, RowSteady DEF q, Done
<1>7. ASSUME NEW e \in Events, StoreNotice(a, e) PROVE Done
  BY <1>7, NothingSteady DEF StoreNotice, Done
<1>8. ASSUME NEW e \in Events, NEW o \in Terminal, ApplyNotice(a, e, o) PROVE Done
  <2> DEFINE r == [Ended(q, o, "toluna_notification") EXCEPT !.verified = TRUE]
  <2>1. row' = [row EXCEPT ![a] = r] /\ UNCHANGED visit
    BY <1>8 DEF ApplyNotice, Record, q
  <2>2. /\ r.status = o /\ r.source = "toluna_notification"
        /\ r.redirected = q.redirected /\ r.ip = q.ip
    BY <1>0 DEF Ended, AttemptRow
  <2>3. q.status # "absent"
    BY <1>8 DEF ApplyNotice, AInv, OInv, IInv, NoticesMatched, q
  <2> HIDE DEF r
  <2> QED BY <1>0, <1>r, <2>1, <2>2, <2>3, EndedPlace DEF Sources
<1> QED BY <1>1, <1>2, <1>3, <1>4, <1>5, <1>6, <1>7, <1>8 DEF Callback, Done

LEMMA PollSteady ==
  ASSUME AInv, Poll
  PROVE  \A b \in Attempts : Steady(b)
<1>1. PICK m \in Answer : \/ FetchTransaction(m)
                          \/ ApplyTransaction(m)
                          \/ DropTransaction(m)
  BY DEF Poll
<1>2. CASE FetchTransaction(m) \/ DropTransaction(m)
  BY <1>2, NothingSteady DEF FetchTransaction, DropTransaction
<1>3. CASE ApplyTransaction(m)
  <2> DEFINE a == m.attempt
             q == row[a]
             known == IF q.ip = NoIP THEN [q EXCEPT !.ip = m.ip] ELSE q
             ends  == m.outcome # "none" /\ Unanswered(q)
             r     == IF ends
                        THEN [Ended(known, m.outcome, "innovatemr_transaction")
                                EXCEPT !.verified = m.valid]
                        ELSE known
  <2>1. /\ a \in Attempts
        /\ q \in AttemptRow
        /\ m.outcome \in {"none"} \cup Terminal
    BY DEF AInv, OInv, IInv, TypeOK, Answer
  <2>2. row' = [row EXCEPT ![a] = r] /\ UNCHANGED visit
    BY <1>3 DEF ApplyTransaction, Record
  <2>3. /\ known \in AttemptRow
        /\ known.ip = q.ip \/ q.ip = NoIP
        /\ KeepsPlace(q, known)
    BY <2>1 DEF AttemptRow, Answer, KeepsPlace
  <2>4. Place(a, q, r)
    <3>1. CASE ends
      <4>1. q.status # "absent" /\ m.outcome \in Terminal
        BY <2>1, <3>1 DEF Unanswered, Pending
      <4>2. /\ r.status = m.outcome /\ r.source = "innovatemr_transaction"
            /\ r.redirected = known.redirected /\ r.ip = known.ip
        <5> HIDE DEF known
        <5> QED BY <2>1, <2>3, <3>1 DEF Ended, AttemptRow
      <4> HIDE DEF r, known
      <4> QED BY <2>3, <4>1, <4>2 DEF Place, EndsPlace, KeepsPlace
    <3>2. CASE ~ends
      <4>1. r = known
        BY <3>2
      <4> HIDE DEF r, known
      <4> QED BY <2>3, <4>1 DEF Place
    <3> QED BY <3>1, <3>2
  <2> HIDE DEF r, known
  <2> QED BY <2>1, <2>2, <2>4, RowSteady
<1> QED BY <1>1, <1>2, <1>3

LEMMA NextSteady ==
  ASSUME AInv, [Next]_vars
  PROVE  \/ \A b \in Attempts : Steady(b)
         \/ \E a \in Attempts, ip \in ArrivalIPs, reserves \in BOOLEAN :
              EnterSurvey(a, ip, reserves)
<1> USE DEF journeyVars
<1>1. ASSUME NEW a \in Attempts, TtlElapses(a) PROVE \A b \in Attempts : Steady(b)
  BY <1>1, NothingSteady DEF TtlElapses
<1>2. ASSUME NEW w \in Workers, Expiry(w) PROVE \A b \in Attempts : Steady(b)
  BY <1>2, NothingSteady DEF Expiry, ListDue, ExpireListed, KillExpiryRun
<1>3. CASE UNCHANGED vars
  BY <1>3, NothingSteady DEF vars
<1>4. ASSUME NEW a \in Attempts, Entry(a)
      PROVE  \/ \A b \in Attempts : Steady(b)
             \/ \E ip \in ArrivalIPs, reserves \in BOOLEAN : EnterSurvey(a, ip, reserves)
  BY <1>4, EntrySteady
<1> QED BY <1>1, <1>2, <1>3, <1>4, CallbackSteady, PollSteady DEF Next

(****************************************************************************)
(* A steady step keeps the invariant; entering one does because the claim   *)
(* is looked up in the transaction that creates the row.                    *)
(****************************************************************************)
LEMMA SteadyKept ==
  ASSUME AInv, OInv', \A b \in Attempts : Steady(b)
  PROVE  AInv'
<1>1. \A a \in Attempts : AddressRow(a)'
  BY DEF Steady
<1>2. SharedAddress'
  <2> SUFFICES ASSUME EnforceUniqueIP, NEW a \in Attempts, NEW b \in Attempts,
                      a # b, SurveyOf[a] = SurveyOf[b], Known(a)', Known(b)',
                      row'[a].ip = row'[b].ip
               PROVE  Barred(a)' \/ Barred(b)'
    BY DEF SharedAddress
  <2>1. Known(a) /\ Known(b) /\ row[a].ip = row[b].ip
    BY DEF Steady
  <2>2. Barred(a) \/ Barred(b)
    BY <2>1 DEF AInv, SharedAddress
  <2> QED BY <2>2 DEF Steady
<1> QED BY <1>1, <1>2 DEF AInv

LEMMA EnterKept ==
  ASSUME AInv, OInv', NEW a \in Attempts, NEW ip \in ArrivalIPs,
         NEW reserves \in BOOLEAN, EnterSurvey(a, ip, reserves)
  PROVE  AInv'
<1>0. /\ row \in [Attempts -> AttemptRow]
      /\ visit \in [Attempts -> Visits]
      /\ AddressRow(a)
      /\ ip \in EntryIPs \cup {NoIP}
  BY AttemptAssumption DEF AInv, OInv, IInv, TypeOK
<1>1. /\ row'[a] = NewRow(ip)
      /\ visit'[a] = IF Claimed(a, ip) THEN "rejecting"
                     ELSE IF ip = NoIP THEN "no_ip" ELSE "open"
      /\ row[a].status = "absent" /\ visit[a] = "none"
  BY <1>0 DEF EnterSurvey, AddressRow
<1>2. \A b \in Attempts \ {a} : row'[b] = row[b] /\ visit'[b] = visit[b]
  BY <1>0 DEF EnterSurvey
<1>3. /\ row'[a].status = "initiated" /\ row'[a].source = "none"
      /\ ~row'[a].redirected /\ ~row'[a].invited /\ row'[a].ip = ip
  BY <1>1 DEF NewRow
<1>4. AddressRow(a)'
  <2>1. visit'[a] = "rejecting" => ip # NoIP
    BY <1>1 DEF Claimed
  <2>2. visit'[a] = "open" => ip # NoIP
    BY <1>1
  <2>3. visit'[a] \in {"rejecting", "no_ip", "open"}
    BY <1>1
  <2> QED BY <1>3, <2>1, <2>2, <2>3 DEF AddressRow, Known
<1>5. ASSUME NEW b \in Attempts, b # a PROVE Steady(b)
  BY <1>2, <1>5, UntouchedSteady
<1>6. ASSUME EnforceUniqueIP, NEW b \in Attempts, b # a, SurveyOf[b] = SurveyOf[a],
             Known(a)', Known(b)', row'[a].ip = row'[b].ip
      PROVE  Barred(a)' \/ Barred(b)'
  <2>1. Known(b) /\ AddressRow(b) /\ row[b].ip = ip /\ ip # NoIP
    BY <1>2, <1>3, <1>4, <1>6 DEF AInv, Known, AddressRow
  <2>2. row[b].status # "absent"
    BY <2>1 DEF Known, AddressRow
  <2>3. CASE row[b].source = "local_duplicate_ip_guard"
    BY <1>5, <1>6, <2>1, <2>3 DEF Steady, AddressRow
  <2>4. CASE row[b].source # "local_duplicate_ip_guard"
    <3>1. Claimed(a, ip)
      BY <1>6, <2>1, <2>2, <2>4 DEF Claimed
    <3> QED BY <1>1, <1>3, <3>1 DEF Barred
  <2> QED BY <2>3, <2>4
<1>7. SharedAddress'
  <2> SUFFICES ASSUME EnforceUniqueIP, NEW b \in Attempts, NEW c \in Attempts,
                      b # c, SurveyOf[b] = SurveyOf[c], Known(b)', Known(c)',
                      row'[b].ip = row'[c].ip
               PROVE  Barred(b)' \/ Barred(c)'
    BY DEF SharedAddress
  <2>1. CASE b = a
    BY <1>6, <2>1
  <2>2. CASE c = a
    BY <1>6, <2>2
  <2>3. CASE b # a /\ c # a
    <3>1. Steady(b) /\ Steady(c)
      BY <1>5, <2>3
    <3>2. Known(b) /\ Known(c) /\ row[b].ip = row[c].ip
      BY <3>1 DEF Steady
    <3>3. Barred(b) \/ Barred(c)
      BY <3>2 DEF AInv, SharedAddress
    <3> QED BY <3>1, <3>3 DEF Steady
  <2> QED BY <2>1, <2>2, <2>3
<1>8. \A b \in Attempts : AddressRow(b)'
  BY <1>4, <1>5 DEF Steady
<1> QED BY <1>7, <1>8 DEF AInv

LEMMA InitAddress == Init => (\A a \in Attempts : AddressRow(a)) /\ SharedAddress
<1> SUFFICES ASSUME Init
             PROVE  (\A a \in Attempts : AddressRow(a)) /\ SharedAddress
  OBVIOUS
<1>1. ASSUME NEW a \in Attempts PROVE AddressRow(a) /\ ~Known(a)
  <2>1. \/ /\ row[a] = [NewRow(NoIP) EXCEPT !.invited = TRUE] /\ visit[a] = "no_ip"
        \/ /\ row[a] = [NewRow(NoIP) EXCEPT !.status = "absent"] /\ visit[a] = "none"
    BY DEF Init
  <2> QED BY <2>1 DEF AddressRow, Known, NewRow
<1> QED BY <1>1 DEF SharedAddress

LEMMA AddressInvariance == Spec => []AInv
<1>1. Init => AInv
  BY InitIInv, InitOutcome, InitAddress DEF OInv, AInv
<1>2. AInv /\ [Next]_vars => AInv'
  <2> SUFFICES ASSUME AInv, [Next]_vars PROVE AInv'
    OBVIOUS
  <2>1. OInv /\ IInv
    BY DEF AInv, OInv
  <2>2. IInv'
    BY <2>1, NextShape, ShapeInv
  <2>3. OInv'
    BY <2>1, <2>2, NextWrites, NextFeeds, OutcomeKept
  <2> QED BY <2>3, NextSteady, SteadyKept, EnterKept
<1> QED BY <1>1, <1>2, PTL DEF Spec

(****************************************************************************)
(* While ENFORCE_PROJECT_UNIQUE_ENTRY_IP is on, two attempts that entered   *)
(* one survey from one address are never both sent to the provider.         *)
(****************************************************************************)
THEOREM AddressCorrect == Spec => []OneRedirectPerEntryIP
<1>1. AInv => OneRedirectPerEntryIP
  <2> SUFFICES ASSUME AInv, EnforceUniqueIP, NEW a \in Attempts, NEW b \in Attempts,
                      a # b, SurveyOf[a] = SurveyOf[b], row[a].ip = row[b].ip,
                      visit[a] # "no_ip", visit[b] # "no_ip",
                      row[a].redirected, row[b].redirected
               PROVE  FALSE
    BY DEF OneRedirectPerEntryIP
  <2>1. AddressRow(a) /\ AddressRow(b)
    BY DEF AInv
  <2>2. /\ visit[a] # "none" /\ visit[b] # "none"
        /\ visit[a] \in Visits /\ visit[b] \in Visits
    BY <2>1 DEF AddressRow, AInv, OInv, OutcomeOK, IInv, TypeOK
  <2>3. Known(a) /\ Known(b)
    BY <2>2 DEF Known, Visits
  <2> QED BY <2>3 DEF AInv, SharedAddress, Barred
<1> QED BY <1>1, AddressInvariance, PTL

-----------------------------------------------------------------------------
(****************************************************************************)
(* Toluna's events in any order: TolunaCompletionStands and ClawbackStands  *)
(* for every set of attempts.  Both need that a Toluna row is "finalized"   *)
(* (verified by a Toluna callback or notification) whenever it is completed *)
(* or any notice has been applied to it, for that is what makes the browser *)
(* callback leave it alone.                                                 *)
(****************************************************************************)
TolunaOK ==
  \A a \in Attempts :
    ProviderOf[a] = "toluna" =>
      /\ row[a].status = "completed" => TolunaFinalized(row[a])
      /\ \A e \in Events : notices[<<a, e>>] = "applied" => TolunaFinalized(row[a])

TInv == OInv /\ TolunaOK

(****************************************************************************)
(* What a step does to a Toluna row when it applies no notice: it keeps the *)
(* outcome, moves an open journey without completing it, or is the browser  *)
(* callback of a row that is not finalized.                                 *)
(****************************************************************************)
Plain(q, r) ==
  \/ r.status = q.status /\ r.verified = q.verified /\ r.source = q.source
  \/ q.status \notin Terminal /\ r.status # "completed"
  \/ ~TolunaFinalized(q) /\ TolunaFinalized(r)

Notified(a, e) ==
  /\ notices[<<a, e>>] = "stored"
  /\ notices'[<<a, e>>] = "applied"
  /\ \A f \in Events \ {e} : notices'[<<a, f>>] = notices[<<a, f>>]
  /\ ~Superseded(a, e)
  /\ row'[a].status \in EventOutcomes(e)
  /\ TolunaFinalized(row'[a])

TolunaStep(a) ==
  \/ /\ \A e \in Events : notices'[<<a, e>>] = "applied" => notices[<<a, e>>] = "applied"
     /\ Plain(row[a], row'[a])
  \/ \E e \in Events : Notified(a, e)

TolunaSteps == \A a \in Attempts : ProviderOf[a] = "toluna" => TolunaStep(a)

(****************************************************************************)
(* A step that stores no new notice as applied and writes one row.          *)
(****************************************************************************)
LEMMA PlainRow ==
  ASSUME TInv, NEW b \in Attempts, NEW r, row' = [row EXCEPT ![b] = r],
         UNCHANGED notices, ProviderOf[b] = "toluna" => Plain(row[b], r)
  PROVE  TolunaSteps
<1>1. row \in [Attempts -> AttemptRow]
  BY DEF TInv, OInv, IInv, TypeOK
<1>2. ASSUME NEW a \in Attempts, ProviderOf[a] = "toluna" PROVE Plain(row[a], row'[a])
  <2>1. CASE a = b
    BY <1>1, <1>2, <2>1
  <2>2. CASE a # b
    BY <1>1, <2>2 DEF Plain
  <2> QED BY <2>1, <2>2
<1> QED BY <1>2 DEF TolunaSteps, TolunaStep

LEMMA PlainNoRow ==
  ASSUME UNCHANGED row,
         \A a \in Attempts, e \in Events :
           notices'[<<a, e>>] = "applied" => notices[<<a, e>>] = "applied"
  PROVE  TolunaSteps
BY DEF TolunaSteps, TolunaStep, Plain

(****************************************************************************)
(* The _finish_* transactions never complete a journey.                     *)
(****************************************************************************)
LEMMA FinishPlain ==
  ASSUME TInv, NEW a \in Attempts, NEW o \in Terminal \ {"completed"}, NEW src,
         FinishLocally(a, o, src), UNCHANGED notices
  PROVE  TolunaSteps
<1> DEFINE r == [Ended(row[a], o, src) EXCEPT !.exit = "ending"]
<1>1. row[a] \in AttemptRow /\ row[a].status = "initiated"
  BY DEF TInv, OInv, IInv, TypeOK, FinishLocally, StillInitiated
<1>2. r.status = o
  BY <1>1 DEF Ended, AttemptRow
<1>3. row' = [row EXCEPT ![a] = r]
  BY DEF FinishLocally, Record
<1>4. Plain(row[a], r)
  BY <1>1, <1>2 DEF Plain, Terminal
<1> HIDE DEF r
<1> QED BY <1>3, <1>4, PlainRow

LEMMA EntryPlain ==
  ASSUME TInv, NEW a \in Attempts, Entry(a)
  PROVE  TolunaSteps
<1> USE DEF journeyVars, expiryVars
<1> DEFINE q == row[a]
<1>0. q \in AttemptRow /\ row \in [Attempts -> AttemptRow]
  BY DEF TInv, OInv, IInv, TypeOK
<1>t. "quality_terminated" \in Terminal \ {"completed"}
      /\ "terminated" \in Terminal \ {"completed"}
  BY DEF Terminal
<1>1. ASSUME NEW ip \in ArrivalIPs, NEW reserves \in BOOLEAN,
             EnterSurvey(a, ip, reserves)
      PROVE  TolunaSteps
  <2>1. Plain(q, NewRow(ip))
    BY <1>1 DEF EnterSurvey, Plain, NewRow, Terminal
  <2> QED BY <1>1, <2>1, PlainRow DEF EnterSurvey
<1>2. CASE RejectDuplicate(a)
  <2>1. CASE StillInitiated(a)
    BY <1>2, <1>t, <2>1, FinishPlain DEF RejectDuplicate
  <2>2. CASE ~StillInitiated(a)
    BY <1>2, <2>2, PlainNoRow DEF RejectDuplicate
  <2> QED BY <2>1, <2>2
<1>3. CASE EntryRequestDies(a)
  BY <1>3, PlainNoRow DEF EntryRequestDies
<1>4. ASSUME NEW ip \in EntryIPs, BackfillEntryIP(a, ip) PROVE TolunaSteps
  <2> DEFINE r == [q EXCEPT !.ip = ip]
  <2>1. Plain(q, r)
    BY <1>0 DEF Plain, AttemptRow
  <2>2. row' = [row EXCEPT ![a] = r] /\ UNCHANGED notices
    BY <1>0, <1>4 DEF BackfillEntryIP
  <2> QED BY <2>1, <2>2, PlainRow
<1>5. CASE RejectCountry(a)
  BY <1>5, <1>t, FinishPlain DEF RejectCountry
<1>6. CASE RejectPrescreener(a)
  BY <1>6, <1>t, FinishPlain DEF RejectPrescreener
<1>7. ASSUME NEW o \in Terminal, RejectInvite(a, o) PROVE TolunaSteps
  BY <1>7, FinishPlain DEF RejectInvite
<1>8. CASE SubmitPrescreener(a)
  <2> DEFINE r == [q EXCEPT !.status = "redirected", !.redirected = TRUE,
                            !.invited = TRUE]
  <2>1. Plain(q, r)
    BY <1>0, <1>8 DEF SubmitPrescreener, StillInitiated, Plain, AttemptRow, Terminal
  <2>2. row' = [row EXCEPT ![a] = r] /\ UNCHANGED notices
    BY <1>0, <1>8 DEF SubmitPrescreener
  <2> QED BY <2>1, <2>2, PlainRow
<1>9. CASE ReleasePreparedInvite(a)
  <2> DEFINE r == [q EXCEPT !.status = "redirected", !.redirected = TRUE]
  <2>1. Plain(q, r)
    BY <1>0, <1>9 DEF ReleasePreparedInvite, StillInitiated, Plain, AttemptRow, Terminal
  <2>2. row' = [row EXCEPT ![a] = r] /\ UNCHANGED notices
    BY <1>0, <1>9 DEF ReleasePreparedInvite
  <2> QED BY <2>1, <2>2, PlainRow
<1> QED BY <1>1, <1>2, <1>3, <1>4, <1>5, <1>6, <1>7, <1>8, <1>9 DEF Entry

(****************************************************************************)
(* Only the browser callback and the notifications write a Toluna row's     *)
(* outcome; the other providers' callbacks refuse it.                       *)
(****************************************************************************)
LEMMA CallbackSteps ==
  ASSUME TInv, NEW a \in Attempts, Callback(a)
  PROVE  TolunaSteps
<1> USE DEF journeyVars, expiryVars
<1> DEFINE q == row[a]
<1>0. /\ q \in AttemptRow
      /\ row \in [Attempts -> AttemptRow]
      /\ notices \in [Attempts \X Events -> {"absent", "stored", "applied"}]
  BY DEF TInv, OInv, IInv, TypeOK
<1>1. ASSUME NEW o \in Terminal,
             \/ InnovateCallback(a, o) \/ BiobrainCallback(a, o)
             \/ UnsignedCallback(a, o) \/ RfgServerCallback(a, o)
      PROVE  TolunaSteps
  <2>1. ProviderOf[a] # "toluna" /\ UNCHANGED notices
    BY <1>1 DEF InnovateCallback, BiobrainCallback, UnsignedCallback, RfgServerCallback
  <2>2. PICK r : row' = [row EXCEPT ![a] = r]
    BY <1>1 DEF InnovateCallback, BiobrainCallback, UnsignedCallback,
                RfgServerCallback, Record
  <2> QED BY <2>1, <2>2, PlainRow
<1>2. ASSUME NEW o \in Terminal, TolunaCallback(a, o) PROVE TolunaSteps
  <2> DEFINE r == [Ended(q, o, "toluna_callback") EXCEPT !.verified = TRUE,
                                                         !.exit = "ending"]
  <2>1. row' = [row EXCEPT ![a] = r] /\ ~TolunaFinalized(q) /\ UNCHANGED notices
    BY <1>2 DEF TolunaCallback, Record
  <2>2. TolunaFinalized(r)
    BY <1>0 DEF Ended, AttemptRow, TolunaFinalized
  <2> HIDE DEF r
  <2> QED BY <2>1, <2>2, PlainRow DEF Plain
<1>3. CASE RfgBrowserReturn(a)
  <2>1. ProviderOf[a] # "toluna" /\ UNCHANGED notices
    BY <1>3 DEF RfgBrowserReturn
  <2>2. PICK r : row' = [row EXCEPT ![a] = r]
    BY <1>3 DEF RfgBrowserReturn
  <2> QED BY <2>1, <2>2, PlainRow
<1>4. ASSUME NEW e \in Events, StoreNotice(a, e) PROVE TolunaSteps
  BY <1>0, <1>4, PlainNoRow DEF StoreNotice
<1>5. ASSUME NEW e \in Events, NEW o \in Terminal, ApplyNotice(a, e, o)
      PROVE  TolunaSteps
  <2> DEFINE r == [Ended(q, o, "toluna_notification") EXCEPT !.verified = TRUE]
  <2>1. /\ row' = [row EXCEPT ![a] = r]
        /\ notices' = [notices EXCEPT ![<<a, e>>] = "applied"]
        /\ notices[<<a, e>>] = "stored"
        /\ ~Superseded(a, e)
        /\ o \in EventOutcomes(e)
    BY <1>5 DEF ApplyNotice, Record
  <2>2. TolunaFinalized(r) /\ r.status = o
    BY <1>0 DEF Ended, AttemptRow, TolunaFinalized
  <2>3. row'[a] = r /\ \A b \in Attempts \ {a} : row'[b] = row[b]
    BY <1>0, <2>1
  <2> HIDE DEF r
  <2>4. Notified(a, e)
    BY <1>0, <2>1, <2>2, <2>3 DEF Notified
  <2>5. ASSUME NEW b \in Attempts, b # a PROVE TolunaStep(b)
    BY <1>0, <2>1, <2>3, <2>5 DEF TolunaStep, Plain
  <2> QED BY <2>4, <2>5 DEF TolunaSteps, TolunaStep
<1> QED BY <1>1, <1>2, <1>3, <1>4, <1>5 DEF Callback

LEMMA NextToluna ==
  ASSUME TInv, [Next]_vars
  PROVE  TolunaSteps
<1> USE DEF journeyVars
<1>1. CASE Poll
  <2>1. PICK m \in Answer : \/ FetchTransaction(m)
                            \/ ApplyTransaction(m)
                            \/ DropTransaction(m)
    BY <1>1 DEF Poll
  <2>2. CASE FetchTransaction(m) \/ DropTransaction(m)
    BY <2>2, PlainNoRow DEF FetchTransaction, DropTransaction
  <2>3. CASE ApplyTransaction(m)
    <3>1. ProviderOf[m.attempt] # "toluna" /\ UNCHANGED notices
      BY <2>3 DEF ApplyTransaction, TInv, OInv, OutcomeOK, FeedsOK
    <3>2. PICK r : row' = [row EXCEPT ![m.attempt] = r]
      BY <2>3 DEF ApplyTransaction, Record
    <3>3. m.attempt \in Attempts
      BY DEF Answer
    <3> QED BY <3>1, <3>2, <3>3, PlainRow
  <2> QED BY <2>1, <2>2, <2>3
<1>2. ASSUME NEW a \in Attempts, TtlElapses(a) PROVE TolunaSteps
  BY <1>2, PlainNoRow DEF TtlElapses
<1>3. ASSUME NEW w \in Workers, Expiry(w) PROVE TolunaSteps
  BY <1>3, PlainNoRow DEF Expiry, ListDue, ExpireListed, KillExpiryRun
<1>4. CASE UNCHANGED vars
  BY <1>4, PlainNoRow DEF vars
<1> QED BY <1>1, <1>2, <1>3, <1>4, EntryPlain, CallbackSteps DEF Next

(****************************************************************************)
(* No step leaves a completed or notified Toluna row unfinalized.           *)
(****************************************************************************)
LEMMA TolunaKept ==
  ASSUME TInv, OInv', TolunaSteps
  PROVE  TInv'
<1> SUFFICES ASSUME NEW a \in Attempts, ProviderOf[a] = "toluna"
             PROVE  /\ row'[a].status = "completed" => TolunaFinalized(row'[a])
                    /\ \A e \in Events :
                         notices'[<<a, e>>] = "applied" => TolunaFinalized(row'[a])
  BY DEF TInv, TolunaOK, TolunaFinalized
<1>1. /\ row[a].status = "completed" => TolunaFinalized(row[a])
      /\ \A e \in Events : notices[<<a, e>>] = "applied" => TolunaFinalized(row[a])
      /\ TolunaFinalized(row[a]) => row[a].status \in Terminal
  BY DEF TInv, TolunaOK, TolunaFinalized, OInv, OutcomeOK
<1>2. TolunaStep(a)
  BY DEF TolunaSteps
<1>3. CASE \E e \in Events : Notified(a, e)
  BY <1>3 DEF Notified
<1>4. CASE /\ \A e \in Events :
                notices'[<<a, e>>] = "applied" => notices[<<a, e>>] = "applied"
           /\ Plain(row[a], row'[a])
  BY <1>1, <1>4 DEF Plain, TolunaFinalized
<1> QED BY <1>2, <1>3, <1>4 DEF TolunaStep

LEMMA InitToluna == Init => TolunaOK
BY DEF Init, TolunaOK, NewRow

LEMMA TolunaInvariance == Spec => []TInv
<1>1. Init => TInv
  BY InitIInv, InitOutcome, InitToluna DEF OInv, TInv
<1>2. TInv /\ [Next]_vars => TInv'
  <2> SUFFICES ASSUME TInv, [Next]_vars PROVE TInv'
    OBVIOUS
  <2>1. OInv /\ IInv
    BY DEF TInv, OInv
  <2>2. IInv'
    BY <2>1, NextShape, ShapeInv
  <2>3. OInv'
    BY <2>1, <2>2, NextWrites, NextFeeds, OutcomeKept
  <2> QED BY <2>3, NextToluna, TolunaKept
<1> QED BY <1>1, <1>2, PTL DEF Spec

-----------------------------------------------------------------------------
(****************************************************************************)
(* A Toluna completion is taken back by a reconciliation only: the browser  *)
(* callback finds the row finalized, and a late termination is superseded.  *)
(****************************************************************************)
THEOREM CompletionCorrect == Spec => TolunaCompletionStands
<1>1. TInv /\ [Next]_vars =>
        [\A a \in Attempts :
           (ProviderOf[a] = "toluna" /\ row[a].status = "completed"
              /\ row'[a].status # "completed")
           => /\ notices[<<a, "reconciliation">>] # "applied"
              /\ notices'[<<a, "reconciliation">>] = "applied"]_vars
  <2> SUFFICES ASSUME TInv, [Next]_vars, NEW a \in Attempts,
                      ProviderOf[a] = "toluna", row[a].status = "completed",
                      row'[a].status # "completed"
               PROVE  /\ notices[<<a, "reconciliation">>] # "applied"
                      /\ notices'[<<a, "reconciliation">>] = "applied"
    OBVIOUS
  <2>1. TolunaFinalized(row[a]) /\ row[a].status \in Terminal
    BY DEF TInv, TolunaOK, Terminal
  <2>2. ~Plain(row[a], row'[a])
    BY <2>1 DEF Plain
  <2>3. PICK e \in Events : Notified(a, e)
    BY <2>2, NextToluna DEF TolunaSteps, TolunaStep
  <2>4. e = "reconciliation"
    BY <2>3 DEF Notified, Superseded, EventOutcomes
  <2> QED BY <2>3, <2>4 DEF Notified
<1> QED BY <1>1, TolunaInvariance, PTL DEF Spec, TolunaCompletionStands

(****************************************************************************)
(* After a completion and its reconciliation have both been applied, no     *)
(* replay, termination or browser callback completes the journey again.     *)
(****************************************************************************)
THEOREM ClawbackCorrect == Spec => ClawbackStands
<1>1. TInv /\ [Next]_vars =>
        [\A a \in Attempts :
           (/\ notices[<<a, "member_complete">>] = "applied"
            /\ notices[<<a, "reconciliation">>] = "applied"
            /\ row[a].status # "completed")
           => row'[a].status # "completed"]_vars
  <2> SUFFICES ASSUME TInv, [Next]_vars, NEW a \in Attempts,
                      notices[<<a, "member_complete">>] = "applied",
                      row[a].status # "completed"
               PROVE  row'[a].status # "completed"
    OBVIOUS
  <2>1. "member_complete" \in Events
    BY DEF Events
  <2>2. ProviderOf[a] = "toluna"
    BY <2>1 DEF TInv, OInv, OutcomeOK, FeedsOK
  <2>3. TolunaFinalized(row[a]) /\ row[a].status \in Terminal
    BY <2>1, <2>2 DEF TInv, TolunaOK, OInv, OutcomeOK, TolunaFinalized
  <2>4. CASE Plain(row[a], row'[a])
    BY <2>3, <2>4 DEF Plain
  <2>5. ASSUME NEW e \in Events, Notified(a, e) PROVE row'[a].status # "completed"
    <3>1. e # "member_complete"
      BY <2>5 DEF Notified
    <3> QED BY <2>5, <3>1 DEF Notified, EventOutcomes, Events
  <2> QED BY <2>2, <2>4, <2>5, NextToluna DEF TolunaSteps, TolunaStep
<1> QED BY <1>1, TolunaInvariance, PTL DEF Spec, ClawbackStands
=============================================================================
